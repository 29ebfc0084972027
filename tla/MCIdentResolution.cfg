CONSTANTS
  Worlds <- MCWorlds
  None = None
SPECIFICATION Spec
INVARIANTS
  LocalsMeanTheirBinding
  DeclarationIsOriginal
  NeverInACircle
