CONSTANTS
  main = main
  a = a
  b = b
  nowhere = nowhere
  Modules <- Files
  Unresolved = nowhere
  MaxFunctions = 1
  Worlds <- AllWorlds
SPECIFICATION Spec
INVARIANTS
  TypeOK
  CallsDoNotRepeat
  ImportedFilesAreAnalyzed
PROPERTIES
  Terminates
