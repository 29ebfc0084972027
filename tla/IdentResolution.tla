--------------------------- MODULE IdentResolution ---------------------------
(***************************************************************************)
(* The declaration of an identifier, in whatever module declared it:       *)
(* resolveIdentifierDeclaration of src/analyze/identresolution.cpp, which  *)
(* follows imports and re-exports from module to module.  The identifiers  *)
(* of a module are resolved when it is first asked for them (Scopes).      *)
(* Modules are known by the strings that import them.                      *)
(***************************************************************************)
EXTENDS ScopeRules

CONSTANTS
  Worlds,    \* programs: the trees of some modules by name; others are native
  None       \* no module, no node

VARIABLES
  world,      \* the program
  resolved,   \* resolvedLocalIdentifiers of each module, None before the pass
  pc,         \* "idle"; "walk", in resolveIdentifierDeclaration; "done"
  asked,      \* the identifier in question, a module and a path in its tree
  decl,      \* the declaration the walk has come to, or None
  passed     \* history: the declarations that the walk has left for the next module

vars == <<world, resolved, pc, asked, decl, passed>>

Init ==
  /\ world \in Worlds
  /\ resolved = [m \in DOMAIN world |-> None]
  /\ pc = "idle"
  /\ asked = None
  /\ decl = None
  /\ passed = {}

\* getResolvedLocalIdentifiers, and what it leaves behind.
Locals(m) == IF resolved[m] = None THEN ResolveModuleIdentifiers(world[m]) ELSE resolved[m]
Resolve(m, locals) == resolved' = [resolved EXCEPT ![m] = locals]

\* The pass of a module's analysis, which comes before its types are asked for.
ResolveLocalIdentifiers(m) ==
  /\ pc = "idle"
  /\ resolved[m] = None
  /\ Resolve(m, Locals(m))
  /\ UNCHANGED <<world, pc, asked, decl, passed>>

KindOf(node) == Kind(world[node[1]], node[2])
Parent(node) == <<node[1], Front(node[2])>>
Source(node) == NameOf(world[node[1]], Parent(node)[2])

\* Specifiers that stand for a declaration of another module.
IsImported(node) ==
  LET spec == Parent(node)
  IN  \/ KindOf(spec) \in {"imported", "importedtype", "importeddefault"}
      \/ KindOf(spec) = "exported" /\ Source(spec) # ""

\* The parent of a name that it declares, but for parameters.
Declaration(node) ==
  IF KindOf(Parent(node)) \in {"fun", "funexpr", "class", "var", "let", "type"}
       /\ Last(node[2]) = 1
  THEN Parent(node) ELSE node

------------------------------------------------------------------------------
(* resolveImportedIdentifierDeclaration *)

ImportedName(t, spec) ==
  CASE Kind(t, spec) = "exported"        -> NameOf(t, Append(spec, 1))
    [] Kind(t, spec) = "importeddefault" -> "default"
    [] OTHER                             -> NameOf(t, spec)

\* What the export statements of a module offer: the local names in specifiers,
\* the expression or the declaration of export default.
Statements(t, kinds) == SelectSeq(Children(t, <<>>), LAMBDA p : Kind(t, p) \in kinds)
Specifiers(t) ==
  LET exports == Statements(t, {"export", "exporttype"})
  IN  SelectSeq(FlattenSeq([i \in DOMAIN exports |-> Children(t, exports[i])]),
                LAMBDA p : Kind(t, p) = "exported")
ExportedAs(t, name) ==
  LET specs == SelectSeq(Specifiers(t), LAMBDA p : NameOf(t, Append(p, 2)) = name)
  IN  IF specs = <<>> THEN None ELSE Append(Last(specs), 1)
DefaultExport(t) ==
  LET exports == Statements(t, {"exportdefault"})
  IN  IF exports = <<>> THEN None ELSE Append(Last(exports), 1)

FindExport(t, name, isDefault) ==
  IF ExportedAs(t, name) # None \/ ~isDefault THEN ExportedAs(t, name) ELSE DefaultExport(t)

\* Slips to test the checks below against: the imported module is not changed to;
\* an exported name is not looked up.
FollowInPlace ==
  /\ pc = "walk"
  /\ IsImported(decl)
  /\ LET spec == Parent(decl)
         found == FindExport(world[decl[1]], ImportedName(world[spec[1]], spec[2]), FALSE)
     IN  IF found = None THEN pc' = "done" /\ decl' = None
         ELSE pc' = "walk" /\ decl' = <<decl[1], Locals(decl[1])[found]>>
  /\ passed' = passed \cup {decl}
  /\ UNCHANGED <<world, asked, resolved>>

FollowUnresolved ==
  /\ pc = "walk"
  /\ IsImported(decl)
  /\ LET spec == Parent(decl)
         found == FindExport(world[Source(spec)], ImportedName(world[spec[1]], spec[2]),
                             KindOf(spec) = "importeddefault")
     IN  IF Source(spec) \notin DOMAIN world \/ found = None THEN pc' = "done" /\ decl' = None
         ELSE pc' = "walk" /\ decl' = <<Source(spec), found>>
  /\ passed' = passed \cup {decl}
  /\ UNCHANGED <<world, asked, resolved>>

\* An exported name is looked up in its module; one that is exported from elsewhere
\* has no declaration there, and stands for itself.
Found(m, p, locals) == <<m, IF p \in DOMAIN locals THEN locals[p] ELSE p>>
GoTo(m, p) ==
  IF p = None THEN pc' = "done" /\ decl' = None /\ UNCHANGED resolved
  ELSE /\ pc' = "walk"
       /\ IF Kind(world[m], p) = "id"
          THEN decl' = Found(m, p, Locals(m)) /\ Resolve(m, Locals(m))
          ELSE decl' = <<m, p>> /\ UNCHANGED resolved

FollowSpecifier(t, spec, m, isDefault) ==
  IF m \notin DOMAIN world THEN pc' = "done" /\ decl' = None /\ UNCHANGED resolved
  ELSE GoTo(m, FindExport(world[m], ImportedName(t, spec), isDefault))

------------------------------------------------------------------------------
(* resolveIdentifierDeclaration *)

Ask(m) ==
  /\ pc = "idle"
  /\ \E locals \in {Locals(m)} :
       /\ Resolve(m, locals)
       /\ \E i \in Identifiers(world[m]) :
            /\ asked' = <<m, i>>
            /\ IF i \in DOMAIN locals
               THEN pc' = "walk" /\ decl' = <<m, locals[i]>>
               ELSE pc' = "done" /\ decl' = None
  /\ UNCHANGED <<world, passed>>

Follow ==
  /\ pc = "walk"
  /\ IsImported(decl)
  /\ LET spec == Parent(decl)
     IN FollowSpecifier(world[spec[1]], spec[2], Source(spec), KindOf(spec) = "importeddefault")
  /\ passed' = passed \cup {decl}
  /\ UNCHANGED <<world, asked>>

Answer ==
  /\ pc = "walk"
  /\ ~IsImported(decl)
  /\ pc' = "done"
  /\ decl' = Declaration(decl)
  /\ UNCHANGED <<world, resolved, asked, passed>>

Return ==
  /\ pc = "done"
  /\ pc' = "idle"
  /\ asked' = None
  /\ decl' = None
  /\ passed' = {}
  /\ UNCHANGED <<world, resolved>>

Next ==
  \/ \E m \in DOMAIN world : ResolveLocalIdentifiers(m) \/ Ask(m)
  \/ Follow \/ Answer \/ Return

Spec == Init /\ [][Next]_vars

------------------------------------------------------------------------------
(* What an import means *)

ExportedDeclarations(t, name) ==
  {d.id : d \in {e \in Declared(t) :
                  /\ e.name = name /\ e.region = <<>>
                  /\ \E p \in Range(Statements(t, {"export", "exporttype"})) : IsPrefix(p, e.id)}}

\* The identifiers or expressions that export name from m, and where it is
\* declared itself if it is. The source only looks for specifiers, and for export
\* default if a default import asks; all has the other declarations as well.
Exporting(t, name, isDefault, all) ==
  {Append(p, 1) : p \in {q \in Range(Specifiers(t)) : NameOf(t, Append(q, 2)) = name}}
    \cup (IF name = "default" /\ (isDefault \/ all) THEN {DefaultExport(t)} \ {None} ELSE {})
    \cup (IF all THEN ExportedDeclarations(t, name) ELSE {})

\* One step from a name to what it stands for, in its module or the next.
Means(node, all) ==
  LET spec == Parent(node)
      from == Source(spec)
      name == ImportedName(world[node[1]], spec[2])
      t == world[node[1]]
  IN  IF KindOf(node) # "id" THEN {node}
      ELSE IF ~IsImported(node) THEN {<<node[1], id>> : id \in Meaning(t, node[2], Declared(t))}
      ELSE IF from \notin DOMAIN world THEN {}
      ELSE {<<from, p>> : p \in Exporting(world[from], name, KindOf(spec) = "importeddefault", all)}

\* No way through the modules is longer, unless it leads in a circle.
Steps == 2 * Cardinality(DOMAIN world)
RECURSIVE MeantIn(_, _, _)
MeantIn(steps, nodes, all) ==
  IF steps = 0 THEN nodes ELSE MeantIn(steps - 1, UNION {Means(node, all) : node \in nodes}, all)
Originals(m, i, all) == {Declaration(node) : node \in MeantIn(Steps, {<<m, i>>}, all)}

------------------------------------------------------------------------------
(* Correctness *)

\* Every reference in a module is resolved to a declaration of the binding it
\* means, whatever is hoisted past it or shadows it, and all references to one
\* binding to the same declaration of it; every name that declares to itself, and
\* no reference without a binding to anything.  Which declaration of a binding that
\* has several is not said here: the source takes the last one it writes into its
\* map, where test/identresolution/forStatements.js:21 speaks of the earliest one.
MeansItsBinding(m) ==
  LET t == world[m]
      declared == Declared(t)
      references == {i \in Identifiers(t) : IsReference(t, i)}
      meaning == [i \in references |-> Meaning(t, i, declared)]
  IN  \A i \in references :
        IF meaning[i] = {} THEN i \notin DOMAIN resolved[m]
        ELSE /\ i \in DOMAIN resolved[m] /\ resolved[m][i] \in meaning[i]
             /\ \A j \in references :
                  meaning[j] = meaning[i] => resolved[m][j] = resolved[m][i]
LocalsMeanTheirBinding ==
  pc = "idle" => \A m \in DOMAIN world : resolved[m] # None => MeansItsBinding(m)

\* The answer is the original declaration, through any number of imports, exports
\* and re-exports under other names; there is none only if the way leads to a
\* native module or to a declaration that is exported without a specifier.
DeclarationIsOriginal ==
  (pc = "done" /\ IsReference(world[asked[1]], asked[2])) =>
    IF decl = None THEN Originals(asked[1], asked[2], FALSE) = {}
    ELSE decl \in Originals(asked[1], asked[2], TRUE)

\* The walk never comes back to a declaration it has left: it ends, though modules
\* import each other in a cycle.
NeverInACircle == pc = "walk" => decl \notin passed
=============================================================================
