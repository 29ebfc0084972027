---------------------------- MODULE ModuleLoader ----------------------------
(***************************************************************************)
(* The main thread between the start and the stop of the parsing threads:  *)
(* src/main.cpp loads modules, walks the imports of a project, and         *)
(* analyzes one module after the other.  The passes of a module            *)
(* (src/module/module.cpp) are lazy: each sets its flag, waits for the     *)
(* syntax tree, loads what the module imports, and may call passes of the  *)
(* imported modules.  These calls are a stack of frames.  The threads that *)
(* parse are seen as the ParseService: its jobs are the modules.           *)
(*                                                                         *)
(* Left out: native modules, which are found without a file; the names     *)
(* that are missing from a context, because nothing calls                  *)
(* Module::evaluate, their only reader; localXRefs and the lints, which    *)
(* load nothing.                                                           *)
(***************************************************************************)
EXTENDS Naturals, Sequences

CONSTANTS
  Modules,       \* canonical paths of files
  Unresolved,    \* an import that names no file
  Worlds,        \* what main may be started on: see WorldAssumption
  MaxFunctions   \* functions of a module

\* mode: the kind of the command-line argument; target: the file it names, or
\* the main file of the package; project: the files of the project directory
\* outside of node_modules; imports, requires: the files named by the import
\* declarations and require() calls of a file; compiles: what V8 accepts.
WorldAssumption ==
  /\ Unresolved \notin Modules
  /\ MaxFunctions \in Nat
  /\ \A w \in Worlds :
       /\ w.mode \in {"file", "directory", "package"}
       /\ w.target \in Modules
       /\ w.project \subseteq Modules
       /\ w.mode = "package" => w.target \in w.project
       /\ w.imports \in [Modules -> SUBSET (Modules \cup {Unresolved})]
       /\ w.requires \in [Modules -> SUBSET Modules]
       /\ w.compiles \subseteq Modules

ASSUME WorldAssumption

VARIABLES
  world,
  stage,             \* where main() is
  stack,             \* the calls under way in the main thread, innermost first
  importsResolved,   \* modules with the flag of this name set
  localDone,         \* modules with localIdentifierResolutionDone set
  scopeChain,        \* modules whose scopeChain is not null
  importedDone,      \* modules with importedIdentifierResolutionDone set
  functionGraphs,    \* per module, for how many functions the map has an entry
  modulesToAnalyze,  \* those that main has not come to yet
  analyzed,
  state, open, live, broken    \* of the ParseService

Service == INSTANCE ParseService WITH Jobs <- Modules

serviceVars == <<state, open, live, broken>>
passVars == <<importsResolved, localDone, scopeChain, importedDone, functionGraphs>>
mainVars == <<stage, modulesToAnalyze, analyzed>>
vars == <<world, mainVars, stack, passVars, serviceVars>>

\* The modules in moduleMap: to construct one is to hand in its source.
Loaded == {m \in Modules : state[m] # "new"}

\* Slips, to test the checks below against: require() is forgotten; and the walk
\* does not ask isProjectModule.
ProjectImportsDeclared(m) == world.imports[m] \cap world.project
ProjectImportsAnywhere(m) == (world.imports[m] \cup world.requires[m]) \ {Unresolved}

\* An import walk goes to project modules only: isProjectModule.
ProjectImports(m) == (world.imports[m] \cup world.requires[m]) \cap world.project

\* What the import declarations of a module lead to, step by step.
ImportClosed(S) == \A m \in S : world.imports[m] \ {Unresolved} \subseteq S
Reachable(m) == {k \in Modules : \A S \in SUBSET Modules : m \in S /\ ImportClosed(S) => k \in S}

Init ==
  /\ world \in Worlds
  /\ stage = "options"
  /\ stack = <<>>
  /\ importsResolved = {} /\ localDone = {} /\ scopeChain = {} /\ importedDone = {}
  /\ functionGraphs = [m \in Modules |-> 0]
  /\ modulesToAnalyze = {} /\ analyzed = {}
  /\ Service!Init

------------------------------------------------------------------------------
(* Calls of the main thread *)

Frame(c, m, rest) == [call |-> c, module |-> m, rest |-> rest]

Top == Head(stack)
In(c) == stack # <<>> /\ Top.call = c

Return == stack' = Tail(stack)
Continue(frame) == stack' = <<frame>> \o Tail(stack)
Call(frame, after) == stack' = <<frame>> \o (<<after>> \o Tail(stack))

\* ModuleResolver::getModule: try_emplace constructs what is not in the map.
GetModule(m) ==
  IF m \in Loaded THEN UNCHANGED serviceVars ELSE Service!Accept(m)

\* getAst returns.
HasAst(m) == state[m] = "parsed"

\* An exception goes up to the getFunctionGraph that catches it, and ends the
\* process if there is none.
Throw ==
  LET catching == {i \in DOMAIN stack : stack[i].call = "getFunctionGraph"}
  IN  IF catching = {}
      THEN Service!Break /\ UNCHANGED stack
      ELSE /\ \E i \in catching :
                /\ \A j \in catching : i <= j
                /\ stack' = SubSeq(stack, i + 1, Len(stack))
           /\ UNCHANGED serviceVars

------------------------------------------------------------------------------
(* Module::resolveProjectImports *)

ImportsAlreadyResolved ==
  /\ In("resolveProjectImports") /\ Top.module \in importsResolved
  /\ Return
  /\ UNCHANGED <<world, mainVars, passVars, serviceVars>>

ResolveProjectImportsUnmarked ==     \* the flag is not set
  /\ In("resolveProjectImports") /\ Top.module \notin importsResolved
  /\ HasAst(Top.module)
  /\ Continue(Frame("load", Top.module, ProjectImports(Top.module)))
  /\ UNCHANGED <<world, mainVars, passVars, serviceVars>>

ResolveProjectImports ==
  /\ In("resolveProjectImports") /\ Top.module \notin importsResolved
  /\ HasAst(Top.module)
  /\ importsResolved' = importsResolved \cup {Top.module}
  /\ IF Top.module \in world.compiles
     THEN /\ Continue(Frame("load", Top.module, ProjectImports(Top.module)))
          /\ UNCHANGED serviceVars
     ELSE Throw
  /\ UNCHANGED <<world, mainVars, localDone, scopeChain, importedDone, functionGraphs>>

\* First all of the imports are loaded, so that they are parsed side by side.
LoadProjectImport ==
  /\ In("load")
  /\ \E m \in Top.rest :
       /\ GetModule(m)
       /\ Continue(Frame("load", Top.module, Top.rest \ {m}))
  /\ UNCHANGED <<world, mainVars, passVars>>

AllImportsLoaded ==
  /\ In("load") /\ Top.rest = {}
  /\ Continue(Frame("walk", Top.module, ProjectImports(Top.module)))
  /\ UNCHANGED <<world, mainVars, passVars, serviceVars>>

\* Then each is walked in turn.
WalkProjectImport ==
  /\ In("walk")
  /\ \E m \in Top.rest :
       Call(Frame("resolveProjectImports", m, {}), Frame("walk", Top.module, Top.rest \ {m}))
  /\ UNCHANGED <<world, mainVars, passVars, serviceVars>>

------------------------------------------------------------------------------
(* Module::resolveLocalIdentifiers, also from getResolvedLocalIdentifiers and getScopeChain *)

LocalAlreadyDone ==
  /\ In("resolveLocalIdentifiers") /\ Top.module \in localDone
  /\ Return
  /\ UNCHANGED <<world, mainVars, passVars, serviceVars>>

ResolveLocalIdentifiers ==
  /\ In("resolveLocalIdentifiers") /\ Top.module \notin localDone
  /\ HasAst(Top.module)
  /\ localDone' = localDone \cup {Top.module}
  /\ IF Top.module \in world.compiles
     THEN /\ scopeChain' = scopeChain \cup {Top.module}
          /\ Continue(Frame("import", Top.module, world.imports[Top.module]))
          /\ UNCHANGED serviceVars
     ELSE Throw /\ UNCHANGED scopeChain
  /\ UNCHANGED <<world, mainVars, importsResolved, importedDone, functionGraphs>>

\* The imports are looked up for the names they miss, project or not.
LoadImport ==
  /\ In("import")
  /\ \E m \in Top.rest :
       IF m = Unresolved
       THEN Throw
       ELSE GetModule(m) /\ Continue(Frame("import", Top.module, Top.rest \ {m}))
  /\ UNCHANGED <<world, mainVars, passVars>>

\* The end of the last loop of a call.
LoopDone ==
  /\ In("walk") \/ In("import") \/ In("specifiers")
  /\ Top.rest = {}
  /\ Return
  /\ UNCHANGED <<world, mainVars, passVars, serviceVars>>

------------------------------------------------------------------------------
(* Module::resolveImportedIdentifiers *)

ResolveImportedIdentifiers ==
  /\ In("resolveImportedIdentifiers") /\ HasAst(Top.module)
  /\ IF Top.module \in importedDone
     THEN Return
     ELSE Continue(Frame("specifiers", Top.module, world.imports[Top.module]))
  /\ importedDone' = importedDone \cup {Top.module}
  /\ UNCHANGED <<world, mainVars, importsResolved, localDone, scopeChain,
                 functionGraphs, serviceVars>>

\* resolveImportedIdentifierDeclaration, for an import with names in braces or a
\* default.  What is exported may be an identifier: its module must be resolved.
ResolveSpecifier ==
  /\ In("specifiers")
  /\ \E m \in Top.rest :
       LET after == Frame("specifiers", Top.module, Top.rest \ {m})
       IN  \/ Continue(after) /\ UNCHANGED serviceVars
           \/ m = Unresolved /\ Throw
           \/ m \in Modules \ Loaded /\ GetModule(m) /\ UNCHANGED stack
           \/ /\ m \in Loaded /\ HasAst(m)
              /\ Call(Frame("resolveLocalIdentifiers", m, {}), after)
              /\ UNCHANGED serviceVars
  /\ UNCHANGED <<world, mainVars, passVars>>

------------------------------------------------------------------------------
(* runTypechecks and the passes on function graphs *)

\* The type of an identifier is that of its declaration, which is looked for in
\* the modules that imports lead to: resolveIdentifierDeclaration.
FollowImport ==
  /\ In("runTypechecks")
  /\ \E m \in Reachable(Top.module) \cap localDone : \E k \in world.imports[m] :
       IF k = Unresolved
       THEN Throw
       ELSE \/ k \notin Loaded /\ GetModule(k) /\ UNCHANGED stack
            \/ /\ k \in Loaded \ localDone /\ HasAst(k)
               /\ Call(Frame("resolveLocalIdentifiers", k, {}), Top)
               /\ UNCHANGED serviceVars
  /\ UNCHANGED <<world, mainVars, passVars>>

GetFunctionGraphUnsaved ==     \* the graph is not put into the map
  /\ In("runTypechecks")
  /\ HasAst(Top.module)
  /\ stack' = <<Frame("resolveLocalIdentifiers", Top.module, {})>>
                \o (<<Frame("getFunctionGraph", Top.module, {})>> \o stack)
  /\ UNCHANGED <<world, mainVars, passVars, serviceVars>>

\* Module::getFunctionGraph of a function of this module, or of one that was
\* found through an import, perhaps as the module's default export.
GetFunctionGraph ==
  /\ In("runTypechecks")
  /\ \E m \in Reachable(Top.module) :
       /\ \/ m \in localDone
          \/ \E k \in Reachable(Top.module) \cap localDone : m \in world.imports[k]
       /\ HasAst(m)
       /\ functionGraphs[m] < MaxFunctions
       /\ functionGraphs' = [functionGraphs EXCEPT ![m] = @ + 1]
       /\ stack' = <<Frame("resolveLocalIdentifiers", m, {})>>
                     \o (<<Frame("getFunctionGraph", m, {})>> \o stack)
  /\ UNCHANGED <<world, mainVars, importsResolved, localDone, scopeChain, importedDone, serviceVars>>

\* getScopeChain has returned, and GraphBuilder builds the graph. (On a chain that is
\* null it would crash: with a second function after one whose resolution threw.)
BuildFromAst ==
  /\ In("getFunctionGraph")
  /\ Return
  /\ UNCHANGED <<world, mainVars, passVars, serviceVars>>

TypechecksDone ==
  /\ In("runTypechecks")
  /\ Return
  /\ UNCHANGED <<world, mainVars, passVars, serviceVars>>

------------------------------------------------------------------------------
(* main() *)

Targets == IF world.mode = "directory" THEN world.project ELSE {world.target}

Start ==
  /\ stage = "options"
  /\ Service!Open
  /\ stage' = "load"
  /\ UNCHANGED <<world, stack, passVars, modulesToAnalyze, analyzed>>

LoadTarget ==
  /\ stage = "load"
  /\ \E m \in Targets \ Loaded : GetModule(m)
  /\ UNCHANGED <<world, mainVars, stack, passVars>>

TargetsLoaded ==
  /\ stage = "load" /\ Targets \subseteq Loaded
  /\ IF world.mode = "package"
     THEN /\ stage' = "walk"
          /\ stack' = <<Frame("resolveProjectImports", world.target, {})>>
          /\ UNCHANGED modulesToAnalyze
     ELSE /\ stage' = "analyze"
          /\ modulesToAnalyze' = Targets
          /\ UNCHANGED stack
  /\ UNCHANGED <<world, passVars, analyzed, serviceVars>>

\* getLoadedProjectModules
ProjectLoaded ==
  /\ stage = "walk" /\ stack = <<>>
  /\ stage' = "analyze"
  /\ modulesToAnalyze' = Loaded \cap world.project
  /\ UNCHANGED <<world, stack, passVars, analyzed, serviceVars>>

\* Module::analyze; moduleMap has no order.
Analyze ==
  /\ stage = "analyze" /\ stack = <<>>
  /\ \E m \in modulesToAnalyze :
       /\ modulesToAnalyze' = modulesToAnalyze \ {m}
       /\ analyzed' = analyzed \cup {m}
       /\ stack' = <<Frame("resolveLocalIdentifiers", m, {}),
                     Frame("resolveImportedIdentifiers", m, {}),
                     Frame("runTypechecks", m, {})>>
  /\ UNCHANGED <<world, stage, passVars, serviceVars>>

Cleanup ==
  /\ stage = "analyze" /\ stack = <<>> /\ modulesToAnalyze = {}
  /\ Service!Close
  /\ stage' = "cleanup"
  /\ UNCHANGED <<world, stack, passVars, modulesToAnalyze, analyzed>>

\* stopParsingThreads has returned.
ExitSuccess ==
  /\ stage = "cleanup" /\ ~live
  /\ stage' = "exited"
  /\ UNCHANGED <<world, stack, passVars, modulesToAnalyze, analyzed, serviceVars>>

MainThread ==
  \/ ImportsAlreadyResolved \/ ResolveProjectImports
  \/ LoadProjectImport \/ AllImportsLoaded \/ WalkProjectImport
  \/ LocalAlreadyDone \/ ResolveLocalIdentifiers \/ LoadImport \/ LoopDone
  \/ ResolveImportedIdentifiers \/ ResolveSpecifier
  \/ FollowImport \/ GetFunctionGraph \/ BuildFromAst \/ TypechecksDone
  \/ Start \/ LoadTarget \/ TargetsLoaded \/ ProjectLoaded
  \/ Analyze \/ Cleanup \/ ExitSuccess

\* The threads that parse, and the stop they come to.  A parse error in one of
\* them ends the process.
ParseThreads ==
  /\ \/ \E m \in Modules : Service!Begin(m) \/ Service!Finish(m)
     \/ Service!Down
     \/ Service!Break /\ \E m \in Modules : state[m] = "running"
  /\ UNCHANGED <<world, mainVars, stack, passVars>>

Over == (broken \/ stage = "exited") /\ UNCHANGED vars

Next == Over \/ (~broken /\ (MainThread \/ ParseThreads))

SafeSpec == Init /\ [][Next]_vars

\* main runs on, and the pool keeps what ParseService promises.
Spec ==
  /\ SafeSpec
  /\ WF_vars(~broken /\ MainThread)
  /\ Service!Fairness

------------------------------------------------------------------------------
(* Correctness *)

LoopCalls == {"load", "walk", "import", "specifiers"}
PlainCalls == {"resolveProjectImports", "resolveLocalIdentifiers",
               "resolveImportedIdentifiers", "runTypechecks", "getFunctionGraph"}
Frames ==
  [call : PlainCalls \cup {"load", "walk"}, module : Modules, rest : SUBSET Modules]
    \cup [call : {"import", "specifiers"}, module : Modules, rest : SUBSET (Modules \cup {Unresolved})]

\* The import walk loads and comes to modules of the project only, never to one in
\* node_modules, although the modules of the project import those too.
WalkCalls == {"resolveProjectImports", "load", "walk"}
WalkStaysInProject ==
  \A i \in DOMAIN stack :
    stack[i].call \in WalkCalls =>
      /\ stack[i].module \in world.project
      /\ stack[i].call # "resolveProjectImports" => stack[i].rest \subseteq world.project

\* What each variable ranges over: passes run on modules that were loaded.
Typed ==
  /\ world \in Worlds
  /\ stage \in {"options", "load", "walk", "analyze", "cleanup", "exited"}
  /\ stack \in Seq(Frames)
  /\ importsResolved \cup localDone \cup importedDone \cup analyzed \cup modulesToAnalyze
       \subseteq Loaded
  /\ scopeChain \subseteq localDone
  /\ functionGraphs \in [Modules -> 0..MaxFunctions]
  /\ state \in [Modules -> Service!States]
  /\ {open, live, broken} \subseteq BOOLEAN

\* Type invariant: each variable has its type, and a call of the import walk is
\* about modules of the project.
TypeOK == Typed /\ WalkStaysInProject

\* What the import walk of a package has to come to.
WalkClosed(S) ==
  /\ world.target \in S
  /\ \A m \in S : (world.imports[m] \cup world.requires[m]) \cap world.project \subseteq S

\* "Analyze all project files imported from the main file" (main.cpp): when the
\* program has run to its end on a package, it has analyzed every project file
\* that imports and requires lead to, also through cycles, where the flag
\* importsResolved cuts the walk short.
ImportedFilesAreAnalyzed ==
  stage = "exited" /\ world.mode = "package" => WalkClosed(analyzed)

\* The flags keep the recursion flat: a module is walked at most once at a time,
\* so that an import cycle does not exhaust the call stack.
CallsDoNotRepeat ==
  \A i, j \in DOMAIN stack :
    i # j /\ stack[i].call \in LoopCalls /\ stack[j].call \in LoopCalls
      /\ stack[i].module = stack[j].module
      => (stack[i].call = "specifiers") # (stack[j].call = "specifiers")

\* main comes to its end: no pass waits for a syntax tree that the threads were
\* not given, or were given after they were stopped, and cycles of imports do not
\* keep it walking.
Terminates == <>(stage = "exited" \/ broken)
=============================================================================
