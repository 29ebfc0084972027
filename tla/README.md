# A verification project for jsre

jsre is a static analyser for JavaScript (with Flow types). It loads modules, parses them in worker threads with
Babel, resolves identifiers and imports, builds a control flow and SSA graph per function, checks types over that
graph and runs lints. This directory holds TLA+ models of its control, the TLC runs that check them on small
instances, and theorems about them whose proofs TLAPS checks.

    tlc -config MCParsePool.cfg MCParsePool      # a run; PROJECT.json lists them all
    tlapm ParsePoolProofs.tla                    # the proofs of a module

`PROJECT.json` maps every definition to the source lines it stands for, and lists components, runs, mutants (slips
of the code that each property must notice), findings, hazards and theorems. Definitions keep the names of the source.


## 1. Inventory

Paths are under `src/`. "Correct" says what the component owes its callers; names in `code font` are properties
that a run checks.

| component | state | operations | modelled by |
|---|---|---|---|
| main program, `main.cpp` | list of modules to analyse | start pool, load targets, walk imports, analyse each, stop pool | MainProgram, ModuleLoader |
| parsing pool, `ast/parse.cpp` | thread vector, package vector, mutex + condition variable, stop flag, counter of started workers | startParsingThreads, parseSourceScriptAsync, stopParsingThreads, worker loop | ParsePool, ParseService |
| Babel compile cache, `ast/parse.cpp`, `utils/utils.cpp` | an atomic pointer shared by workers, a file kept across runs | load, publish, write back | BabelCache |
| module loader, `module/module.cpp`, `module/moduleresolver.cpp` | static map path -> Module; per module: future of the tree, flags and results of the lazy passes, map of function graphs | getModule, getAst, resolveProjectImports, resolveLocalIdentifiers, resolveImportedIdentifiers, getFunctionGraph, analyze | ModuleLoader |
| syntax tree, `ast/ast.cpp`, `ast.hpp`, `import.cpp` | nodes with members and a parent | import of Babel's objects, one function per kind of node | SyntaxTree and its tables |
| tree walk, `ast/walk.cpp` | none | walkAst with a predicate, applyChildren of every class | SyntaxTree, WalkTable |
| identifier resolution, `analyze/identresolution.cpp` | scope chain, identifier -> declaration | collect declarations, resolve names; follow imports and re-exports | Scopes, IdentResolution (its calls of the loader: ModuleLoader) |
| graphs, `graph/*.cpp` | nodes, blocks, pending breaks and continues, catch stack, variable definitions, phis | buildFromAst and one process* function per statement and expression | GraphBuilder, ControlFlow |
| type checking, `analyze/typecheck.cpp`, `typerefinement.cpp` | worklist of scopes, refined types per scope | runTypechecks, runTypechecksInBranch, mergeScopes, refineTypes | Typecheck |
| types, `queries/types.cpp`, `typeresolution.cpp` | memo of node types, lazily initialised extra infos | sums, equality and order of types, resolveNodeType, resolveReturnType | plan |
| function passes, `passes/function/` | none | missingAwait on a finished graph | plan |
| Flow type removal, `transform/*.cpp` | a copy of the source | blank ranges | plan |
| scoping and identifier tests, `test/` | one Module and one pool per test case | start, load, stop, getAst | ScopingTest (first of the two) |
| V8 isolates, native modules, other lints, dot output, reporting, utilities | see PROJECT.json | | not modelled (section 8) |

How they interact. The main thread calls everything but the parse itself. Constructing a `Module` reads its file and
hands a package (a promise and references into the Module) to the pool; `getAst` blocks on the future. The lazy passes
of a Module call each other, load other Modules, and run passes of other Modules: `analyze` of one file may build
graphs of functions of another in the middle of its own. Graphs are inputs of the type checker, which asks for the
types of nodes, which asks for graphs of other functions. There are no messages and nothing persists but Babel's code
cache; the only shared state between threads is the pool's.

What is hard, and what makes each part correct:

* **Pool.** Threads that create threads, one `notify_one` per package, a stop flag stored without the mutex, a spin
  on a counter, and restarts in one process (the tests do it). Correct: no promise is set twice or lost
  (`OnePlace`), no worker sleeps on work (`NoSleepingOnWork`), a stop is not missed (`NoSleeperAtJoin`,
  `StartedWorkersAreInLoop`), what is dropped at a stop is dropped once (`NoPackageTakenAtJoin`), a stopped pool can
  be started again (`StoppedPoolIsAtRest`), getAst and stop return (`GetAstReturnsEventually`,
  `StopReturnsEventually`), and all together it is the service its callers rely on (`ImplementsService`).
* **Main program.** Ends in every order of loads, waits, exceptions and stop (`Terminates`); when it exits it has got each
  tree it asked for, and leaves no thread behind that could touch static data (`CleanExit`).
* **Code cache.** Workers race for one pointer without a lock, processes for one file without a lock, and a process may
  die between two pieces of a write. Correct: one worker saves (`OneWorkerSaves`), nobody compiles from freed bytes
  (`NoDanglingBlob`), a bad file comes only from an interrupted or overlapping write (`FilesAreWhole`), what is loaded
  from a good one is good (`LoadsAreWhole`), a start completes whatever the file holds (`StartCompletes`).
* **Tests as callers.** A Module is a local of the test case: no package may outlive it (`NoDanglingPackage`).
* **Loader.** Flags set before the work they stand for, cycles of imports, exceptions swallowed several calls above,
  waits for trees in the middle of recursion. Correct: the import walk stays in the project (`TypeOK`), every project file reached by imports is analysed
  (`ImportedFilesAreAnalyzed`), recursion stays flat (`CallsDoNotRepeat`), main comes to its end (`Terminates`).
* **Syntax tree and walk.** 119 kinds of nodes, constructors of up to eleven parameters passed by position, hand-written
  lists of children. Correct: every attribute arrives in its member (`MembersKeepMeaning`), what is not known is refused
  and nothing else (`UnknownSyntaxIsRefused`), a walk meets every node its predicate lets it see once
  (`CallbackSeesEachNodeOnce`), parents lead to the file (`ParentsLeadToTheRoot`).
* **Identifier resolution.** What a name means depends on the order in which scopes write into shared maps; an import is
  followed through files that are resolved when first asked for. Correct: a name is resolved to what the language says
  it means (`LocalsMeanTheirBinding`), a declaration is found where it was made (`DeclarationIsOriginal`), and the walk
  does not come back to where it was (`NeverInACircle`).
* **Graphs.** Jumps are tied by stacks of pending blocks, "filled" blocks decide what is unreachable. Correct: the graph
  runs the function's expressions in the orders JavaScript does (`GraphMeansTree`), a variable is read as what was
  written into it on every way there (`ReadsMeanDefinitions`), the builder's assertions hold
  (`AssertionsHold`), and branches have the shape the type checker reads (`ArmsHaveTheirBranch`).
* **Type checking.** Scopes dropped from a worklist, merged scopes compared and thrown away. Correct: nothing reachable
  stays unchecked (`ReachableIsChecked`), refinements hold where they are used (`RefinementsDominate`), the worklist
  runs empty (`TypecheckEnds`).


## 2. The modules

```
ParseService  <-- implemented by --  ParsePool  <-- extended by --  MainProgram, ScopingTest
     ^                            (ParsePoolProofs)      (MainProgramProofs, ScopingTestProofs)
     | composed with
ModuleLoader (ModuleLoaderProofs)

ControlFlow  <-- compared with --  GraphBuilder  -- its graphs are inputs of -->  Typecheck (TypecheckProofs)

NodeTables <- ImportTable, ConstructorTable, ClassTable, WalkTable <- SyntaxTree (SyntaxTreeProofs <- TreeWalkProofs)

Scopes  <-- compared with --  ScopeRules  <-  IdentResolution

BabelCache (BabelCacheProofs)   a worker of ParsePool before its loop
```

A module named `...Proofs` extends the module it is about and holds its invariants, theorems and proofs; TreeWalkProofs
goes on from SyntaxTreeProofs.

**ParsePool** is `ast/parse.cpp` at the grain of its mutex: an action for every section that holds `condvar_mutex`,
for each access to an atomic, and for what runs outside. A worker's `pc` names where it stands (the table at the top of
the module); `prepare` is `prepareOtherThreads`, `init` the isolate and Babel, `enter` the lock that counts the worker.
`workQueue` is the vector (taken from the back), `package` what a worker moved out of it, `fulfilled` the promises
that have a value. `condvar.wait` is two actions, with spurious wakeups in between; an exception in a worker is
`aborted`, because nothing catches it. The caller is the most general one that respects the assertions of the
functions: it may start, submit, wait for a tree and stop in any order. What Babel computes is a step.

**ParseService** is what callers may assume: a job is new, pending, running, parsed; the service is open or not and
live or not; a closed service may leave jobs pending. `ParsePool!Service` is the refinement mapping.

**BabelCache** is what a worker does before it enters the loop: `makeBabelObject` and the functions that load and save
the cache file, in several processes at once. A file is a sequence of pieces, the tag of a V8 and then the code cache of
a build, written one by one; a name leads to a file (`path`), so that a file that is removed lives on for whoever has it
open. A process may die at any step. Two history variables say which files were cut short or written by two (`cut`)
and who has read one of those (`doubtful`): what the code promises, it promises of the others.

**MainProgram** and **ScopingTest** extend the pool with one concrete caller each: main.cpp (stages options, work,
cleanup, exited) and the generated test case of `test/typecheck/scoping/test.cpp.in`. `requested` is a history variable:
the modules whose tree main has asked for. An exception that main does not expect (`MainThrows`) has no handler: the
process ends in std::terminate (`aborted`), stops nothing and exits nowhere, and `CleanExit` does not speak of it.

**ModuleLoader** is the main thread between start and stop. The C++ call stack is `stack`, a sequence of frames
(function, module, what is left of its loop); a call pushes, a return pops, a throw cuts the stack down to the
innermost `getFunctionGraph`, which catches, or ends the process. The per-module flags are sets of modules
(`importsResolved`, `localDone`, `importedDone`), `scopeChain` the modules whose pointer is not null,
`functionGraphs` counts entries of the map. A job of `ParseService` is a module; `getModule` is `Accept`, `getAst`
waits for `parsed`. What is on disk is the constant `Worlds`: kind of argument, project files, imports, requires, and
which files V8 compiles. Which types are asked for while a function is checked is data that the model does not have:
`FollowImport`, `ResolveSpecifier` and `GetFunctionGraph` allow any that the imports allow. `TypeOK` says besides the types
which modules the calls are about: passes run on loaded modules, and the import walk, `isProjectModule` being asked
before every call, is at project files and has project files left.

**GraphBuilder** is `graphbuilder.cpp` with the blocks of `basicblock.cpp`: `Process` is `processAstNode`, with
one operator per statement. A block has the node behind which the next one goes, its `filled` and `sealed` bits, the
values of the variables and the phis that wait for it to be sealed. `ReadNonlocalVariable`, `CompletePhis` and `SealBlock`
are those of `basicblock.cpp`; sealing and reading call each other through the predecessors of a block, which here goes
through `Process`, the one recursive operator. A failed `assert` is recorded in `asserts` and the build goes on.
The parameter of a catch is the one variable a `try` writes, at the node of its header.
**ControlFlow** is the reference, written from the language and not from the builder: what of a tree may run first, and
what may run after what. `MeaningOfGraph` reads the same relation off a graph, over the nodes that run nothing;
`Definitions` says which writes reach a read.

**SyntaxTree** is the import of a file and a walk over the result. The recursion of the importer is an explicit stack of
calls, so that the order in which arguments are evaluated (open in C++ unless a statement of its own does it), the throw
on an unknown type, the moment a node gets its members, and its children their parent, are steps. The kinds differ in
their rows of four tables only: what the importer reads (**ImportTable**), where the constructor puts it
(**ConstructorTable**), what the class and its bases have (**ClassTable**), what `applyChildren` walks (**WalkTable**).
The tables are translated from four different files, so that they can disagree: a swapped argument, a member nobody sets
or a child nobody walks shows. The proofs need
four assumptions, and TLC evaluates them whenever it reads the module:

* `FilesAssumption`, what Babel gives the importer: a tree whose objects hold each other, with the children that `getObj`
  asserts, no attributes but those that an import function reads, and two identifiers in an import specifier.
* `TablesAssumption`, what the tables must agree on for the tree to hang together: no attribute is imported twice, a member
  that is walked as a node comes from an argument that imports one (`RowsFit`, `WalkFits`).
* `MeaningAssumption`, what they must agree on for the tree to mean what Babel wrote: each argument is passed at the position
  of the parameter that means its attribute, the members of the class are those its constructors store (`MembersFit`), and a
  walk hands over each member that holds nodes once, but for the two exceptions the code makes (`WalksFit`).
* `VisitorsAssumption`: the passes are the five whose predicates are modelled.

The second and the third say something about the tables as they are, which are no parameters of the model: to evaluate them
over all 119 kinds is to decide them. Two parameters swapped in ConstructorTable, or a child dropped from WalkTable, is
reported as a false assumption before the run starts.

**Scopes** is the pass over one file, as pure operators: a node is a path in its tree; the bindings are the sequence of
assignments to the maps of the scopes in the order the code makes them, the last one counts. **ScopeRules** is the
reference: which identifiers declare, in which part of the tree, and what a name means by that. **IdentResolution** asks
for the declarations of identifiers of several modules in any order: `Follow` is a round of the loop in
`resolveIdentifierDeclaration`, and a module is resolved when it is first asked. `passed` is a history of the walk.

**Typecheck** is the worklist: one action per branch of `runTypechecksInBranch`. A scope is named by its first node, a
type is the set of its base types. `RefineByTruthiness` keeps what `erase(remove_if(...))` with one iterator does:
one element goes, which one is left open where the C++ leaves it open. Branches are pushed in any order, for the
code iterates an `unordered_set`.


## 3. The runs

| run | question | bounds |
|---|---|---|
| parse_pool | the pool's invariants, its liveness, the refinement | 3 workers, 3 jobs, 2 starts |
| main_program | does main end, cleanly, with what it asked for | 3 workers, 3 modules |
| babel_cache | one saver, no freed bytes, whole files, starts that complete | 2 processes, 2 workers each, 2 builds, 2 starts, deaths at any step |
| scoping_test_modules | packages that outlive their Module | 3 workers, 3 test cases, symmetric |
| scoping_test_ast | *violation*: is a tree there after the stop | 3 workers, 2 test cases |
| module_loader | does main analyse what imports lead to, and end | 3 files, 267 worlds, 1 function per file |
| syntax_tree | does the importer build the tree that Babel described, do walks see it | 20 files with all 119 kinds, 5 predicates |
| ident_resolution | does every name get the declaration it means, in its file and across files | 4832 files alone, 4608 worlds of 3 files |
| graph_builder | does the graph mean the tree, and a read its writes | 20496 function bodies, 2 variables and the parameter of a catch |
| graph_builder_skips | *violation*: is what the builder skips unreachable | one compound statement, any jumps |
| typecheck | is all that is reachable checked, under types that hold | graphs of up to 16 nodes |
| typecheck_loop | *violation*: does the worklist run empty on a loop without exit | one body |

Why the bounds are enough.
*Pool:* `First` plays a part of its own, so two more workers are the least with which one can steal what another was
woken for; three jobs let one be queued, one running and one done; two starts show that nothing is left of the first.
`main_program` starts once, as main does. The test cases restart once per case, so three jobs need three starts;
workers other than `First` and jobs are interchangeable there, and the run checks an invariant only, so symmetry is
sound.
*Loader:* three files are the least on which a cycle can be entered from outside, a file be imported on two ways, and
a file belong to node_modules between two that do not (the walk must not go through it). The run takes every import graph without self-imports in
which main imports `a` at least, one `require`, an import that does not resolve, and a file V8 refuses. A file
counts one function.
*Code cache:* two workers are the least that race for the pointer, two processes for the file; with two builds, of which
each rejects the other's file, a file is removed while another process has it open. Two starts, of one process or of two,
let a pool find the pointer that an earlier one left. The file starts missing, whole, or cut anywhere. A code cache is
one piece long: a tag and a piece already give a file that is empty, one that has a tag and nothing else, and a whole one.
*Syntax tree:* the kinds are handled one by one and know nothing of each other but their children, so each kind needs to
occur with and without its optional parts, not in every context. Unknown syntax stands alone and next to siblings. The
index of importChildArray is a uint16_t; its width is a constant and four here, and `TooLong` has as many elements.
*Identifiers:* two constructs around each other, with a declaration before, between and inside, are the shapes in which
hoisting passes something that could stop it; three modules are the least with one between two that is neither the first
nor the last. One name is declared, the others are there so that something else is.
*Graphs:* one compound statement with arms of up to two statements, and two nested ones, make every construct the
environment of every other, with each jump out of either. Deeper nesting only stacks the same pending lists. Half of the
bodies write and read variables: in arms, conditions, handlers, loops and loops in loops, which make a phi wait for a block that is
sealed late, and a phi of a phi.
*Type checking:* bodies with an if, nested and consecutive ifs, each loop with and without jumps, try and switch,
crossed with five types and with every way their conditions may settle one (a call, its negation, the first
expression, nothing).

`CHECK_DEADLOCK FALSE` stands where the system may really stop: a caller of the pool that makes no more calls, a test
that waits for ever (that is the finding), a graph that is built, a worklist that is empty. `main_program` and
`module_loader` check deadlock: there a state without a step is a hang, and an ended program has a step of its own.

**Fairness.** Every thread keeps running: weak fairness for each worker's step and for the steps of a call the main
thread has made. A parse or the compilation of Babel ends or throws. `condvar.wait` does not wake up for nothing for
ever, which the C++ standard library does not promise and which no progress could do without. The callers of the
pool are not fair: they may never call again. In `babel_cache` some thread of a process runs as long as one can, and
nobody has to start, stop or end one. The importer of a syntax tree is one thread: weak fairness of its next step.  In `main_program`, main is fair and asks for finitely many trees, as it
analyses finitely many files. In `module_loader`, main is fair and the pool gives what `ParseService!Fairness`
says, which is what `parse_pool` shows of it (`ImplementsService`). The type checker is one thread: weak fairness of
its next step. The mutex is not assumed to be strongly fair:
the runs pass with weak fairness of each worker, the lock included.


## 4. Findings

* **A tree that never comes** (`scoping_test_ast`). The scoping tests stop the pool, and only then ask for the tree. A
  worker that sees the stop flag leaves the loop with packages queued, so if no worker has taken the test's package by
  then, `getAst` waits for ever. Usually the workers still compile Babel when the test submits, and the first to enter
  the loop takes the package before the last is counted. If all of them are asleep by then, the one that is notified
  may find the flag set when it has the mutex again.
* **Skipped code that runs** (`graph_builder_skips`). `graphbuilder.cpp:118` skips what follows a filled block because
  it "must be unreachable"; behind a do-while whose body ends in `continue`, and behind a switch without a default
  whose cases all leave, it is reachable: its graph has no such nodes and no check sees them.
* **A worklist that never runs empty** (`typecheck_loop`). `if (g()) { do { continue; } while (c); }` makes a cycle of
  scopes without a branch; the merged scope is compared and thrown away, so the comparison never succeeds.

Smaller disagreements, kept in the hazards or left out of the inputs of a run:

* *Loader.* `resolveLocalIdentifiers` sets its flag first. When V8 refuses an imported file, `getFunctionGraph` swallows
  the exception, and the next function of the same file reaches `getScopeChain` with the flag set and a null pointer.
* *Graphs.* A `continue` in a `for` goes to the test and skips the update. A statement behind a jump in a switch case trips
  an assertion, and so does a case that writes a variable and falls through to one that needs a phi (basicblock.cpp:193).
  "Empty blocks should only ever have us as prev" (basicblock.cpp:226) fails for two empty blocks in a row behind a merge:
  `if (c) { x = 1 } else {} {} f(x)`. A catch block has the block before the try as its only predecessor
  (graphbuilder.cpp:686), so that it does not see what the try has written.
* *Syntax tree.* An array of 65536 elements or more is imported for ever: its index is a uint16_t, its length is not
  (import.cpp:141; `ImportEnds` speaks of shorter ones). The return type of a class method is walked twice (walk.cpp:357;
  `TimesMet` counts it so). A node that no walk meets keeps a null parent.
* *Code cache.* A file is written in place, with no lock and no rename: one cut short by a crash or a full disk, or
  overlapped by a second writer, passes the check of its tag if four bytes of it are there, and its rest is what V8 gets
  (parse.cpp:185); `FilesAreWhole` and `LoadsAreWhole` except those files. The tag names a V8 and not a build of jsre: a
  code cache of an older Babel under the same V8 is loaded too.
* *Main program.* An import that does not resolve throws through analyze and main (module.cpp:97) unless getFunctionGraph
  catches it: the process aborts with the workers running. The models have it; `Terminates` counts it as an end.
* *Identifiers.* Of several `var` declarations of one binding, the last one written is the target of the references
  (identresolution.cpp:270), so that `var a = 1; var a = 2; a` gives the second; `test/identresolution/forStatements.js:21`
  says "we pick the earliest one as the target for all references". `LocalsMeanTheirBinding` asks what both
  agree on: that all references of a binding have one target, which declares it.
  Functions declared in a block are hoisted out of it, though modules are strict. A variable in the body of a
  function expression with its own name takes the place of that name. Closures in the default of a parameter are not
  resolved when the function has one child scope only. In `({x}) => a.y` the property `y` is looked up, and so are the keys
  of methods and the imported and exported names of specifiers. `export {a} from 'm'` takes a local `a` if there is
  one. `import {f}` finds `export {f}`, but not `export function f`, and `import {default as x}` does not find
  `export default`: the property allows no answer there. A hole in an array pattern is a null pointer.
* *Types.* The order of sum types sorts a parameter and not the member.


## 5. What is proved

All theorems hold for every value of the constants under the assumption their module states, with any number of
workers, jobs, starts, processes, builds, files, functions, nodes and types.

* `ParsePoolProofs`, from **PoolAssumption** (finitely many workers, `First` is one, `None` is nobody). The
  invariants of the run are not inductive by themselves: that notify_all is not lost depends on who may be where at
  each line of the stop. `IInv` adds, as named parts: `MutexInv` (at most one worker is inside the mutex, and it
  is `holder`), `BirthInv` (who exists before and after `prepareOtherThreads`), `PhaseInv` (what each line of the
  stop knows of the workers), `Counted` (the counter is the number of workers in the loop), `PackageInv` (a worker
  has a package exactly while it parses). `OnePlace` and `NoSleepingOnWork` are conjuncts. The proof has one lemma per
  action; every invariant then follows without time in it. `JoinFreezesTheQueue` is the action property.
  `PoolImplementsService` shows that each step of the pool is a step of ParseService or a stutter under the mapping.
* `MainProgramProofs` and `ScopingTestProofs`, from the same assumption. A step of either caller is a step of the pool, or
  touches none of its state, so `IInv` holds in both programs and its lemmas do the work. `ExitIsClean` needs to
  know where main is in its clean-up (`CleanupInv`: the four lines of one stop, then nothing), and that main has got every tree
  it asked for but the one it waits for (`RequestInv`), for it asks for no other before the future is ready and promises stay
  fulfilled; what is pending and not queued would be in the hands of a thread, by `OnePlace`, and there is none. `ModulesOutliveTheirPackages` needs that a
  Module is destroyed after its getAst returned (`GetAstInv`): its promise is set, so its package is in no other place.
* `BabelCacheProofs`, from **CacheAssumption** (`First` is a worker, `None` is no blob, a code cache is not empty). Each
  part of `IInv` is there because a conjunct of the run would not survive a step without it. `LifeInv`: while the
  first worker loads the file there is no other worker, so nobody can read the vector that it assigns. `PointerInv`: the
  published pointer leads into the vector as it is now, or to bytes of its own, except between the two assignments of
  `loadBabelCompileCacheFile`; this carries `NoDanglingBlob` over a restart of the pool in one process, when the old pointer is
  published while the vector is assigned again. `OneWorkerSaves` is a conjunct: the exchange succeeds while the
  pointer is null, and it never is null again. `FileInv`: a file that one worker alone writes holds the first pieces of
  its build's file, as many as it has written. `ReadInv` follows one read through its four states (reading a file that
  nobody writes, holding a whole one, holding one whose V8 tag is the own, published), for the processes that are not `doubtful`.
* `SyntaxTreeProofs`, from **IndexRangeAssumption** (the index counts to one at least), **FilesAssumption** and
  **TablesAssumption** (section 2). The importer calls itself, so its invariant speaks of the whole stack of calls.
  `ImportInv`: the calls are at the objects on one path (`DepthInv`), what a call has imported has arrived, as a node or as
  a call (`CallInv`), and a node is there only if the nodes for all parts of its object are (`NodesInv`). `UnknownIsRefused`
  follows: of the objects without a node, one with the shortest path would be a part of an object with a node
  (lemma `LeastNumber`, from the library's well-foundedness of `<`). `TypeInv` adds that the children of a node are
  nodes below it, which is where the tables must fit, and that what a walk has pending are nodes. Lemma
  `Flattening` says of `FlattenSeq`, by a least index, that it stays in the set. `ParentsLead` needs that no
  node is made twice, for the second would take the children of the first: `OnceInv` says that what a call has still to
  import has not arrived. It holds while every array on the stack is shorter than the index counts (`Countable`), where it
  is not, the importer never leaves the array, and no walk begins.
* `TreeWalkProofs`, from the same and **MeaningAssumption**, **VisitorsAssumption**. `MeansInv` says that a node's members are
  a function of its object alone (`MembersAt`), whatever was constructed before or after it. The constructor that could break
  it is that of a type parameter, which makes a node for a text of Babel's (lemma `NameHasNoObject`: it can take no
  object's place), and that of an import specifier, which reads the members of two other nodes. `MembersKeep` then reads
  each attribute off the row that imports it. For the walk, `ChildPositions` says how often a node hands a child over: twice
  for the return type of a class method, never for a comment or for an imported name that repeats the local one, and
  else once. It needs that a child is in one member only (`ChildInMember`), and that exactly so many rows of the walk name
  that member. `CallbackSees` counts over a walk that may come to a node on many ways: `Ways(s, q)` are the pairs of a
  position in `s` of a node around `q` and of a choice, for each doubled step between the two, of the first or the
  second time. `WalkInv` says that for every node the pass is to see, the times it was seen and the ways from what is
  pending add up to the number of choices on its path, 2 to the number of doubled steps. A visit takes a node's
  ways away and gives its children's, which are as many (`NoWayIsLost`: a child handed over twice has half as many
  choices left; `NoWaysAside`: the other children lead elsewhere), or it is the node itself, which is then seen once more
  (`WaysOfVisit`). When nothing is pending there are no ways, and what was seen is the number that `TimesMet` gives.
* `TypecheckProofs`, from **GraphAssumption** (edges stay in the graph, a node has finitely many successors, nothing
  leads to Start or is settled there). `AllReachableChecked` rests on `ReachInv`: a successor of a checked node is
  checked, or its scope is queued, or is the one being walked. `RefinementsHold` rests on `KnownInv`: what a scope
  knows was settled by a node that dominates it; lemma `OneWayIn` carries dominance along the only edge into a node.
* `ModuleLoaderProofs`, from **WorldAssumption** (imports name files or nothing, the main file of a package belongs to
  it). `PackageIsAnalyzed` needs to know why a module whose flag is set may be passed over: `WalkInv` says that
  whatever a flagged module imports has its flag set too, or is `Owed` by a call on the stack that is still going to
  walk it (or the module is still loading its imports). When the stack is empty nothing is owed and the flagged set
  is closed. `LoadInv` adds that nothing but targets and imports of flagged modules is loaded, so that
  getLoadedProjectModules is that set, and `DoneInv` carries it to the exit. `PassesAreEnteredOnce` rests on `FlatInv`: a
  loop on the stack has its flag set, so that a pass that is entered finds no loop of its own below. It needs
  `StageInv` too: the passes of the import walk and those of the analysis are never under way together. `TypeCorrect` takes from both
  that a call of the import walk is about a project file (`FrameInv`: it goes to what `ProjectImports` or the frame below it has left, which are
  project files).

The invariants were checked by TLC on the instances of the runs before they were proved.

**Only model-checked:**

* All liveness (`Terminates`, `GetAstReturnsEventually`, `StopReturnsEventually`, `TypecheckEnds`, `StartCompletes`,
  `ImportEnds`, and the fairness half of `ImplementsService`): the prover has no ENABLED.
* The four invariants of GraphBuilder (`GraphMeansTree`, `ReadsMeanDefinitions`, `AssertionsHold`, `ArmsHaveTheirBranch`). A
  graph is what `Process` computes from a tree, in one step: the invariants are about the result of a RECURSIVE operator
  for every tree, which is induction over data. Nor does the builder get every tree right (section 4 lists those on which
  it errs), so a theorem would have to describe the others.
* The three of IdentResolution (`LocalsMeanTheirBinding`, `DeclarationIsOriginal`, `NeverInACircle`), for the same two reasons:
  bindings are computed by RECURSIVE operators over a tree, and the resolution errs on some programs, and goes in circles
  on re-exports that lead back to themselves, which the worlds of the run leave out.

Every other invariant and action property of a passing run is stated by a theorem.


## 6. What the models leave out on purpose

* *Pool:* the Babel code cache (BabelCache has it), the isolates, memory order (the stop flag is released by
  main and acquired by the workers, everything else is behind the mutex or sequentially consistent), calls
  that the functions' contracts exclude (a second start, a stop without a start: both would spin for ever).
* *Main program:* options and the search for files.
* *Loader:* native modules, `Module::evaluate` and the missing names only it reads (nothing calls it), cross
  references, lints, and what a null scope chain does to the GraphBuilder (section 4; one function per file does not come to it). An
  import of a file by itself is not in the worlds. That the type checking of one function ends
  is taken for granted; section 4 names a function on which it does not.
* *Code cache:* whether V8 accepts a code cache (with one, a worker compiles and is done in either case); the order of bytes on the disk after
  a crash of the machine.
* *Syntax tree:* source locations; the value of a flag, number or text, which is only copied, is the name of its attribute.
* *Identifiers:* the lookup of members and of `this`, names that no scope declares, generic interfaces; cycles of re-exports
  of one name, on which the walk does not end and which are a syntax error.
* *Graphs:* parameters, destructuring, closures, exceptions out of calls, labels, finally. An expression is one node with the
  variables it reads and writes; a conditional expression has its arms. Left out of the run `graph_builder`, because the
  builder gets them wrong: what section 4 says, and a switch without default or without cases.
* *Type checking:* what `typecheckNode` reports, and how a condition settles a truthiness (it is a field of the graph).


## 7. Plan

Done: the modules of section 2 and the proofs of section 5. Next, most important first:

1. **Refinement**: `typerefinement.cpp` on trees of conditions (`!`, `==`, `&&`, identifiers), joined to Typecheck's
   `truthy`. `!` passes its truth on without negating it. Reference: the truthiness of values.
2. **TypeResolution** and **Types**: the lazy initialisation of function types with its memo, composed with ModuleLoader's
   getFunctionGraph; equality, order and hash of sum types against sets.
3. **Blank** (characters and bytes) and **missing await**: functions, checked against definitions over bounded inputs.
4. **Proofs.** What is left is section 5's last list. For IdentResolution, first a characterisation of the worlds without
   circles and of the programs without the errors of section 4, then the operators of Scopes as recursive functions.

## 8. Not modelled

Native modules (tables of stubs), V8 isolates (nothing shared), graph printing, source locations, reporting, trimming,
hashing (a library), the lints that are one walk without state, and vendored code. Types and their resolution, the removal
of Flow types and the missing-await pass are planned. The identifier resolution tests call the pool as the scoping tests
do. Each has its entry and reason in PROJECT.json.
