----------------------------- MODULE ScopingTest -----------------------------
(***************************************************************************)
(* src/test/typecheck/scoping/test.cpp.in as the caller of ParsePool.      *)
(* Each test starts the pool, constructs a Module (which hands in its      *)
(* script), stops the pool, and only then asks the Module for its AST.     *)
(* The Module is a local of the test: it is destroyed when the test ends,  *)
(* while the package that refers to it may still be in the queue.          *)
(***************************************************************************)
EXTENDS ParsePool

VARIABLES stage,       \* the statement the test is at
          testJob,     \* the script of its module
          destroyed    \* the modules of the tests that ended

testVars == <<vars, stage, testJob, destroyed>>

TestInit == Init /\ stage = "start" /\ testJob = None /\ destroyed = {}

TestStart ==
  /\ stage = "start" /\ StartParsingThreads
  /\ stage' = "module"
  /\ UNCHANGED <<testJob, destroyed>>

TestModule(j) ==
  /\ stage = "module" /\ ParseSourceScriptAsync(j)
  /\ stage' = "stop" /\ testJob' = j
  /\ UNCHANGED destroyed

TestStop ==
  /\ stage = "stop" /\ StopParsingThreads
  /\ stage' = "ast"
  /\ UNCHANGED <<testJob, destroyed>>

TestGetAst ==
  /\ stage = "ast" /\ GetAst(testJob)
  /\ stage' = "end"
  /\ UNCHANGED <<testJob, destroyed>>

\* The rest of the test uses the AST; then the Module goes out of scope.
TestEnd ==
  /\ stage = "end" /\ mainPc = "idle"
  /\ stage' = "start" /\ destroyed' = destroyed \cup {testJob}
  /\ UNCHANGED <<vars, testJob>>

TestNext ==
  /\ ~aborted
  /\ \/ TestStart \/ TestStop \/ TestGetAst \/ TestEnd
     \/ \E j \in Jobs : TestModule(j)
     \/ /\ MainStep \/ \E w \in Workers : WorkerStep(w) \/ SpuriousWakeup(w)
        /\ UNCHANGED <<stage, testJob, destroyed>>

TestSpec == TestInit /\ [][TestNext]_testVars

\* A worker only reads modules that exist: no package outlives its Module in
\* the queue or in a worker's hands, across stops and restarts of the pool.
NoDanglingPackage == (Queued \cup Running) \cap destroyed = {}

\* What the test expects (module.getAst() after stopParsingThreads(), and the
\* comment of parse.hpp that a call runs Babel and returns the AST): when the
\* pool has stopped, the promise the test waits for has been set.
AstAvailableAfterStop ==
  (stage = "end" /\ mainPc = "get") => awaited \in fulfilled
=============================================================================
