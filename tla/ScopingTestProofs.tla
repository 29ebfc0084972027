-------------------------- MODULE ScopingTestProofs --------------------------
(***************************************************************************)
(* Proofs about ScopingTest.  The test is a caller of the pool, so that    *)
(* the invariant of the pool holds; a Module is only destroyed after       *)
(* getAst() returned, when its package is done and can be nowhere else.    *)
(***************************************************************************)
EXTENDS ScopingTest, ParsePoolProofs

\* From getAst() to the end of the test: it waits for the script of its module,
\* or has the AST.
GetAstInv ==
  stage = "end" => \/ mainPc = "get" /\ awaited = testJob
                   \/ mainPc = "idle" /\ testJob \in fulfilled

TestInv == IInv /\ GetAstInv /\ destroyed \subseteq fulfilled
------------------------------------------------------------------------------
\* A step of the pool keeps its invariant, and every promise that is set.
LEMMA PoolStepKeeps == IInv /\ Next => IInv' /\ fulfilled \subseteq fulfilled'
<1> SUFFICES ASSUME IInv, Next PROVE IInv' /\ fulfilled \subseteq fulfilled'
  OBVIOUS
<1>1. IInv'
  BY NextThreadInv, NextOnePlace, NextNoSleepingOnWork DEF IInv
<1>2. ASSUME NEW w \in Workers, WorkerStep(w) \/ SpuriousWakeup(w)
      PROVE  fulfilled \subseteq fulfilled'
  BY <1>2 DEF WorkerStep, PrepareOtherThreads, MakeBabelObject, EnterLoop, Relock,
     CheckStopFlag, Wait, TakePackage, ParsePackage, Throw, LeaveLoop, SpuriousWakeup, poolVars
<1>3. ASSUME MainCall \/ MainStep PROVE fulfilled \subseteq fulfilled'
  BY <1>3 DEF MainCall, MainStep, StartParsingThreads, StopParsingThreads,
     ParseSourceScriptAsync, GetAst, GetAstReturns, StopSpin, StopStoreFlag,
     StopNotifyAll, StopJoin, poolVars
<1> QED
  BY <1>1, <1>2, <1>3 DEF Next

\* A worker leaves where the main thread is, and what it waits for.
LEMMA WorkersKeepMain ==
  ASSUME NEW w \in Workers, WorkerStep(w) \/ SpuriousWakeup(w)
  PROVE  mainPc' = mainPc /\ awaited' = awaited
BY DEF WorkerStep, SpuriousWakeup, PrepareOtherThreads, MakeBabelObject, EnterLoop, Relock,
   CheckStopFlag, Wait, TakePackage, ParsePackage, Throw, LeaveLoop, mainVars

\* One step per statement of the test, one for its waiting, one for the workers.
LEMMA TestStep == TestInv /\ TestNext => TestInv'
<1> SUFFICES ASSUME IInv, GetAstInv, destroyed \subseteq fulfilled, TestNext
             PROVE  IInv' /\ GetAstInv' /\ destroyed' \subseteq fulfilled'
  BY DEF TestInv
<1>1. CASE ~aborted /\ (TestStart \/ TestStop)
  <2>1. Next
    BY <1>1 DEF TestStart, TestStop, Next, MainCall
  <2> QED
    BY <1>1, <2>1, PoolStepKeeps DEF TestStart, TestStop, GetAstInv
<1>2. ASSUME ~aborted, NEW j \in Jobs, TestModule(j)
      PROVE  IInv' /\ GetAstInv' /\ destroyed' \subseteq fulfilled'
  <2>1. Next
    BY <1>2 DEF TestModule, Next, MainCall
  <2> QED
    BY <1>2, <2>1, PoolStepKeeps DEF TestModule, GetAstInv
<1>3. CASE ~aborted /\ TestGetAst
  <2>1. testJob \in Jobs
    BY <1>3 DEF TestGetAst, GetAst, IInv, ThreadInv, TypeOK
  <2>2. Next
    BY <1>3, <2>1 DEF TestGetAst, Next, MainCall
  <2> QED
    BY <1>3, <2>2, PoolStepKeeps DEF TestGetAst, GetAst, GetAstInv
<1>4. CASE TestEnd
  <2>1. UNCHANGED vars /\ stage' = "start" /\ testJob \in fulfilled
        /\ destroyed' = destroyed \cup {testJob}
    BY <1>4 DEF TestEnd, GetAstInv
  <2>2. IInv'
    BY <2>1, StutterIInv
  <2>3. fulfilled' = fulfilled
    BY <2>1 DEF vars, poolVars
  <2> QED
    BY <2>1, <2>2, <2>3 DEF GetAstInv
<1>5. CASE ~aborted /\ MainStep /\ UNCHANGED <<stage, testJob, destroyed>>
  <2>1. IInv' /\ fulfilled \subseteq fulfilled'
    BY <1>5, PoolStepKeeps DEF Next
  <2>2. GetAstInv'
    BY <1>5, <2>1 DEF MainStep, GetAstReturns, StopSpin, StopStoreFlag, StopNotifyAll, StopJoin,
       GetAstInv
  <2> QED
    BY <1>5, <2>1, <2>2
<1>6. ASSUME ~aborted, NEW w \in Workers, WorkerStep(w) \/ SpuriousWakeup(w),
             UNCHANGED <<stage, testJob, destroyed>>
      PROVE  IInv' /\ GetAstInv' /\ destroyed' \subseteq fulfilled'
  <2>1. IInv' /\ fulfilled \subseteq fulfilled'
    BY <1>6, PoolStepKeeps DEF Next
  <2>2. mainPc' = mainPc /\ awaited' = awaited
    BY <1>6, WorkersKeepMain
  <2> QED
    BY <1>6, <2>1, <2>2 DEF GetAstInv
<1> QED
  BY <1>1, <1>2, <1>3, <1>4, <1>5, <1>6 DEF TestNext

\* The invariant of the test.
THEOREM TestInvariant == TestSpec => []TestInv
<1>1. TestInit => TestInv
  BY InitIInv DEF TestInit, TestInv, GetAstInv, Init
<1>2. TestInv /\ UNCHANGED testVars => TestInv'
  BY StutterIInv DEF TestInv, GetAstInv, testVars, vars, poolVars, mainVars
<1> QED
  BY <1>1, <1>2, TestStep, PTL DEF TestSpec

\* No package outlives its Module in the queue or in the hands of a worker, across
\* any number of tests that stop and start the pool.
THEOREM ModulesOutliveTheirPackages == TestSpec => []NoDanglingPackage
<1>1. TestInv => NoDanglingPackage
  BY DEF TestInv, IInv, OnePlace, NoDanglingPackage
<1> QED
  BY <1>1, TestInvariant, PTL
=============================================================================
