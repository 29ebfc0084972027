-------------------------- MODULE MainProgramProofs --------------------------
(***************************************************************************)
(* Proofs about MainProgram.  main() only calls the pool as ParsePool's    *)
(* caller does, or ends by an exception, so that the invariant of the pool *)
(* holds in the program; with where main() is in its clean-up, and what it *)
(* has asked for, it says what is left and what is done at exit.           *)
(***************************************************************************)
EXTENDS MainProgram, ParsePoolProofs

\* The clean-up is one call of stopParsingThreads, and nothing comes after it.
CleanupInv ==
  /\ stage = "cleanup" => \/ mainPc \in {"spin", "flag", "notify", "join"}
                          \/ mainPc = "idle" /\ workers = {}
  /\ stage = "exited" => mainPc = "idle" /\ workers = {}

\* What main has asked for it has got, but for the one AST it waits for.
RequestInv == requested \subseteq fulfilled \cup (IF mainPc = "get" THEN {awaited} ELSE {})

ProgramInv == IInv /\ CleanupInv /\ RequestInv
------------------------------------------------------------------------------
\* A step of the pool keeps the invariant of the pool.
LEMMA PoolStep == IInv /\ Next => IInv'
BY NextThreadInv, NextOnePlace, NextNoSleepingOnWork DEF IInv

\* So does the exception that ends main.
LEMMA AbortStep ==
  ASSUME IInv, UNCHANGED <<poolVars, mainVars>>, aborted' \in BOOLEAN
  PROVE  IInv'
BY DEF IInv, ThreadInv, poolVars, mainVars, TypeOK, MutexInv, BirthInv, PhaseInv,
       Counted, PackageInv, OnePlace, NoSleepingOnWork, At, Waiting, Ready, Queued, Running

\* Without threads no worker can do anything.
LEMMA NoThreadNoStep ==
  ASSUME IInv, workers = {}, NEW w \in Workers
  PROVE  ~(WorkerStep(w) \/ SpuriousWakeup(w))
<1>1. pc[w] = "unborn"
  BY DEF IInv, ThreadInv, BirthInv
<1> QED
  BY <1>1 DEF WorkerStep, SpuriousWakeup, PrepareOtherThreads, MakeBabelObject, EnterLoop,
     Relock, CheckStopFlag, Wait, TakePackage, ParsePackage, Throw, LeaveLoop

\* Workers create threads only while there are some.
LEMMA WorkersKeepMain ==
  ASSUME IInv, NEW w \in Workers, WorkerStep(w) \/ SpuriousWakeup(w)
  PROVE  mainPc' = mainPc /\ workers # {}
<1>1. workers # {}
  BY NoThreadNoStep
<1>2. mainPc' = mainPc
  BY DEF WorkerStep, SpuriousWakeup, PrepareOtherThreads, MakeBabelObject, EnterLoop, Relock,
     CheckStopFlag, Wait, TakePackage, ParsePackage, Throw, LeaveLoop, mainVars
<1> QED
  BY <1>1, <1>2

\* No step of the pool or of its caller takes a promise's value back.
LEMMA FulfilledGrows ==
  ASSUME Next \/ UNCHANGED <<poolVars, mainVars>>
  PROVE  fulfilled \subseteq fulfilled'
BY DEF Next, MainCall, MainStep, WorkerStep, SpuriousWakeup, PrepareOtherThreads,
   MakeBabelObject, EnterLoop, Relock, CheckStopFlag, Wait, TakePackage, ParsePackage, Throw,
   LeaveLoop, StartParsingThreads, ParseSourceScriptAsync, GetAst, StopParsingThreads,
   GetAstReturns, StopSpin, StopStoreFlag, StopNotifyAll, StopJoin, poolVars

\* main asks for an AST and waits for it before it asks for anything else.
LEMMA RequestStep == RequestInv /\ ProgramNext => RequestInv'
<1> SUFFICES ASSUME RequestInv, ProgramNext PROVE RequestInv'
  OBVIOUS
<1>1. CASE Over \/ (~aborted /\ (ExitSuccess \/ MainThrows))
  <2>1. UNCHANGED <<poolVars, mainVars, requested>>
    BY <1>1 DEF Over, ExitSuccess, MainThrows, programVars, vars
  <2> QED
    BY <2>1 DEF RequestInv, poolVars, mainVars
<1>2. CASE ~aborted /\ (MainStart \/ Cleanup \/ \E j \in Jobs : LoadModule(j))
  <2>1. fulfilled \subseteq fulfilled'
    BY <1>2, FulfilledGrows DEF MainStart, Cleanup, LoadModule, Next, MainCall
  <2>2. mainPc = "idle" /\ mainPc' # "get" /\ requested' = requested
    BY <1>2 DEF MainStart, Cleanup, LoadModule, StartParsingThreads, StopParsingThreads,
       ParseSourceScriptAsync
  <2> QED
    BY <2>1, <2>2 DEF RequestInv
<1>3. ASSUME ~aborted, NEW j \in Jobs, NeedAst(j) PROVE RequestInv'
  <2>1. fulfilled' = fulfilled
    BY <1>3 DEF NeedAst, GetAst, poolVars
  <2>2. /\ mainPc = "idle" /\ mainPc' = "get" /\ awaited' = j
        /\ requested' = requested \cup {j}
    BY <1>3 DEF NeedAst, GetAst
  <2> QED
    BY <2>1, <2>2 DEF RequestInv
<1>4. CASE ~aborted /\ MainStep /\ UNCHANGED <<stage, requested>>
  <2>1. fulfilled \subseteq fulfilled'
    BY <1>4, FulfilledGrows DEF Next
  <2>2. mainPc = "get" => awaited \in fulfilled
    BY <1>4 DEF MainStep, GetAstReturns, StopSpin, StopStoreFlag, StopNotifyAll, StopJoin
  <2>3. mainPc' # "get"
    BY <1>4 DEF MainStep, GetAstReturns, StopSpin, StopStoreFlag, StopNotifyAll, StopJoin
  <2> QED
    BY <1>4, <2>1, <2>2, <2>3 DEF RequestInv
<1>5. ASSUME ~aborted, NEW w \in Workers, WorkerStep(w) \/ SpuriousWakeup(w),
             UNCHANGED <<stage, requested>>
      PROVE  RequestInv'
  <2>1. fulfilled \subseteq fulfilled'
    BY <1>5, FulfilledGrows DEF Next
  <2>2. mainPc' = mainPc /\ awaited' = awaited
    BY <1>5 DEF WorkerStep, SpuriousWakeup, PrepareOtherThreads, MakeBabelObject, EnterLoop,
       Relock, CheckStopFlag, Wait, TakePackage, ParsePackage, Throw, LeaveLoop, mainVars
  <2> QED
    BY <1>5, <2>1, <2>2 DEF RequestInv
<1> QED
  BY <1>1, <1>2, <1>3, <1>4, <1>5 DEF ProgramNext, MainThread

\* One step per action of main, and one for the workers.
LEMMA ProgramStep == ProgramInv /\ ProgramNext => ProgramInv'
<1> SUFFICES ASSUME IInv, CleanupInv, RequestInv, ProgramNext PROVE IInv' /\ CleanupInv'
  BY RequestStep DEF ProgramInv
<1>1. CASE Over \/ (ExitSuccess /\ ~aborted)
  <2>1. UNCHANGED vars /\ (stage' = stage \/ (stage' = "exited" /\ stage = "cleanup" /\ mainPc = "idle"))
    BY <1>1 DEF Over, ExitSuccess, programVars
  <2>2. IInv'
    BY <2>1, StutterIInv
  <2> QED
    BY <2>1, <2>2 DEF CleanupInv, vars, poolVars, mainVars
<1>2. CASE MainThrows
  <2>1. IInv'
    BY <1>2, AbortStep DEF MainThrows
  <2> QED
    BY <1>2, <2>1 DEF MainThrows, CleanupInv
<1>3. CASE ~aborted /\ (MainStart \/ Cleanup)
  <2>1. IInv'
    BY <1>3, PoolStep DEF MainStart, Cleanup, Next, MainCall
  <2>2. CleanupInv'
    BY <1>3 DEF MainStart, Cleanup, StopParsingThreads, CleanupInv
  <2> QED
    BY <2>1, <2>2
<1>4. ASSUME ~aborted, NEW j \in Jobs, LoadModule(j) \/ NeedAst(j) PROVE IInv' /\ CleanupInv'
  <2>1. IInv'
    BY <1>4, PoolStep DEF LoadModule, NeedAst, Next, MainCall
  <2> QED
    BY <1>4, <2>1 DEF LoadModule, NeedAst, CleanupInv
<1>5. CASE ~aborted /\ MainStep /\ UNCHANGED <<stage, requested>>
  <2>1. IInv'
    BY <1>5, PoolStep DEF Next
  <2>2. CleanupInv'
    BY <1>5 DEF MainStep, GetAstReturns, StopSpin, StopStoreFlag, StopNotifyAll, StopJoin, CleanupInv
  <2> QED
    BY <2>1, <2>2
<1>6. ASSUME ~aborted, NEW w \in Workers, WorkerStep(w) \/ SpuriousWakeup(w),
             UNCHANGED <<stage, requested>>
      PROVE  IInv' /\ CleanupInv'
  <2>1. IInv'
    BY <1>6, PoolStep DEF Next
  <2>2. mainPc' = mainPc /\ workers # {}
    BY <1>6, WorkersKeepMain
  <2> QED
    BY <1>6, <2>1, <2>2 DEF CleanupInv
<1> QED
  BY <1>1, <1>2, <1>3, <1>4, <1>5, <1>6 DEF ProgramNext, MainThread

\* The invariant of the program.
THEOREM ProgramInvariant == ProgramSpec => []ProgramInv
<1>1. ProgramInit => ProgramInv
  BY InitIInv DEF ProgramInit, ProgramInv, CleanupInv, RequestInv
<1>2. ProgramInv /\ UNCHANGED programVars => ProgramInv'
  BY StutterIInv DEF ProgramInv, CleanupInv, RequestInv, programVars, vars, poolVars, mainVars
<1> QED
  BY <1>1, <1>2, ProgramStep, PTL DEF ProgramSpec

\* When main() exits no thread of the pool is left that could use the modules,
\* it has got each AST it asked for, and of the scripts handed in only those
\* still in the queue are not parsed.
THEOREM ExitIsClean == ProgramSpec => []CleanExit
<1>1. ProgramInv => CleanExit
  <2> SUFFICES ASSUME ProgramInv, stage = "exited"
               PROVE  /\ workers = {} /\ At({"unborn"}) = Workers
                      /\ requested \subseteq fulfilled
                      /\ submitted \ fulfilled = Queued
    BY DEF CleanExit
  <2>1. workers = {}
    BY DEF ProgramInv, CleanupInv
  <2>2. \A w \in Workers : pc[w] = "unborn"
    BY <2>1 DEF ProgramInv, IInv, ThreadInv, BirthInv
  <2>3. At({"unborn"}) = Workers /\ Running = {}
    BY <2>2 DEF At, Running
  <2>4. submitted \ fulfilled = Queued
    BY <2>3 DEF ProgramInv, IInv, OnePlace
  <2>5. requested \subseteq fulfilled
    BY DEF ProgramInv, CleanupInv, RequestInv
  <2> QED
    BY <2>1, <2>3, <2>4, <2>5
<1> QED
  BY <1>1, ProgramInvariant, PTL
=============================================================================
