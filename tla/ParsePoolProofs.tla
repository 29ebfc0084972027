--------------------------- MODULE ParsePoolProofs ---------------------------
(***************************************************************************)
(* Proofs about ParsePool for every number of workers, jobs and starts.    *)
(* The safety properties rest on one inductive invariant, IInv, which adds *)
(* to them how the mutex, the life of the threads and the phases of        *)
(* stopParsingThreads determine the program counters.                      *)
(***************************************************************************)
EXTENDS ParsePool, FiniteSetTheorems, SequenceTheorems, TLAPS

\* The mutex: the worker inside it is the one whose program counter says so.
MutexInv == \A w \in Workers : pc[w] \in Holding <=> holder = w

\* The life of the threads: none, First alone, or all of them.
BirthInv ==
  /\ workers \in {{}, {First}, Workers}
  /\ \A w \in Workers : pc[w] = "unborn" <=> w \notin workers
  /\ \A w \in Workers : pc[w] = "prepare" => workers = {First}

\* The phases of stopParsingThreads: what is known of the flag and the workers.
PhaseInv ==
  /\ mainPc \in {"spin", "flag", "notify", "join"} => workers # {}
  /\ mainPc \in {"notify", "join"} => workersStopFlag
  /\ workersStopFlag => workers = {} \/ mainPc \in {"notify", "join"}
  /\ \A w \in Workers : pc[w] \in {"leave", "finished"} => workersStopFlag
  /\ mainPc \in {"flag", "notify", "join"} => At(InLoop \cup {"finished"}) = Workers
  /\ mainPc = "join" => At({"waiting", "queue"}) = {}

Counted == workersStarted = Cardinality(At(InLoop))

\* What a worker holds in its hands while it parses.
PackageInv == \A w \in Workers : pc[w] = "parse" => package[w] \in Jobs

ThreadInv == TypeOK /\ MutexInv /\ BirthInv /\ PhaseInv /\ Counted /\ PackageInv

IInv == ThreadInv /\ OnePlace /\ NoSleepingOnWork
------------------------------------------------------------------------------
\* The pool starts with no thread and an empty queue.
LEMMA InitThreadInv == Init => ThreadInv
<1> SUFFICES ASSUME Init PROVE ThreadInv
  OBVIOUS
<1> USE PoolAssumption DEF Init
<1>1. TypeOK
  BY EmptySeq DEF TypeOK, PCs, InLoop, Holding, MainPCs
<1>2. At(InLoop) = {}
  BY DEF At, InLoop, Holding
<1>3. MutexInv /\ BirthInv
  BY DEF MutexInv, BirthInv, Holding
<1>4. PhaseInv
  BY DEF PhaseInv
<1>5. Counted
  BY <1>2, FS_EmptySet DEF Counted
<1>6. PackageInv
  BY DEF PackageInv
<1> QED
  BY <1>1, <1>3, <1>4, <1>5, <1>6 DEF ThreadInv

\* The set of workers inside the loop is finite, and so is every other At.
LEMMA AtFinite ==
  ASSUME NEW L
  PROVE  IsFiniteSet(At(L)) /\ Cardinality(At(L)) \in Nat
BY PoolAssumption, FS_Subset, FS_CardinalityType DEF At

\* The mutex, the threads, the phases and the counter, for every step.
LEMMA NextThreadInv == ThreadInv /\ Next => ThreadInv'
<1> SUFFICES ASSUME ThreadInv, Next PROVE ThreadInv'
  OBVIOUS
<1> USE PoolAssumption
<1> USE DEF ThreadInv, Goto, PCs, InLoop, Holding, MainPCs, mainVars, poolVars
<1>1. ASSUME NEW w \in Workers, PrepareOtherThreads(w) PROVE ThreadInv'
  <2> USE <1>1 DEF PrepareOtherThreads
  <2>1. TypeOK'
    BY DEF TypeOK
  <2>2. MutexInv'
    BY DEF TypeOK, MutexInv
  <2>3. BirthInv'
    BY DEF TypeOK, BirthInv, MutexInv
  <2>4. PhaseInv'
    BY DEF TypeOK, PhaseInv, MutexInv, BirthInv, At
  <2>5. Counted'
    <3>1. workers = {First} /\ w = First
      BY DEF TypeOK, BirthInv
    <3>2. At(InLoop) = {} /\ At(InLoop)' = {}
      BY <3>1 DEF TypeOK, BirthInv, At
    <3> QED
      BY <3>2 DEF Counted
  <2>6. PackageInv'
    BY DEF TypeOK, PackageInv
  <2> QED
    BY <2>1, <2>2, <2>3, <2>4, <2>5, <2>6
<1>2. ASSUME NEW w \in Workers, MakeBabelObject(w) PROVE ThreadInv'
  <2> USE <1>2 DEF MakeBabelObject
  <2>1. TypeOK'
    BY DEF TypeOK
  <2>2. MutexInv'
    BY DEF TypeOK, MutexInv
  <2>3. BirthInv'
    BY DEF TypeOK, BirthInv, MutexInv
  <2>4. PhaseInv'
    BY DEF TypeOK, PhaseInv, MutexInv, BirthInv, At
  <2>5. Counted'
    BY DEF TypeOK, Counted, At
  <2>6. PackageInv'
    BY DEF TypeOK, PackageInv
  <2> QED
    BY <2>1, <2>2, <2>3, <2>4, <2>5, <2>6
<1>3. ASSUME NEW w \in Workers, EnterLoop(w) PROVE ThreadInv'
  <2> USE <1>3 DEF EnterLoop
  <2>1. TypeOK'
    BY DEF TypeOK
  <2>2. MutexInv'
    BY DEF TypeOK, MutexInv
  <2>3. BirthInv'
    BY DEF TypeOK, BirthInv, MutexInv
  <2>4. PhaseInv'
    BY DEF TypeOK, PhaseInv, MutexInv, BirthInv, At
  <2>5. Counted'
    <3>1. At(InLoop)' = At(InLoop) \cup {w} /\ w \notin At(InLoop)
      BY DEF TypeOK, At
    <3>2. Cardinality(At(InLoop)') = Cardinality(At(InLoop)) + 1
      BY <3>1, AtFinite, FS_AddElement
    <3> QED
      BY <3>2 DEF Counted
  <2>6. PackageInv'
    BY DEF TypeOK, PackageInv
  <2> QED
    BY <2>1, <2>2, <2>3, <2>4, <2>5, <2>6
<1>4. ASSUME NEW w \in Workers, Relock(w) PROVE ThreadInv'
  <2> USE <1>4 DEF Relock
  <2>1. TypeOK'
    BY DEF TypeOK
  <2>2. MutexInv'
    BY DEF TypeOK, MutexInv
  <2>3. BirthInv'
    BY DEF TypeOK, BirthInv, MutexInv
  <2>4. PhaseInv'
    BY DEF TypeOK, PhaseInv, MutexInv, BirthInv, At
  <2>5. Counted'
    BY DEF TypeOK, Counted, At
  <2>6. PackageInv'
    BY DEF TypeOK, PackageInv
  <2> QED
    BY <2>1, <2>2, <2>3, <2>4, <2>5, <2>6
<1>5. ASSUME NEW w \in Workers, CheckStopFlag(w) PROVE ThreadInv'
  <2> USE <1>5 DEF CheckStopFlag
  <2>1. TypeOK'
    BY DEF TypeOK
  <2>2. MutexInv'
    BY DEF TypeOK, MutexInv
  <2>3. BirthInv'
    BY DEF TypeOK, BirthInv, MutexInv
  <2>4. PhaseInv'
    BY DEF TypeOK, PhaseInv, MutexInv, BirthInv, At
  <2>5. Counted'
    BY DEF TypeOK, Counted, At
  <2>6. PackageInv'
    BY DEF TypeOK, PackageInv
  <2> QED
    BY <2>1, <2>2, <2>3, <2>4, <2>5, <2>6
<1>6. ASSUME NEW w \in Workers, Wait(w) PROVE ThreadInv'
  <2> USE <1>6 DEF Wait
  <2>1. TypeOK'
    BY DEF TypeOK
  <2>2. MutexInv'
    BY DEF TypeOK, MutexInv
  <2>3. BirthInv'
    BY DEF TypeOK, BirthInv, MutexInv
  <2>4. PhaseInv'
    BY DEF TypeOK, PhaseInv, MutexInv, BirthInv, At
  <2>5. Counted'
    BY DEF TypeOK, Counted, At
  <2>6. PackageInv'
    BY DEF TypeOK, PackageInv
  <2> QED
    BY <2>1, <2>2, <2>3, <2>4, <2>5, <2>6
<1>7. ASSUME NEW w \in Workers, TakePackage(w) PROVE ThreadInv'
  <2> USE <1>7 DEF TakePackage
  <2>1. TypeOK'
    BY DEF TypeOK
  <2>2. MutexInv'
    BY DEF TypeOK, MutexInv
  <2>3. BirthInv'
    BY DEF TypeOK, BirthInv, MutexInv
  <2>4. PhaseInv'
    BY DEF TypeOK, PhaseInv, MutexInv, BirthInv, At
  <2>5. Counted'
    BY DEF TypeOK, Counted, At
  <2>6. PackageInv'
    BY DEF TypeOK, PackageInv
  <2> QED
    BY <2>1, <2>2, <2>3, <2>4, <2>5, <2>6
<1>8. ASSUME NEW w \in Workers, ParsePackage(w) PROVE ThreadInv'
  <2> USE <1>8 DEF ParsePackage
  <2>1. TypeOK'
    BY DEF TypeOK, PackageInv
  <2>2. MutexInv'
    BY DEF TypeOK, MutexInv
  <2>3. BirthInv'
    BY DEF TypeOK, BirthInv, MutexInv
  <2>4. PhaseInv'
    BY DEF TypeOK, PhaseInv, MutexInv, BirthInv, At
  <2>5. Counted'
    BY DEF TypeOK, Counted, At
  <2>6. PackageInv'
    BY DEF TypeOK, PackageInv
  <2> QED
    BY <2>1, <2>2, <2>3, <2>4, <2>5, <2>6
<1>9. ASSUME NEW w \in Workers, Throw(w) PROVE ThreadInv'
  <2> USE <1>9 DEF Throw
  <2>1. TypeOK'
    BY DEF TypeOK
  <2>2. MutexInv'
    BY DEF TypeOK, MutexInv
  <2>3. BirthInv'
    BY DEF TypeOK, BirthInv, MutexInv
  <2>4. PhaseInv'
    BY DEF TypeOK, PhaseInv, MutexInv, BirthInv, At
  <2>5. Counted'
    BY DEF TypeOK, Counted, At
  <2>6. PackageInv'
    BY DEF TypeOK, PackageInv
  <2> QED
    BY <2>1, <2>2, <2>3, <2>4, <2>5, <2>6
<1>10. ASSUME NEW w \in Workers, LeaveLoop(w) PROVE ThreadInv'
  <2> USE <1>10 DEF LeaveLoop
  <2>a. /\ Cardinality(At(InLoop)') = Cardinality(At(InLoop)) - 1
        /\ Cardinality(At(InLoop)') \in Nat
    <3>1. At(InLoop)' = At(InLoop) \ {w} /\ w \in At(InLoop)
      BY DEF TypeOK, At
    <3>2. IsFiniteSet(At(InLoop) \ {w})
      BY AtFinite, FS_RemoveElement
    <3> QED
      BY <3>1, <3>2, AtFinite, FS_RemoveElement, FS_CardinalityType
  <2>1. TypeOK'
    BY <2>a DEF TypeOK, Counted
  <2>2. MutexInv'
    BY DEF TypeOK, MutexInv
  <2>3. BirthInv'
    BY DEF TypeOK, BirthInv, MutexInv
  <2>4. PhaseInv'
    BY DEF TypeOK, PhaseInv, MutexInv, BirthInv, At
  <2>5. Counted'
    BY <2>a DEF Counted
  <2>6. PackageInv'
    BY DEF TypeOK, PackageInv
  <2> QED
    BY <2>1, <2>2, <2>3, <2>4, <2>5, <2>6
<1>11. ASSUME NEW w \in Workers, SpuriousWakeup(w) PROVE ThreadInv'
  <2> USE <1>11 DEF SpuriousWakeup
  <2>1. TypeOK'
    BY DEF TypeOK
  <2>2. MutexInv'
    BY DEF TypeOK, MutexInv
  <2>3. BirthInv'
    BY DEF TypeOK, BirthInv, MutexInv
  <2>4. PhaseInv'
    BY DEF TypeOK, PhaseInv, MutexInv, BirthInv, At
  <2>5. Counted'
    BY DEF TypeOK, Counted, At
  <2>6. PackageInv'
    BY DEF TypeOK, PackageInv
  <2> QED
    BY <2>1, <2>2, <2>3, <2>4, <2>5, <2>6
<1>12. ASSUME StartParsingThreads PROVE ThreadInv'
  <2> USE <1>12 DEF StartParsingThreads
  <2>1. TypeOK'
    <3>1. pc' \in [Workers -> PCs]
      BY DEF TypeOK
    <3>2. workers' \subseteq Workers /\ workersStopFlag' \in BOOLEAN
      OBVIOUS
    <3>3. starts' \in Nat
      BY DEF TypeOK
    <3>4. UNCHANGED <<workersStarted, workQueue, holder, package, fulfilled,
                      submitted, mainPc, awaited, aborted>>
      OBVIOUS
    <3> HIDE DEF StartParsingThreads
    <3> QED
      BY <3>1, <3>2, <3>3, <3>4 DEF TypeOK
  <2>2. MutexInv'
    BY DEF TypeOK, MutexInv
  <2>3. BirthInv'
    BY DEF TypeOK, BirthInv, MutexInv
  <2>4. PhaseInv'
    BY DEF TypeOK, PhaseInv, MutexInv, BirthInv, At
  <2>5. Counted'
    <3>1. At(InLoop) = {} /\ At(InLoop)' = {}
      BY DEF TypeOK, BirthInv, At
    <3> QED
      BY <3>1 DEF Counted
  <2>6. PackageInv'
    BY DEF TypeOK, PackageInv
  <2> QED
    BY <2>1, <2>2, <2>3, <2>4, <2>5, <2>6
<1>13. ASSUME NEW j \in Jobs, ParseSourceScriptAsync(j) PROVE ThreadInv'
  <2> USE <1>13 DEF ParseSourceScriptAsync, NotifyOne, Waiting
  <2>1. TypeOK'
    BY DEF TypeOK
  <2>2. MutexInv'
    BY DEF TypeOK, MutexInv
  <2>3. BirthInv'
    <3>1. \A w \in Workers : \/ pc'[w] = pc[w]
                             \/ pc[w] = "waiting" /\ pc'[w] = "relock"
      BY DEF TypeOK, At
    <3>2. workers' = workers
      OBVIOUS
    <3> HIDE DEF ParseSourceScriptAsync
    <3> QED
      BY <3>1, <3>2 DEF BirthInv
  <2>4. PhaseInv'
    BY DEF TypeOK, PhaseInv, MutexInv, BirthInv, At
  <2>5. Counted'
    BY DEF TypeOK, Counted, At
  <2>6. PackageInv'
    BY DEF TypeOK, PackageInv
  <2> QED
    BY <2>1, <2>2, <2>3, <2>4, <2>5, <2>6
<1>14. ASSUME NEW j \in Jobs, GetAst(j) PROVE ThreadInv'
  <2> USE <1>14 DEF GetAst
  <2>1. TypeOK'
    BY DEF TypeOK
  <2>2. MutexInv'
    BY DEF TypeOK, MutexInv
  <2>3. BirthInv'
    BY DEF TypeOK, BirthInv, MutexInv
  <2>4. PhaseInv'
    BY DEF TypeOK, PhaseInv, MutexInv, BirthInv, At
  <2>5. Counted'
    BY DEF TypeOK, Counted, At
  <2>6. PackageInv'
    BY DEF TypeOK, PackageInv
  <2> QED
    BY <2>1, <2>2, <2>3, <2>4, <2>5, <2>6
<1>15. ASSUME GetAstReturns PROVE ThreadInv'
  <2> USE <1>15 DEF GetAstReturns
  <2>1. TypeOK'
    BY DEF TypeOK
  <2>2. MutexInv'
    BY DEF TypeOK, MutexInv
  <2>3. BirthInv'
    BY DEF TypeOK, BirthInv, MutexInv
  <2>4. PhaseInv'
    BY DEF TypeOK, PhaseInv, MutexInv, BirthInv, At
  <2>5. Counted'
    BY DEF TypeOK, Counted, At
  <2>6. PackageInv'
    BY DEF TypeOK, PackageInv
  <2> QED
    BY <2>1, <2>2, <2>3, <2>4, <2>5, <2>6
<1>16. ASSUME StopParsingThreads PROVE ThreadInv'
  <2> USE <1>16 DEF StopParsingThreads
  <2>1. TypeOK'
    BY DEF TypeOK
  <2>2. MutexInv'
    BY DEF TypeOK, MutexInv
  <2>3. BirthInv'
    BY DEF TypeOK, BirthInv, MutexInv
  <2>4. PhaseInv'
    BY DEF TypeOK, PhaseInv, MutexInv, BirthInv, At
  <2>5. Counted'
    BY DEF TypeOK, Counted, At
  <2>6. PackageInv'
    BY DEF TypeOK, PackageInv
  <2> QED
    BY <2>1, <2>2, <2>3, <2>4, <2>5, <2>6
<1>17. ASSUME StopSpin PROVE ThreadInv'
  <2> USE <1>17 DEF StopSpin
  <2>1. TypeOK'
    BY DEF TypeOK
  <2>2. MutexInv'
    BY DEF TypeOK, MutexInv
  <2>3. BirthInv'
    BY DEF TypeOK, BirthInv, MutexInv
  <2>4. PhaseInv'
    <3>1. At(InLoop) = Workers
      BY FS_Subset DEF Counted, At
    <3>2. At(InLoop \cup {"finished"})' = Workers
      BY <3>1 DEF At
    <3> QED
      BY <3>2 DEF TypeOK, PhaseInv
  <2>5. Counted'
    BY DEF TypeOK, Counted, At
  <2>6. PackageInv'
    BY DEF TypeOK, PackageInv
  <2> QED
    BY <2>1, <2>2, <2>3, <2>4, <2>5, <2>6
<1>18. ASSUME StopStoreFlag PROVE ThreadInv'
  <2> USE <1>18 DEF StopStoreFlag
  <2>1. TypeOK'
    BY DEF TypeOK
  <2>2. MutexInv'
    BY DEF TypeOK, MutexInv
  <2>3. BirthInv'
    BY DEF TypeOK, BirthInv, MutexInv
  <2>4. PhaseInv'
    BY DEF TypeOK, PhaseInv, MutexInv, BirthInv, At
  <2>5. Counted'
    BY DEF TypeOK, Counted, At
  <2>6. PackageInv'
    BY DEF TypeOK, PackageInv
  <2> QED
    BY <2>1, <2>2, <2>3, <2>4, <2>5, <2>6
<1>19. ASSUME StopNotifyAll PROVE ThreadInv'
  <2> USE <1>19 DEF StopNotifyAll
  <2>1. TypeOK'
    BY DEF TypeOK
  <2>2. MutexInv'
    BY DEF TypeOK, MutexInv
  <2>3. BirthInv'
    BY DEF TypeOK, BirthInv, MutexInv
  <2>4. PhaseInv'
    BY DEF TypeOK, PhaseInv, MutexInv, BirthInv, At
  <2>5. Counted'
    BY DEF TypeOK, Counted, At
  <2>6. PackageInv'
    BY DEF TypeOK, PackageInv
  <2> QED
    BY <2>1, <2>2, <2>3, <2>4, <2>5, <2>6
<1>20. ASSUME StopJoin PROVE ThreadInv'
  <2> USE <1>20 DEF StopJoin
  <2>1. TypeOK'
    BY DEF TypeOK
  <2>2. MutexInv'
    BY DEF TypeOK, MutexInv
  <2>3. BirthInv'
    BY DEF TypeOK, BirthInv, MutexInv
  <2>4. PhaseInv'
    BY DEF TypeOK, PhaseInv, MutexInv, BirthInv, At
  <2>5. Counted'
    BY DEF TypeOK, Counted, At
  <2>6. PackageInv'
    BY DEF TypeOK, PackageInv
  <2> QED
    BY <2>1, <2>2, <2>3, <2>4, <2>5, <2>6
<1> QED
  BY <1>1, <1>2, <1>3, <1>4, <1>5, <1>6, <1>7, <1>8, <1>9, <1>10, <1>11, <1>12, <1>13, <1>14, <1>15, <1>16, <1>17, <1>18, <1>19, <1>20 DEF Next, MainCall, MainStep, WorkerStep

------------------------------------------------------------------------------
\* A submission adds its job to the jobs that are queued, at a new place.
LEMMA QueuedAfterAppend ==
  ASSUME workQueue \in Seq(Jobs), NEW j \in Jobs, workQueue' = Append(workQueue, j)
  PROVE  /\ Queued' = Queued \cup {j}
         /\ DOMAIN workQueue' = DOMAIN workQueue \cup {Len(workQueue) + 1}
         /\ Len(workQueue) + 1 \notin DOMAIN workQueue
         /\ workQueue'[Len(workQueue) + 1] = j
         /\ \A i \in DOMAIN workQueue : workQueue'[i] = workQueue[i]
<1>1. /\ Len(workQueue) \in Nat /\ DOMAIN workQueue = 1 .. Len(workQueue)
      /\ DOMAIN workQueue' = 1 .. (Len(workQueue) + 1)
      /\ \A i \in 1 .. Len(workQueue) : workQueue'[i] = workQueue[i]
      /\ workQueue'[Len(workQueue) + 1] = j
  BY AppendProperties, LenProperties
<1>2. DOMAIN workQueue' = DOMAIN workQueue \cup {Len(workQueue) + 1}
  BY <1>1
<1> QED
  BY <1>1, <1>2 DEF Queued

\* Taking the last package removes its place and, in a queue without
\* duplicates, its job.
LEMMA QueuedAfterPop ==
  ASSUME workQueue \in Seq(Jobs), workQueue # <<>>,
         workQueue' = SubSeq(workQueue, 1, Len(workQueue) - 1),
         \A i, k \in DOMAIN workQueue : workQueue[i] = workQueue[k] => i = k
  PROVE  /\ Queued' = Queued \ {workQueue[Len(workQueue)]}
         /\ workQueue[Len(workQueue)] \in Queued \cap Jobs
         /\ DOMAIN workQueue' \subseteq DOMAIN workQueue
         /\ \A i \in DOMAIN workQueue' : workQueue'[i] = workQueue[i]
         /\ workQueue' \in Seq(Jobs)
         /\ Len(workQueue') = Len(workQueue) - 1
<1>1. /\ Len(workQueue) \in Nat \ {0} /\ DOMAIN workQueue = 1 .. Len(workQueue)
      /\ \A i \in 1 .. Len(workQueue) : workQueue[i] \in Jobs
  BY EmptySeq, LenProperties, ElementOfSeq
<1>2. /\ workQueue' \in Seq(Jobs)
      /\ Len(workQueue') = Len(workQueue) - 1
      /\ \A i \in 1 .. (Len(workQueue) - 1) : workQueue'[i] = workQueue[i]
  <2>1. \A i \in 1 .. (Len(workQueue) - 1) : workQueue[i] \in Jobs
    BY <1>1
  <2> QED
    BY <1>1, <2>1, SubSeqProperties
<1>3. DOMAIN workQueue' = 1 .. (Len(workQueue) - 1)
  BY <1>2, LenProperties
<1>4. DOMAIN workQueue = DOMAIN workQueue' \cup {Len(workQueue)}
  BY <1>1, <1>3
<1>5. Len(workQueue) \notin DOMAIN workQueue'
  BY <1>1, <1>3
<1>6. \A i \in DOMAIN workQueue' : workQueue'[i] = workQueue[i]
  BY <1>2, <1>3
<1>7. Queued = Queued' \cup {workQueue[Len(workQueue)]}
  <2>1. ASSUME NEW x \in Queued PROVE x \in Queued' \cup {workQueue[Len(workQueue)]}
    <3>1. PICK i \in DOMAIN workQueue : x = workQueue[i]
      BY DEF Queued
    <3>2. CASE i \in DOMAIN workQueue'
      BY <1>6, <3>1, <3>2 DEF Queued
    <3>3. CASE i = Len(workQueue)
      BY <3>1, <3>3
    <3> QED
      BY <1>4, <3>2, <3>3
  <2>2. Queued' \subseteq Queued
    BY <1>4, <1>6 DEF Queued
  <2>3. workQueue[Len(workQueue)] \in Queued
    BY <1>4 DEF Queued
  <2> QED
    BY <2>1, <2>2, <2>3
<1>8. workQueue[Len(workQueue)] \notin Queued'
  BY <1>1, <1>4, <1>5, <1>6 DEF Queued
<1>9. workQueue[Len(workQueue)] \in Jobs
  BY <1>1
<1> QED
  BY <1>2, <1>4, <1>6, <1>7, <1>8, <1>9

\* A step that leaves the queue, the packages in hand and the promises alone
\* leaves every package where it is.
LEMMA SamePlaces ==
  ASSUME OnePlace, UNCHANGED <<workQueue, package, fulfilled, submitted>>,
         At({"parse"})' = At({"parse"})
  PROVE  OnePlace'
<1>1. Queued' = Queued /\ Running' = Running
  BY DEF Queued, Running
<1> QED
  BY <1>1 DEF OnePlace

\* Every package stays in exactly one place.
LEMMA NextOnePlace == ThreadInv /\ OnePlace /\ Next => OnePlace'
<1> SUFFICES ASSUME ThreadInv, OnePlace, Next PROVE OnePlace'
  OBVIOUS
<1> USE DEF ThreadInv, Goto, mainVars, poolVars
<1>1. ASSUME NEW w \in Workers, PrepareOtherThreads(w) PROVE OnePlace'
  BY <1>1, SamePlaces, PoolAssumption DEF PrepareOtherThreads, At, TypeOK, BirthInv
<1>2. ASSUME NEW w \in Workers, MakeBabelObject(w) PROVE OnePlace'
  BY <1>2, SamePlaces, PoolAssumption DEF MakeBabelObject, At, TypeOK
<1>3. ASSUME NEW w \in Workers, EnterLoop(w) PROVE OnePlace'
  BY <1>3, SamePlaces, PoolAssumption DEF EnterLoop, At, TypeOK
<1>4. ASSUME NEW w \in Workers, Relock(w) PROVE OnePlace'
  BY <1>4, SamePlaces, PoolAssumption DEF Relock, At, TypeOK
<1>5. ASSUME NEW w \in Workers, CheckStopFlag(w) PROVE OnePlace'
  BY <1>5, SamePlaces, PoolAssumption DEF CheckStopFlag, At, TypeOK
<1>6. ASSUME NEW w \in Workers, Wait(w) PROVE OnePlace'
  BY <1>6, SamePlaces, PoolAssumption DEF Wait, At, TypeOK
<1>7. ASSUME NEW w \in Workers, TakePackage(w) PROVE OnePlace'
  <2> DEFINE p == workQueue[Len(workQueue)]
  <2>1. /\ Queued' = Queued \ {p} /\ p \in Queued
        /\ DOMAIN workQueue' \subseteq DOMAIN workQueue
        /\ \A i \in DOMAIN workQueue' : workQueue'[i] = workQueue[i]
    BY <1>7, QueuedAfterPop DEF TakePackage, OnePlace, TypeOK
  <2>2. /\ At({"parse"})' = At({"parse"}) \cup {w} /\ w \notin At({"parse"})
        /\ package' = [package EXCEPT ![w] = p]
    BY <1>7 DEF TakePackage, At, TypeOK
  <2>3. Running' = Running \cup {p}
    BY <2>2 DEF Running, TypeOK, At
  <2>4. \A u, v \in At({"parse"})' : package'[u] = package'[v] => u = v
    BY <2>1, <2>2 DEF OnePlace, Running, TypeOK, At
  <2>5. UNCHANGED <<fulfilled, submitted>>
    BY <1>7 DEF TakePackage
  <2> HIDE DEF p
  <2> QED
    BY <2>1, <2>3, <2>4, <2>5 DEF OnePlace
<1>8. ASSUME NEW w \in Workers, ParsePackage(w) PROVE OnePlace'
  <2>1. /\ At({"parse"})' = At({"parse"}) \ {w} /\ w \in At({"parse"})
        /\ package' = [package EXCEPT ![w] = None]
        /\ fulfilled' = fulfilled \cup {package[w]}
        /\ UNCHANGED <<workQueue, submitted>>
    BY <1>8 DEF ParsePackage, At, TypeOK
  <2>2. Running' = Running \ {package[w]} /\ package[w] \in Running
    BY <2>1 DEF Running, OnePlace, TypeOK, At
  <2>3. \A u, v \in At({"parse"})' : package'[u] = package'[v] => u = v
    BY <2>1 DEF OnePlace, TypeOK, At
  <2>4. Queued' = Queued
    BY <2>1 DEF Queued
  <2> QED
    BY <2>1, <2>2, <2>3, <2>4 DEF OnePlace
<1>9. ASSUME NEW w \in Workers, Throw(w) PROVE OnePlace'
  BY <1>9, SamePlaces, PoolAssumption DEF Throw, At, TypeOK
<1>10. ASSUME NEW w \in Workers, LeaveLoop(w) PROVE OnePlace'
  BY <1>10, SamePlaces, PoolAssumption DEF LeaveLoop, At, TypeOK
<1>11. ASSUME NEW w \in Workers, SpuriousWakeup(w) PROVE OnePlace'
  BY <1>11, SamePlaces, PoolAssumption DEF SpuriousWakeup, At, TypeOK
<1>12. ASSUME StartParsingThreads PROVE OnePlace'
  BY <1>12, SamePlaces, PoolAssumption DEF StartParsingThreads, At, TypeOK, BirthInv
<1>13. ASSUME NEW j \in Jobs, ParseSourceScriptAsync(j) PROVE OnePlace'
  <2>1. /\ Queued' = Queued \cup {j} /\ j \notin submitted
        /\ \A i, k \in DOMAIN workQueue' : workQueue'[i] = workQueue'[k] => i = k
    <3>1. j \notin Queued
      BY <1>13 DEF ParseSourceScriptAsync, OnePlace
    <3> QED
      BY <1>13, <3>1, QueuedAfterAppend DEF ParseSourceScriptAsync, OnePlace, TypeOK, Queued
  <2>2. At({"parse"})' = At({"parse"}) /\ package' = package
    BY <1>13 DEF ParseSourceScriptAsync, NotifyOne, Waiting, At, TypeOK
  <2>3. Running' = Running
    BY <2>2 DEF Running
  <2>4. fulfilled' = fulfilled /\ submitted' = submitted \cup {j}
    BY <1>13 DEF ParseSourceScriptAsync
  <2> QED
    BY <2>1, <2>2, <2>3, <2>4 DEF OnePlace
<1>14. ASSUME NEW j \in Jobs, GetAst(j) PROVE OnePlace'
  BY <1>14, SamePlaces, PoolAssumption DEF GetAst, At, TypeOK
<1>15. ASSUME GetAstReturns PROVE OnePlace'
  BY <1>15, SamePlaces, PoolAssumption DEF GetAstReturns, At, TypeOK
<1>16. ASSUME StopParsingThreads PROVE OnePlace'
  BY <1>16, SamePlaces, PoolAssumption DEF StopParsingThreads, At, TypeOK
<1>17. ASSUME StopSpin PROVE OnePlace'
  BY <1>17, SamePlaces, PoolAssumption DEF StopSpin, At, TypeOK
<1>18. ASSUME StopStoreFlag PROVE OnePlace'
  BY <1>18, SamePlaces, PoolAssumption DEF StopStoreFlag, At, TypeOK
<1>19. ASSUME StopNotifyAll PROVE OnePlace'
  BY <1>19, SamePlaces, PoolAssumption DEF StopNotifyAll, At, TypeOK
<1>20. ASSUME StopJoin PROVE OnePlace'
  BY <1>20, SamePlaces, PoolAssumption DEF StopJoin, At, TypeOK
<1> QED
  BY <1>1, <1>2, <1>3, <1>4, <1>5, <1>6, <1>7, <1>8, <1>9, <1>10, <1>11, <1>12, <1>13, <1>14, <1>15, <1>16, <1>17, <1>18, <1>19, <1>20 DEF Next, MainCall, MainStep, WorkerStep
------------------------------------------------------------------------------
\* A step that neither puts a worker to sleep nor takes one off the way to a
\* queue that stays as long as it is.
LEMMA MoreReady ==
  ASSUME ThreadInv, NoSleepingOnWork, UNCHANGED <<workQueue, workersStopFlag>>,
         Waiting' \subseteq Waiting, Ready \subseteq Ready'
  PROVE  NoSleepingOnWork'
<1>1. /\ IsFiniteSet(Ready) /\ IsFiniteSet(Ready')
      /\ Cardinality(Ready) \in Nat /\ Cardinality(Ready') \in Nat
  BY AtFinite, PoolAssumption, FS_Subset, FS_CardinalityType DEF Ready, At
<1>2. Cardinality(Ready) <= Cardinality(Ready')
  BY <1>1, FS_Subset
<1>3. Len(workQueue) \in Nat /\ Len(workQueue') = Len(workQueue)
  BY LenProperties DEF ThreadInv, TypeOK
<1>4. Waiting' # {} => Waiting # {}
  OBVIOUS
<1> QED
  BY <1>1, <1>2, <1>3, <1>4 DEF NoSleepingOnWork

\* No worker sleeps on work, after every step.
LEMMA NextNoSleepingOnWork ==
  ThreadInv /\ OnePlace /\ NoSleepingOnWork /\ Next => NoSleepingOnWork'
<1> SUFFICES ASSUME ThreadInv, OnePlace, NoSleepingOnWork, Next
             PROVE  NoSleepingOnWork'
  OBVIOUS
<1> USE DEF ThreadInv, Goto, mainVars, poolVars
<1>a. Len(workQueue) \in Nat
  BY LenProperties DEF TypeOK
<1>b. IsFiniteSet(Ready) /\ Cardinality(Ready) \in Nat
  BY AtFinite DEF Ready
<1>1. ASSUME NEW w \in Workers, PrepareOtherThreads(w) PROVE NoSleepingOnWork'
  <2>1. Waiting' = {}
    BY <1>1 DEF PrepareOtherThreads, Waiting, At
  <2> QED
    BY <2>1 DEF NoSleepingOnWork
<1>2. ASSUME NEW w \in Workers, MakeBabelObject(w) PROVE NoSleepingOnWork'
  BY <1>2, MoreReady DEF MakeBabelObject, Waiting, Ready, At, TypeOK
<1>3. ASSUME NEW w \in Workers, EnterLoop(w) PROVE NoSleepingOnWork'
  BY <1>3, MoreReady DEF EnterLoop, Waiting, Ready, At, TypeOK
<1>4. ASSUME NEW w \in Workers, Relock(w) PROVE NoSleepingOnWork'
  BY <1>4, MoreReady DEF Relock, Waiting, Ready, At, TypeOK
<1>5. ASSUME NEW w \in Workers, CheckStopFlag(w) PROVE NoSleepingOnWork'
  <2>1. CASE workersStopFlag
    BY <1>5, <2>1 DEF CheckStopFlag, NoSleepingOnWork
  <2>2. CASE ~workersStopFlag
    BY <1>5, <2>2, MoreReady DEF CheckStopFlag, Waiting, Ready, At, TypeOK
  <2> QED
    BY <2>1, <2>2
<1>6. ASSUME NEW w \in Workers, Wait(w) PROVE NoSleepingOnWork'
  <2>1. Len(workQueue') = 0
    BY <1>6, EmptySeq DEF Wait
  <2>2. Cardinality(Ready') \in Nat
    BY PoolAssumption, FS_Subset, FS_CardinalityType DEF Ready, At
  <2> QED
    BY <2>1, <2>2 DEF NoSleepingOnWork
<1>7. ASSUME NEW w \in Workers, TakePackage(w) PROVE NoSleepingOnWork'
  <2>1. Len(workQueue') = Len(workQueue) - 1
    BY <1>7, QueuedAfterPop DEF TakePackage, OnePlace, TypeOK
  <2>2. Ready' = Ready \ {w} /\ w \in Ready /\ Waiting' = Waiting
    BY <1>7 DEF TakePackage, Ready, Waiting, At, TypeOK
  <2>3. Cardinality(Ready') = Cardinality(Ready) - 1
    BY <1>b, <2>2, FS_RemoveElement
  <2>4. workersStopFlag' = workersStopFlag
    BY <1>7 DEF TakePackage
  <2> QED
    BY <1>a, <1>b, <2>1, <2>2, <2>3, <2>4 DEF NoSleepingOnWork
<1>8. ASSUME NEW w \in Workers, ParsePackage(w) PROVE NoSleepingOnWork'
  BY <1>8, MoreReady DEF ParsePackage, Waiting, Ready, At, TypeOK
<1>9. ASSUME NEW w \in Workers, Throw(w) PROVE NoSleepingOnWork'
  BY <1>9, MoreReady DEF Throw, Waiting, Ready, At, TypeOK
<1>10. ASSUME NEW w \in Workers, LeaveLoop(w) PROVE NoSleepingOnWork'
  BY <1>10 DEF LeaveLoop, PhaseInv, TypeOK, NoSleepingOnWork
<1>11. ASSUME NEW w \in Workers, SpuriousWakeup(w) PROVE NoSleepingOnWork'
  BY <1>11, MoreReady DEF SpuriousWakeup, Waiting, Ready, At, TypeOK
<1>12. ASSUME StartParsingThreads PROVE NoSleepingOnWork'
  <2>1. Waiting' = {}
    BY <1>12, PoolAssumption DEF StartParsingThreads, Waiting, At, BirthInv, TypeOK
  <2> QED
    BY <2>1 DEF NoSleepingOnWork
<1>13. ASSUME NEW j \in Jobs, ParseSourceScriptAsync(j) PROVE NoSleepingOnWork'
  <2>1. CASE Waiting = {}
    <3>1. Waiting' = {}
      BY <1>13, <2>1 DEF ParseSourceScriptAsync, NotifyOne, Waiting, At
    <3> QED
      BY <3>1 DEF NoSleepingOnWork
  <2>2. CASE Waiting # {}
    <3>1. PICK v \in Waiting : pc' = [pc EXCEPT ![v] = "relock"]
      BY <1>13, <2>2 DEF ParseSourceScriptAsync, NotifyOne
    <3>2. Ready' = Ready \cup {v} /\ v \notin Ready
      BY <3>1 DEF Ready, Waiting, At, TypeOK
    <3>3. Cardinality(Ready') = Cardinality(Ready) + 1
      BY <1>b, <3>2, FS_AddElement
    <3>4. Len(workQueue') = Len(workQueue) + 1
      BY <1>13, AppendProperties DEF ParseSourceScriptAsync, TypeOK
    <3>5. workersStopFlag' = workersStopFlag
      BY <1>13 DEF ParseSourceScriptAsync
    <3> QED
      BY <1>a, <1>b, <2>2, <3>3, <3>4, <3>5 DEF NoSleepingOnWork
  <2> QED
    BY <2>1, <2>2
<1>14. ASSUME NEW j \in Jobs, GetAst(j) PROVE NoSleepingOnWork'
  BY <1>14, MoreReady DEF GetAst, Waiting, Ready, At, TypeOK
<1>15. ASSUME GetAstReturns PROVE NoSleepingOnWork'
  BY <1>15, MoreReady DEF GetAstReturns, Waiting, Ready, At, TypeOK
<1>16. ASSUME StopParsingThreads PROVE NoSleepingOnWork'
  BY <1>16, MoreReady DEF StopParsingThreads, Waiting, Ready, At, TypeOK
<1>17. ASSUME StopSpin PROVE NoSleepingOnWork'
  BY <1>17, MoreReady DEF StopSpin, Waiting, Ready, At, TypeOK
<1>18. ASSUME StopStoreFlag PROVE NoSleepingOnWork'
  BY <1>18 DEF StopStoreFlag, PhaseInv, TypeOK, NoSleepingOnWork
<1>19. ASSUME StopNotifyAll PROVE NoSleepingOnWork'
  BY <1>19 DEF StopNotifyAll, PhaseInv, TypeOK, NoSleepingOnWork
<1>20. ASSUME StopJoin PROVE NoSleepingOnWork'
  BY <1>20 DEF StopJoin, PhaseInv, TypeOK, NoSleepingOnWork
<1> QED
  BY <1>1, <1>2, <1>3, <1>4, <1>5, <1>6, <1>7, <1>8, <1>9, <1>10, <1>11, <1>12, <1>13, <1>14, <1>15, <1>16, <1>17, <1>18, <1>19, <1>20 DEF Next, MainCall, MainStep, WorkerStep

------------------------------------------------------------------------------
\* The inductive invariant holds at the start, and a step that changes nothing
\* does not end it.
LEMMA InitIInv == Init => IInv
<1> SUFFICES ASSUME Init PROVE IInv
  OBVIOUS
<1>1. OnePlace
  BY DEF Init, OnePlace, Queued, Running, At
<1>2. Waiting = {}
  BY DEF Init, Waiting, At
<1> QED
  BY <1>1, <1>2, InitThreadInv DEF IInv, NoSleepingOnWork

LEMMA StutterIInv == IInv /\ UNCHANGED vars => IInv'
BY DEF IInv, ThreadInv, vars, poolVars, mainVars, TypeOK, MutexInv, BirthInv, PhaseInv,
       Counted, PackageInv, OnePlace, NoSleepingOnWork, At, Waiting, Ready, Queued, Running

\* The invariant that all safety properties of the pool follow from.
THEOREM PoolInvariant == SafeSpec => []IInv
<1>1. IInv /\ [Next]_vars => IInv'
  BY NextThreadInv, NextOnePlace, NextNoSleepingOnWork, StutterIInv DEF IInv
<1> QED
  BY InitIInv, <1>1, PTL DEF SafeSpec

\* Type correctness of the pool's state.
THEOREM TypeCorrect == SafeSpec => []TypeOK
<1>1. IInv => TypeOK
  BY DEF IInv, ThreadInv
<1> QED
  BY <1>1, PoolInvariant, PTL

\* Every package is in exactly one place: no promise is set twice, no package
\* is lost, whatever the callers and the number of workers.
THEOREM PackagesInOnePlace == SafeSpec => []OnePlace
<1>1. IInv => OnePlace
  BY DEF IInv
<1> QED
  BY <1>1, PoolInvariant, PTL

\* One notify_one per package never leaves a worker asleep on work.
THEOREM WorkersDoNotSleepOnWork == SafeSpec => []NoSleepingOnWork
<1>1. IInv => NoSleepingOnWork
  BY DEF IInv
<1> QED
  BY <1>1, PoolInvariant, PTL

\* The stop flag may be stored without the mutex: notify_all is not lost.
THEOREM StopIsNotMissed == SafeSpec => []NoSleeperAtJoin
<1>1. IInv => NoSleeperAtJoin
  BY DEF IInv, ThreadInv, PhaseInv, NoSleeperAtJoin
<1> QED
  BY <1>1, PoolInvariant, PTL

\* The counter the spin reads is the number of workers inside the loop.
THEOREM SpinWaitsForAllWorkers == SafeSpec => []StartedWorkersAreInLoop
<1>1. IInv => StartedWorkersAreInLoop
  BY DEF IInv, ThreadInv, PhaseInv, Counted, StartedWorkersAreInLoop
<1> QED
  BY <1>1, PoolInvariant, PTL

\* A stopped pool holds no thread, no mutex and no count.
THEOREM PoolComesToRest == SafeSpec => []StoppedPoolIsAtRest
<1>1. ASSUME IInv, workers = {} PROVE StoppedPoolIsAtRest
  <2> USE DEF IInv, ThreadInv
  <2>1. At({"unborn"}) = Workers /\ At(InLoop) = {}
    BY <1>1 DEF BirthInv, At, InLoop, Holding
  <2>2. workersStarted = 0
    BY <1>1, <2>1, FS_EmptySet DEF Counted
  <2>3. holder = None
    BY <1>1, PoolAssumption DEF BirthInv, MutexInv, Holding, TypeOK
  <2> QED
    BY <2>1, <2>2, <2>3 DEF StoppedPoolIsAtRest
<1>2. IInv => StoppedPoolIsAtRest
  BY <1>1 DEF StoppedPoolIsAtRest
<1> QED
  BY <1>2, PoolInvariant, PTL
------------------------------------------------------------------------------
\* No package is taken while stopParsingThreads joins its threads.
THEOREM JoinFreezesTheQueue == SafeSpec => NoPackageTakenAtJoin
<1>1. ASSUME IInv, Next, mainPc = "join" PROVE workQueue' = workQueue
  <2>1. \A w \in Workers : pc[w] # "queue"
    BY <1>1 DEF IInv, ThreadInv, PhaseInv, At
  <2>2. ASSUME NEW w \in Workers, WorkerStep(w) \/ SpuriousWakeup(w)
        PROVE  workQueue' = workQueue
    BY <2>1, <2>2 DEF WorkerStep, PrepareOtherThreads, MakeBabelObject, EnterLoop,
       Relock, CheckStopFlag, Wait, TakePackage, ParsePackage, Throw, LeaveLoop,
       SpuriousWakeup, poolVars
  <2>3. ASSUME MainCall \/ MainStep PROVE workQueue' = workQueue
    BY <1>1, <2>3 DEF MainCall, MainStep, StartParsingThreads, StopParsingThreads,
       ParseSourceScriptAsync, GetAst, GetAstReturns, StopSpin, StopStoreFlag,
       StopNotifyAll, StopJoin, poolVars
  <2> QED
    BY <1>1, <2>2, <2>3 DEF Next
<1>2. IInv /\ [Next]_vars => [mainPc = "join" => workQueue' = workQueue]_vars
  BY <1>1
<1> QED
  BY <1>2, PoolInvariant, PTL DEF SafeSpec, NoPackageTakenAtJoin

------------------------------------------------------------------------------
\* A step that moves no package and no promise is invisible in the jobs' states.
LEMMA SameJobState ==
  ASSUME UNCHANGED <<package, fulfilled, submitted>>, At({"parse"})' = At({"parse"})
  PROVE  JobState' = JobState
<1>1. Running' = Running
  BY DEF Running
<1> QED
  BY <1>1 DEF JobState

\* A pool that has not been started is a service that has accepted nothing.
LEMMA InitImplements == Init => Service!Init
<1> SUFFICES ASSUME Init PROVE Service!Init
  OBVIOUS
<1>1. Running = {}
  BY DEF Init, Running, At
<1>2. JobState = [j \in Jobs |-> "new"]
  BY <1>1 DEF Init, JobState
<1> QED
  BY <1>2 DEF Init, Service!Init

\* Every step of the pool is a step of the service or invisible to it.
LEMMA NextImplements == IInv /\ Next => [Service!Next]_(Service!vars)
<1> SUFFICES ASSUME IInv, Next PROVE [Service!Next]_(Service!vars)
  OBVIOUS
<1> USE DEF IInv, ThreadInv, Goto, mainVars, poolVars
<1>a. ~aborted
  BY DEF Next
<1>1. ASSUME NEW w \in Workers, PrepareOtherThreads(w) PROVE [Service!Next]_(Service!vars)
  <2>1. JobState' = JobState
    BY <1>1, SameJobState DEF PrepareOtherThreads, At, TypeOK, BirthInv
  <2>2. workers # {} /\ workers' # {}
    BY <1>1, PoolAssumption DEF PrepareOtherThreads, BirthInv
  <2> QED
    BY <1>1, <2>1, <2>2 DEF PrepareOtherThreads, Service!vars
<1>2. ASSUME NEW w \in Workers, MakeBabelObject(w) PROVE [Service!Next]_(Service!vars)
  <2>1. JobState' = JobState
    BY <1>2, SameJobState DEF MakeBabelObject, At, TypeOK
  <2> QED
    BY <1>2, <2>1 DEF MakeBabelObject, Service!vars
<1>3. ASSUME NEW w \in Workers, EnterLoop(w) PROVE [Service!Next]_(Service!vars)
  <2>1. JobState' = JobState
    BY <1>3, SameJobState DEF EnterLoop, At, TypeOK
  <2> QED
    BY <1>3, <2>1 DEF EnterLoop, Service!vars
<1>4. ASSUME NEW w \in Workers, Relock(w) PROVE [Service!Next]_(Service!vars)
  <2>1. JobState' = JobState
    BY <1>4, SameJobState DEF Relock, At, TypeOK
  <2> QED
    BY <1>4, <2>1 DEF Relock, Service!vars
<1>5. ASSUME NEW w \in Workers, CheckStopFlag(w) PROVE [Service!Next]_(Service!vars)
  <2>1. JobState' = JobState
    BY <1>5, SameJobState DEF CheckStopFlag, At, TypeOK
  <2> QED
    BY <1>5, <2>1 DEF CheckStopFlag, Service!vars
<1>6. ASSUME NEW w \in Workers, Wait(w) PROVE [Service!Next]_(Service!vars)
  <2>1. JobState' = JobState
    BY <1>6, SameJobState DEF Wait, At, TypeOK
  <2> QED
    BY <1>6, <2>1 DEF Wait, Service!vars
<1>7. ASSUME NEW w \in Workers, TakePackage(w) PROVE [Service!Next]_(Service!vars)
  <2> DEFINE p == workQueue[Len(workQueue)]
  <2>1. p \in Queued \cap Jobs
    BY <1>7, QueuedAfterPop DEF TakePackage, OnePlace, TypeOK
  <2>2. JobState[p] = "pending" /\ p \in Jobs
    BY <2>1 DEF JobState, OnePlace
  <2>3. /\ At({"parse"})' = At({"parse"}) \cup {w} /\ w \notin At({"parse"})
        /\ package' = [package EXCEPT ![w] = p]
        /\ UNCHANGED <<fulfilled, submitted, workersStopFlag, workers, aborted>>
    BY <1>7 DEF TakePackage, At, TypeOK
  <2>4. Running' = Running \cup {p}
    BY <2>3 DEF Running, TypeOK, At
  <2>5. JobState' = [JobState EXCEPT ![p] = "running"]
    BY <2>1, <2>3, <2>4 DEF JobState, OnePlace
  <2>6. workers # {}
    BY <1>7 DEF TakePackage, BirthInv
  <2> HIDE DEF p
  <2>7. Service!Begin(p)
    BY <2>2, <2>3, <2>5, <2>6 DEF Service!Begin, Service!Move
  <2> QED
    BY <1>a, <2>2, <2>7 DEF Service!Next
<1>8. ASSUME NEW w \in Workers, ParsePackage(w) PROVE [Service!Next]_(Service!vars)
  <2> DEFINE p == package[w]
  <2>1. /\ At({"parse"})' = At({"parse"}) \ {w} /\ w \in At({"parse"})
        /\ package' = [package EXCEPT ![w] = None]
        /\ fulfilled' = fulfilled \cup {p}
        /\ UNCHANGED <<submitted, workersStopFlag, workers, aborted>>
    BY <1>8 DEF ParsePackage, At, TypeOK
  <2>2. p \in Running /\ p \in Jobs /\ Running' = Running \ {p}
    BY <2>1 DEF Running, OnePlace, PackageInv, TypeOK, At
  <2>3. JobState[p] = "running"
    BY <2>2 DEF JobState, OnePlace
  <2>4. JobState' = [JobState EXCEPT ![p] = "parsed"]
    BY <2>1, <2>2 DEF JobState
  <2> HIDE DEF p
  <2>5. Service!Finish(p)
    BY <2>1, <2>3, <2>4 DEF Service!Finish, Service!Move
  <2> QED
    BY <1>a, <2>2, <2>5 DEF Service!Next
<1>9. ASSUME NEW w \in Workers, Throw(w) PROVE [Service!Next]_(Service!vars)
  <2>1. JobState' = JobState
    BY <1>9, SameJobState DEF Throw, At
  <2>2. Service!Break
    BY <1>9, <2>1 DEF Throw, Service!Break
  <2> QED
    BY <1>a, <2>2 DEF Service!Next
<1>10. ASSUME NEW w \in Workers, LeaveLoop(w) PROVE [Service!Next]_(Service!vars)
  <2>1. JobState' = JobState
    BY <1>10, SameJobState DEF LeaveLoop, At, TypeOK
  <2> QED
    BY <1>10, <2>1 DEF LeaveLoop, Service!vars
<1>11. ASSUME NEW w \in Workers, SpuriousWakeup(w) PROVE [Service!Next]_(Service!vars)
  <2>1. JobState' = JobState
    BY <1>11, SameJobState DEF SpuriousWakeup, At, TypeOK
  <2> QED
    BY <1>11, <2>1 DEF SpuriousWakeup, Service!vars
<1>12. ASSUME StartParsingThreads PROVE [Service!Next]_(Service!vars)
  <2>1. JobState' = JobState
    BY <1>12, SameJobState, PoolAssumption DEF StartParsingThreads, At, TypeOK, BirthInv
  <2>2. Service!Open
    BY <1>12, <2>1 DEF StartParsingThreads, Service!Open
  <2> QED
    BY <1>a, <2>2 DEF Service!Next
<1>13. ASSUME NEW j \in Jobs, ParseSourceScriptAsync(j) PROVE [Service!Next]_(Service!vars)
  <2>1. At({"parse"})' = At({"parse"}) /\ package' = package
    BY <1>13 DEF ParseSourceScriptAsync, NotifyOne, Waiting, At, TypeOK
  <2>2. Running' = Running
    BY <2>1 DEF Running
  <2>3. /\ j \notin submitted /\ submitted' = submitted \cup {j}
        /\ ~workersStopFlag
        /\ UNCHANGED <<fulfilled, workersStopFlag, workers, aborted>>
    BY <1>13 DEF ParseSourceScriptAsync
  <2>4. JobState[j] = "new" /\ JobState' = [JobState EXCEPT ![j] = "pending"]
    BY <2>2, <2>3 DEF JobState, OnePlace
  <2>5. Service!Accept(j)
    BY <2>3, <2>4 DEF Service!Accept, Service!Move
  <2> QED
    BY <1>a, <2>5 DEF Service!Next
<1>14. ASSUME NEW j \in Jobs, GetAst(j) PROVE [Service!Next]_(Service!vars)
  <2>1. JobState' = JobState
    BY <1>14, SameJobState DEF GetAst, At, TypeOK
  <2> QED
    BY <1>14, <2>1 DEF GetAst, Service!vars
<1>15. ASSUME GetAstReturns PROVE [Service!Next]_(Service!vars)
  <2>1. JobState' = JobState
    BY <1>15, SameJobState DEF GetAstReturns, At, TypeOK
  <2> QED
    BY <1>15, <2>1 DEF GetAstReturns, Service!vars
<1>16. ASSUME StopParsingThreads PROVE [Service!Next]_(Service!vars)
  <2>1. JobState' = JobState
    BY <1>16, SameJobState DEF StopParsingThreads, At, TypeOK
  <2> QED
    BY <1>16, <2>1 DEF StopParsingThreads, Service!vars
<1>17. ASSUME StopSpin PROVE [Service!Next]_(Service!vars)
  <2>1. JobState' = JobState
    BY <1>17, SameJobState DEF StopSpin, At, TypeOK
  <2> QED
    BY <1>17, <2>1 DEF StopSpin, Service!vars
<1>18. ASSUME StopStoreFlag PROVE [Service!Next]_(Service!vars)
  <2>1. JobState' = JobState
    BY <1>18, SameJobState DEF StopStoreFlag, At
  <2>2. workers # {} /\ ~workersStopFlag
    BY <1>18 DEF StopStoreFlag, PhaseInv
  <2>3. Service!Close
    BY <1>18, <2>1, <2>2 DEF StopStoreFlag, Service!Close
  <2> QED
    BY <1>a, <2>3 DEF Service!Next
<1>19. ASSUME StopNotifyAll PROVE [Service!Next]_(Service!vars)
  <2>1. JobState' = JobState
    BY <1>19, SameJobState DEF StopNotifyAll, At, TypeOK
  <2> QED
    BY <1>19, <2>1 DEF StopNotifyAll, Service!vars
<1>20. ASSUME StopJoin PROVE [Service!Next]_(Service!vars)
  <2>1. At({"parse"}) = {} /\ At({"parse"})' = {}
    BY <1>20 DEF StopJoin, At, BirthInv, TypeOK
  <2>2. JobState' = JobState
    BY <1>20, <2>1, SameJobState DEF StopJoin
  <2>3. \A j \in Jobs : JobState[j] # "running"
    BY <2>1 DEF JobState, Running
  <2>4. workers # {} /\ workersStopFlag
    BY <1>20 DEF StopJoin, PhaseInv
  <2>5. Service!Down
    BY <1>20, <2>2, <2>3, <2>4 DEF StopJoin, Service!Down
  <2> QED
    BY <1>a, <2>5 DEF Service!Next
<1> QED
  BY <1>1, <1>2, <1>3, <1>4, <1>5, <1>6, <1>7, <1>8, <1>9, <1>10, <1>11, <1>12, <1>13, <1>14, <1>15, <1>16, <1>17, <1>18, <1>19, <1>20 DEF Next, MainCall, MainStep, WorkerStep

\* The pool implements the service its callers rely on, as far as safety goes.
THEOREM PoolImplementsService == SafeSpec => ImplementsServiceSafety
<1>1. IInv /\ [Next]_vars => [Service!Next]_(Service!vars)
  <2>1. UNCHANGED vars => UNCHANGED Service!vars
    BY DEF vars, poolVars, mainVars, Service!vars, JobState, Running, At
  <2> QED
    BY <2>1, NextImplements
<1> QED
  BY InitImplements, <1>1, PoolInvariant, PTL DEF SafeSpec, Service!SafeSpec, ImplementsServiceSafety
=============================================================================
