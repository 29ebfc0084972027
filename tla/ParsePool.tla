------------------------------ MODULE ParsePool ------------------------------
(***************************************************************************)
(* The pool of parsing threads of src/ast/parse.cpp: the worker threads,   *)
(* the mutex and condition variable they share with the main thread, the   *)
(* stack of work packages, the stop flag and the counter of started        *)
(* workers.  The main thread is the most general caller of parse.hpp: any  *)
(* sequence of calls that respects what the functions assert.  A package   *)
(* is named by the job it carries; parsing itself is a step.               *)
(***************************************************************************)
EXTENDS Naturals, Sequences, FiniteSets

CONSTANTS
  Workers,     \* the worker threads, workersCount() of them
  First,       \* the one startParsingThreads creates; it creates the others
  Jobs,        \* the scripts handed to parseSourceScriptAsync
  None,        \* nobody: a free mutex, a worker without a package
  MaxStarts    \* bound: calls of startParsingThreads in a behaviour

ASSUME PoolAssumption ==
  /\ IsFiniteSet(Workers)
  /\ First \in Workers
  /\ None \notin Workers \cup Jobs
  /\ MaxStarts \in Nat

VARIABLES
  workersStarted,    \* atomic_int
  workersStopFlag,   \* atomic_bool
  workers,           \* the threads in the vector, joinable
  workQueue,         \* packages, taken from the back
  holder,            \* the worker inside condvar_mutex, or None
  pc,                \* where each worker thread is
  package,           \* the package each worker moved out of the queue
  fulfilled,         \* jobs whose promise has its value
  submitted,         \* jobs handed to parseSourceScriptAsync
  mainPc,            \* where the main thread is
  awaited,           \* the job whose future the main thread waits for
  starts,            \* calls of startParsingThreads so far
  aborted            \* an exception left a thread: std::terminate

poolVars == <<workersStarted, workersStopFlag, workers, workQueue, holder, pc,
              package, fulfilled>>
mainVars == <<submitted, mainPc, awaited, starts>>
vars == <<poolVars, mainVars, aborted>>

------------------------------------------------------------------------------
(* A worker's program counter                                               *)
(*   unborn   not created                finished  returned, not joined      *)
(*   prepare  First, before it spawns    init      compiles Babel            *)
(*   enter    wants the mutex, not yet counted in workersStarted             *)
(*   loop     holds the mutex, at the while condition                        *)
(*   queue    holds the mutex, saw no stop flag                              *)
(*   waiting  inside condvar.wait        parse     has a package, no mutex   *)
(*   relock   wants the mutex again      leave     holds it, saw stop flag   *)
Holding == {"loop", "queue", "leave"}
InLoop == Holding \cup {"waiting", "relock", "parse"}
PCs == InLoop \cup {"unborn", "prepare", "init", "enter", "finished"}

MainPCs == {"idle", "get", "spin", "flag", "notify", "join"}

At(l) == {w \in Workers : pc[w] \in l}
Waiting == At({"waiting"})
\* Workers that will look at the queue before they do anything else.
Ready == At({"prepare", "init", "enter", "relock", "loop", "queue"})
Queued == {workQueue[i] : i \in DOMAIN workQueue}
Running == {package[w] : w \in At({"parse"})}

Init ==
  /\ workersStarted = 0
  /\ workersStopFlag = FALSE
  /\ workers = {}
  /\ workQueue = <<>>
  /\ holder = None
  /\ pc = [w \in Workers |-> "unborn"]
  /\ package = [w \in Workers |-> None]
  /\ fulfilled = {}
  /\ submitted = {}
  /\ mainPc = "idle"
  /\ awaited = None
  /\ starts = 0
  /\ aborted = FALSE

------------------------------------------------------------------------------
(* The worker threads *)

Goto(w, l) == pc' = [pc EXCEPT ![w] = l]

(* Slips of this code that the checks below are tested against: each stands *)
(* in for the action or helper it is named after.                           *)

TakePackageWrongEnd(w) ==    \* back() is moved out, the front is popped
  /\ pc[w] = "queue" /\ workQueue # <<>>
  /\ package' = [package EXCEPT ![w] = workQueue[Len(workQueue)]]
  /\ workQueue' = Tail(workQueue)
  /\ holder' = None
  /\ Goto(w, "parse")
  /\ UNCHANGED <<workersStarted, workersStopFlag, workers, fulfilled,
                 mainVars, aborted>>

TakePackageNoPop(w) ==       \* pop_back() is forgotten
  /\ pc[w] = "queue" /\ workQueue # <<>>
  /\ package' = [package EXCEPT ![w] = workQueue[Len(workQueue)]]
  /\ holder' = None
  /\ Goto(w, "parse")
  /\ UNCHANGED <<workersStarted, workersStopFlag, workers, workQueue, fulfilled,
                 mainVars, aborted>>

TakePackageNothing(w) ==     \* the emptiness of the queue is not checked
  /\ pc[w] = "queue"
  /\ package' = [package EXCEPT ![w] = IF workQueue = <<>> THEN None
                                       ELSE workQueue[Len(workQueue)]]
  /\ workQueue' = SubSeq(workQueue, 1, Len(workQueue) - 1)
  /\ holder' = None
  /\ Goto(w, "parse")
  /\ UNCHANGED <<workersStarted, workersStopFlag, workers, fulfilled,
                 mainVars, aborted>>

NotifyOneForgotten == UNCHANGED pc

StopSpinForOne ==            \* the spin waits for any worker, not for all
  /\ mainPc = "spin" /\ workersStarted > 0
  /\ mainPc' = "flag"
  /\ UNCHANGED <<poolVars, submitted, awaited, starts, aborted>>

StopNotifyAllUnlocked ==     \* notify_all without the mutex
  /\ mainPc = "notify"
  /\ pc' = [w \in Workers |-> IF pc[w] = "waiting" THEN "relock" ELSE pc[w]]
  /\ mainPc' = "join"
  /\ UNCHANGED <<workersStarted, workersStopFlag, workers, workQueue, holder,
                 package, fulfilled, submitted, awaited, starts, aborted>>

StopNotifyAllAsOne ==        \* notify_one where notify_all is needed
  /\ mainPc = "notify" /\ holder = None
  /\ IF Waiting = {} THEN UNCHANGED pc ELSE \E w \in Waiting : Goto(w, "relock")
  /\ mainPc' = "join"
  /\ UNCHANGED <<workersStarted, workersStopFlag, workers, workQueue, holder,
                 package, fulfilled, submitted, awaited, starts, aborted>>

StopJoinDetached ==          \* the threads are dropped, not joined
  /\ mainPc = "join"
  /\ workers' = {}
  /\ mainPc' = "idle"
  /\ UNCHANGED <<workersStarted, workersStopFlag, workQueue, holder, pc, package,
                 fulfilled, submitted, awaited, starts, aborted>>

GetAstReturnsEarly ==        \* the future is not waited for
  /\ mainPc = "get"
  /\ mainPc' = "idle" /\ awaited' = None
  /\ UNCHANGED <<poolVars, submitted, starts, aborted>>

LeaveLoopUncounted(w) ==     \* workersStarted-- is forgotten
  /\ pc[w] = "leave"
  /\ holder' = None
  /\ Goto(w, "finished")
  /\ UNCHANGED <<workersStarted, workersStopFlag, workers, workQueue, package,
                 fulfilled, mainVars, aborted>>

(* The actions *)

\* prepareOtherThreads, under one lock_guard: the vector gets the other threads.
PrepareOtherThreads(w) ==
  /\ pc[w] = "prepare"
  /\ holder = None
  /\ workers' = Workers
  /\ pc' = [v \in Workers |-> "init"]
  /\ UNCHANGED <<workersStarted, workersStopFlag, workQueue, holder, package,
                 fulfilled, mainVars, aborted>>

\* The isolate and makeBabelObject, outside the mutex.
MakeBabelObject(w) ==
  /\ pc[w] = "init"
  /\ Goto(w, "enter")
  /\ UNCHANGED <<workersStarted, workersStopFlag, workers, workQueue, holder,
                 package, fulfilled, mainVars, aborted>>

\* The first lock of the loop function counts the worker as started.
EnterLoop(w) ==
  /\ pc[w] = "enter"
  /\ holder = None
  /\ holder' = w
  /\ workersStarted' = workersStarted + 1
  /\ Goto(w, "loop")
  /\ UNCHANGED <<workersStopFlag, workers, workQueue, package, fulfilled,
                 mainVars, aborted>>

\* condvar_lock.lock() after a package, or the end of condvar.wait.
Relock(w) ==
  /\ pc[w] = "relock"
  /\ holder = None
  /\ holder' = w
  /\ Goto(w, "loop")
  /\ UNCHANGED <<workersStarted, workersStopFlag, workers, workQueue, package,
                 fulfilled, mainVars, aborted>>

\* The while condition; the flag is atomic and is stored without the mutex.
CheckStopFlag(w) ==
  /\ pc[w] = "loop"
  /\ Goto(w, IF workersStopFlag THEN "leave" ELSE "queue")
  /\ UNCHANGED <<workersStarted, workersStopFlag, workers, workQueue, holder,
                 package, fulfilled, mainVars, aborted>>

\* An empty queue: condvar.wait releases the mutex and sleeps, in one step.
Wait(w) ==
  /\ pc[w] = "queue"
  /\ workQueue = <<>>
  /\ holder' = None
  /\ Goto(w, "waiting")
  /\ UNCHANGED <<workersStarted, workersStopFlag, workers, workQueue, package,
                 fulfilled, mainVars, aborted>>

\* back(), pop_back(), unlock(): the last package submitted is taken first.
TakePackage(w) ==
  /\ pc[w] = "queue"
  /\ workQueue # <<>>
  /\ package' = [package EXCEPT ![w] = workQueue[Len(workQueue)]]
  /\ workQueue' = SubSeq(workQueue, 1, Len(workQueue) - 1)
  /\ holder' = None
  /\ Goto(w, "parse")
  /\ UNCHANGED <<workersStarted, workersStopFlag, workers, fulfilled,
                 mainVars, aborted>>

\* parseSourceScript, importBabylonAst and set_value on the promise.
ParsePackage(w) ==
  /\ pc[w] = "parse"
  /\ fulfilled' = fulfilled \cup {package[w]}
  /\ package' = [package EXCEPT ![w] = None]
  /\ Goto(w, "relock")
  /\ UNCHANGED <<workersStarted, workersStopFlag, workers, workQueue, holder,
                 mainVars, aborted>>

\* Nothing catches what Babel, V8 or the import throws in a worker thread.
Throw(w) ==
  /\ pc[w] \in {"init", "parse"}
  /\ aborted' = TRUE
  /\ UNCHANGED <<poolVars, mainVars>>

\* condvar.wait may return without a notification.
SpuriousWakeup(w) ==
  /\ pc[w] = "waiting"
  /\ Goto(w, "relock")
  /\ UNCHANGED <<workersStarted, workersStopFlag, workers, workQueue, holder,
                 package, fulfilled, mainVars, aborted>>

\* The end of the loop function: the counter goes down, then the mutex is free.
LeaveLoop(w) ==
  /\ pc[w] = "leave"
  /\ workersStarted' = workersStarted - 1
  /\ holder' = None
  /\ Goto(w, "finished")
  /\ UNCHANGED <<workersStopFlag, workers, workQueue, package, fulfilled,
                 mainVars, aborted>>

WorkerStep(w) ==
  \/ PrepareOtherThreads(w) \/ MakeBabelObject(w) \/ EnterLoop(w)
  \/ Relock(w) \/ CheckStopFlag(w) \/ Wait(w) \/ TakePackage(w)
  \/ ParsePackage(w) \/ Throw(w) \/ LeaveLoop(w)

------------------------------------------------------------------------------
(* The main thread *)

\* startParsingThreads, called when no thread of the pool exists.
StartParsingThreads ==
  /\ mainPc = "idle" /\ workers = {} /\ starts < MaxStarts
  /\ holder = None
  /\ workersStopFlag' = FALSE
  /\ workers' = {First}
  /\ Goto(First, "prepare")
  /\ starts' = starts + 1
  /\ UNCHANGED <<workersStarted, workQueue, holder, package, fulfilled,
                 submitted, mainPc, awaited, aborted>>

\* notify_one: some waiting worker, if there is one, leaves the wait set.
NotifyOne ==
  IF Waiting = {} THEN UNCHANGED pc
  ELSE \E w \in Waiting : Goto(w, "relock")

\* parseSourceScriptAsync; its assertion is a guard, its body holds the mutex.
ParseSourceScriptAsync(j) ==
  /\ mainPc = "idle" /\ j \notin submitted
  /\ ~workersStopFlag
  /\ holder = None
  /\ workQueue' = Append(workQueue, j)
  /\ NotifyOne
  /\ submitted' = submitted \cup {j}
  /\ UNCHANGED <<workersStarted, workersStopFlag, workers, holder, package,
                 fulfilled, mainPc, awaited, starts, aborted>>

\* Module::getAst: the main thread blocks on the future.
GetAst(j) ==
  /\ mainPc = "idle" /\ j \in submitted
  /\ mainPc' = "get" /\ awaited' = j
  /\ UNCHANGED <<poolVars, submitted, starts, aborted>>

GetAstReturns ==
  /\ mainPc = "get" /\ awaited \in fulfilled
  /\ mainPc' = "idle" /\ awaited' = None
  /\ UNCHANGED <<poolVars, submitted, starts, aborted>>

\* stopParsingThreads, called on a pool that was started.
StopParsingThreads ==
  /\ mainPc = "idle" /\ workers # {}
  /\ mainPc' = "spin"
  /\ UNCHANGED <<poolVars, submitted, awaited, starts, aborted>>

StopSpin ==
  /\ mainPc = "spin"
  /\ workersStarted = Cardinality(Workers)
  /\ mainPc' = "flag"
  /\ UNCHANGED <<poolVars, submitted, awaited, starts, aborted>>

StopStoreFlag ==
  /\ mainPc = "flag"
  /\ workersStopFlag' = TRUE
  /\ mainPc' = "notify"
  /\ UNCHANGED <<workersStarted, workers, workQueue, holder, pc, package,
                 fulfilled, submitted, awaited, starts, aborted>>

\* notify_all with the mutex held.
StopNotifyAll ==
  /\ mainPc = "notify"
  /\ holder = None
  /\ pc' = [w \in Workers |-> IF pc[w] = "waiting" THEN "relock" ELSE pc[w]]
  /\ mainPc' = "join"
  /\ UNCHANGED <<workersStarted, workersStopFlag, workers, workQueue, holder,
                 package, fulfilled, submitted, awaited, starts, aborted>>

\* The threads of the vector are joined, then the vector is cleared.
StopJoin ==
  /\ mainPc = "join"
  /\ \A w \in workers : pc[w] = "finished"
  /\ workers' = {}
  /\ pc' = [w \in Workers |-> IF w \in workers THEN "unborn" ELSE pc[w]]
  /\ mainPc' = "idle"
  /\ UNCHANGED <<workersStarted, workersStopFlag, workQueue, holder, package,
                 fulfilled, submitted, awaited, starts, aborted>>

\* What the main thread does inside a call once it has made it.
MainStep ==
  GetAstReturns \/ StopSpin \/ StopStoreFlag \/ StopNotifyAll \/ StopJoin

MainCall ==
  \/ StartParsingThreads \/ StopParsingThreads
  \/ \E j \in Jobs : ParseSourceScriptAsync(j) \/ GetAst(j)

Next ==
  /\ ~aborted
  /\ \/ MainCall \/ MainStep
     \/ \E w \in Workers : WorkerStep(w) \/ SpuriousWakeup(w)

SafeSpec == Init /\ [][Next]_vars

\* Every thread keeps running, a parse ends, and the condition variable does
\* not wake up for nothing for ever.  The caller may stop calling at any time.
Fairness ==
  /\ WF_vars(~aborted /\ MainStep)
  /\ \A w \in Workers : WF_vars(~aborted /\ WorkerStep(w))
  /\ <>[][~ \E w \in Workers : SpuriousWakeup(w)]_vars

Spec == SafeSpec /\ Fairness

------------------------------------------------------------------------------
(* Correctness *)

\* Type invariant of the pool's state (the statics of parse.cpp).
TypeOK ==
  /\ workersStarted \in Nat
  /\ workersStopFlag \in BOOLEAN
  /\ workers \subseteq Workers
  /\ workQueue \in Seq(Jobs)
  /\ holder \in Workers \cup {None}
  /\ pc \in [Workers -> PCs]
  /\ package \in [Workers -> Jobs \cup {None}]
  /\ fulfilled \subseteq Jobs
  /\ submitted \subseteq Jobs
  /\ mainPc \in MainPCs
  /\ awaited \in Jobs \cup {None}
  /\ starts \in Nat
  /\ aborted \in BOOLEAN

\* Every package handed in is in exactly one place: once in the queue, in the
\* hands of one worker, or done.  So no promise is set twice, which would throw
\* in the worker and end the process, and none is lost while the pool runs.
OnePlace ==
  /\ \A i, k \in DOMAIN workQueue : workQueue[i] = workQueue[k] => i = k
  /\ \A v, w \in At({"parse"}) : package[v] = package[w] => v = w
  /\ Queued \cap (Running \cup fulfilled) = {}
  /\ Running \cap fulfilled = {}
  /\ submitted = Queued \cup Running \cup fulfilled

\* No worker sleeps on work: while the pool is not stopping, as long as some
\* worker is in condvar.wait there are at least as many others on their way to
\* the queue as there are packages in it (one notify_one per package is enough,
\* although a worker that ends a package may steal the one another was woken for).
NoSleepingOnWork ==
  (~workersStopFlag /\ Waiting # {}) => Len(workQueue) <= Cardinality(Ready)

\* The notify_all of stopParsingThreads is not lost: the flag is stored without
\* the mutex, yet once the joins begin no worker is in condvar.wait or about to
\* enter it.
NoSleeperAtJoin == mainPc = "join" => At({"waiting", "queue"}) = {}

\* While stopParsingThreads joins, no worker takes another package: what is
\* still queued then is dropped, and its promise is not set by this pool.
NoPackageTakenAtJoin == [][mainPc = "join" => workQueue' = workQueue]_vars

\* The counter that stopParsingThreads spins on counts the workers inside the
\* loop, and from the end of the spin to the store of the flag all are inside:
\* none can be created, or can still compile Babel, after notify_all.
StartedWorkersAreInLoop ==
  /\ workersStarted = Cardinality(At(InLoop))
  /\ mainPc \in {"flag", "notify"} => At(InLoop \cup {"finished"}) = Workers

\* When stopParsingThreads has returned no thread of the pool is left, the
\* mutex is free and the counter is back at zero: the pool can be started again.
StoppedPoolIsAtRest ==
  workers = {} => /\ At({"unborn"}) = Workers
                  /\ workersStarted = 0
                  /\ holder = None

\* getAst called on a running pool returns, unless a parse error ends the process.
GetAstReturnsEventually ==
  (mainPc = "get" /\ workers # {}) ~> (mainPc = "idle" \/ aborted)

\* stopParsingThreads returns: neither its spin nor its joins wait for ever
\* ("avoids deadlock in a crash-proof way", the comment on the spin).
StopReturnsEventually == (mainPc = "spin") ~> (mainPc = "idle" \/ aborted)

\* The progress of a job as its caller sees it.
JobState == [j \in Jobs |->
  IF j \in fulfilled THEN "parsed"
  ELSE IF j \in Running THEN "running"
  ELSE IF j \in submitted THEN "pending"
  ELSE "new"]

\* The pool as the service its callers rely on.
Service == INSTANCE ParseService WITH
  state <- JobState, open <- ~workersStopFlag, live <- workers # {}, broken <- aborted

\* Every behaviour of the pool is one of ParseService, safety and liveness.
ImplementsService == Service!Spec

\* The safety part of the same.
ImplementsServiceSafety == Service!SafeSpec
=============================================================================
