----------------------------- MODULE MainProgram -----------------------------
(***************************************************************************)
(* src/main.cpp as the caller of ParsePool: it starts the pool, loads      *)
(* modules (each Module constructor hands in one script) and asks for      *)
(* their ASTs in any order, stops the pool and exits.  Some modules are    *)
(* loaded for their imports only: their ASTs are never asked for.          *)
(***************************************************************************)
EXTENDS ParsePool

VARIABLES
  stage,        \* where main() is
  requested     \* history: the scripts whose AST main has asked for

programVars == <<vars, stage, requested>>

ProgramInit == Init /\ stage = "options" /\ requested = {}

MainStart ==
  /\ stage = "options"
  /\ StartParsingThreads
  /\ stage' = "work"
  /\ UNCHANGED requested

\* ModuleResolver::getModule constructs a module; analyze() needs its AST.
LoadModule(j) ==
  stage = "work" /\ ParseSourceScriptAsync(j) /\ UNCHANGED <<stage, requested>>
NeedAst(j) ==
  /\ stage = "work"
  /\ GetAst(j)
  /\ requested' = requested \cup {j}
  /\ UNCHANGED stage

\* A target that is missing or that V8 cannot compile throws out of main: the
\* process ends in std::terminate, as from a worker (aborted), and exits nowhere.
MainThrows ==
  /\ stage = "work" /\ mainPc = "idle"
  /\ aborted' = TRUE
  /\ UNCHANGED <<poolVars, mainVars, stage, requested>>

Cleanup ==
  /\ stage = "work"
  /\ StopParsingThreads
  /\ stage' = "cleanup"
  /\ UNCHANGED requested

ExitSuccess ==
  /\ stage = "cleanup" /\ mainPc = "idle"
  /\ stage' = "exited"
  /\ UNCHANGED <<vars, requested>>

MainThread ==
  \/ MainStart \/ Cleanup \/ ExitSuccess \/ MainThrows
  \/ \E j \in Jobs : LoadModule(j) \/ NeedAst(j)
  \/ MainStep /\ UNCHANGED <<stage, requested>>

Over == (aborted \/ stage = "exited") /\ UNCHANGED programVars

ProgramNext ==
  \/ Over
  \/ /\ ~aborted
     /\ \/ MainThread
        \/ \E w \in Workers :
             (WorkerStep(w) \/ SpuriousWakeup(w)) /\ UNCHANGED <<stage, requested>>

\* main() runs on, asks for finitely many ASTs, and the pool is fair.
ProgramSpec ==
  /\ ProgramInit /\ [][ProgramNext]_programVars
  /\ WF_programVars(~aborted /\ MainThread)
  /\ \A w \in Workers :
       WF_programVars(~aborted /\ WorkerStep(w) /\ UNCHANGED <<stage, requested>>)
  /\ <>[][~ \E w \in Workers : SpuriousWakeup(w)]_programVars
  /\ <>[][~ \E j \in Jobs : NeedAst(j)]_programVars

\* The program ends: it exits, or an exception ends it.  It never hangs in the
\* middle of a load, nor in its clean-up with packages still in the queue.
Terminates == <>(stage = "exited" \/ aborted)

\* At exit no thread of the pool is left that could use the modules, which are
\* statics about to be destroyed; each AST main asked for it has got; and what
\* nobody asked for was parsed or is still in the queue, never half done.  (An
\* aborted run does not exit: std::terminate destroys no static.)
CleanExit ==
  stage = "exited" => /\ workers = {} /\ At({"unborn"}) = Workers
                      /\ requested \subseteq fulfilled
                      /\ submitted \ fulfilled = Queued
=============================================================================
