---------------------------- MODULE ParseService ----------------------------
(***************************************************************************)
(* What the callers of ast/parse.hpp rely on, with no thread, lock or      *)
(* condition variable in sight.  A parse job is accepted while the service *)
(* is open, begun by the service while it is live, and finished once.      *)
(* Closing does not finish the jobs that were accepted and never begun:    *)
(* they stay pending, and a later reopening may begin them.                *)
(***************************************************************************)
CONSTANT Jobs

VARIABLES state,    \* the progress of each job
          open,     \* submissions are accepted
          live,     \* there are threads that serve jobs
          broken    \* the process was terminated by an exception

vars == <<state, open, live, broken>>

States == {"new", "pending", "running", "parsed"}

Init ==
  /\ state = [j \in Jobs |-> "new"]
  /\ open = TRUE
  /\ live = FALSE
  /\ broken = FALSE

\* A job moves on by one state.
Move(j, from, to) ==
  /\ state[j] = from
  /\ state' = [state EXCEPT ![j] = to]
  /\ UNCHANGED <<open, live, broken>>

Open ==
  /\ ~live
  /\ open' = TRUE /\ live' = TRUE
  /\ UNCHANGED <<state, broken>>

Accept(j) == open /\ Move(j, "new", "pending")
Begin(j) == live /\ Move(j, "pending", "running")
Finish(j) == Move(j, "running", "parsed")

Close ==
  /\ live /\ open
  /\ open' = FALSE
  /\ UNCHANGED <<state, live, broken>>

\* The service is down only when nothing is being parsed any more.
Down ==
  /\ live /\ ~open
  /\ \A j \in Jobs : state[j] # "running"
  /\ live' = FALSE
  /\ UNCHANGED <<state, open, broken>>

Break == broken' = TRUE /\ UNCHANGED <<state, open, live>>

Next ==
  /\ ~broken
  /\ \/ Open \/ Close \/ Down \/ Break
     \/ \E j \in Jobs : Accept(j) \/ Begin(j) \/ Finish(j)

\* A live service does not sit on its pending jobs, a begun job ends, and a
\* closed service comes down.
Fairness ==
  /\ WF_vars(~broken /\ \E j \in Jobs : Begin(j))
  /\ \A j \in Jobs : WF_vars(~broken /\ Finish(j))
  /\ WF_vars(~broken /\ Down)

SafeSpec == Init /\ [][Next]_vars
Spec == SafeSpec /\ Fairness
=============================================================================
