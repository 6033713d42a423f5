--------------------------- MODULE PlanExecution ---------------------------
(***************************************************************************)
(* What executing a plan promises, without groups, walks, statuses of      *)
(* groups or a thread pool: every task of the plan is attempted at most    *)
(* once and only after everything before it has succeeded, and a verdict   *)
(* is given when no task is under way and none can ever start.             *)
(***************************************************************************)
CONSTANTS
  Tasks,   \* the leaves of the plan
  Before   \* for each task, all tasks that have to succeed first, directly or not

VARIABLES
  progress,  \* how far each task is
  verdict    \* the outcome reported for the plan

Init ==
  /\ progress = [t \in Tasks |-> "waiting"]
  /\ verdict = "none"

(* A task starts when everything before it has succeeded.                   *)
Start(t) ==
  /\ verdict = "none"
  /\ progress[t] = "waiting"
  /\ \A b \in Before[t] : progress[b] = "succeeded"
  /\ progress' = [progress EXCEPT ![t] = "underway"]
  /\ UNCHANGED verdict

End(t) ==
  /\ progress[t] = "underway"
  /\ \E p \in {"succeeded", "failed"} : progress' = [progress EXCEPT ![t] = p]
  /\ UNCHANGED verdict

(* The verdict: nothing is under way and what waits is behind a failure.    *)
Conclude ==
  /\ verdict = "none"
  /\ \A t \in Tasks : progress[t] # "underway"
  /\ \A t \in Tasks : progress[t] = "waiting" =>
       \E b \in Before[t] : progress[b] = "failed"
  /\ verdict' = IF \A t \in Tasks : progress[t] = "succeeded"
                THEN "succeeded" ELSE "failed"
  /\ UNCHANGED progress

Next == Conclude \/ \E t \in Tasks : Start(t) \/ End(t)

Spec == Init /\ [][Next]_<<progress, verdict>>
=============================================================================
