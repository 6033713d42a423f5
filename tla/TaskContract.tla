---------------------------- MODULE TaskContract ----------------------------
(***************************************************************************)
(* What the caller of an asynchronous node operation is promised, without  *)
(* threads, ids, queues or requests: it hears the events of its own task,  *)
(* in order and without gaps or repetitions, and gets one answer, which is *)
(* the outcome of its own task or an error.  The last events of a task may *)
(* stay unheard, and a task goes on when its caller was told of an error.  *)
(***************************************************************************)
EXTENDS Naturals, Sequences

CONSTANTS
  Calls,
  MaxEvents   \* how many events each task logs at most

VARIABLES
  made,    \* how many events each task has logged
  ended,   \* the tasks that have ended
  heard,   \* the events each caller has heard
  answer   \* "none", "error", or the call whose outcome was returned

vars == <<made, ended, heard, answer>>

Event(k, n) == [of |-> k, no |-> n]
FirstEvents(k, n) == [i \in 1 .. n |-> Event(k, i)]

Init ==
  /\ made = [k \in Calls |-> 0]
  /\ ended = {}
  /\ heard = [k \in Calls |-> <<>>]
  /\ answer = [k \in Calls |-> "none"]

Log(k) ==
  /\ k \notin ended
  /\ made[k] < MaxEvents[k]
  /\ made' = [made EXCEPT ![k] = @ + 1]
  /\ UNCHANGED <<ended, heard, answer>>

End(k) ==
  /\ ended' = ended \cup {k}
  /\ UNCHANGED <<made, heard, answer>>

Hear(k) ==
  /\ answer[k] = "none"
  /\ \E n \in Len(heard[k]) .. made[k] :
       heard' = [heard EXCEPT ![k] = FirstEvents(k, n)]
  /\ UNCHANGED <<made, ended, answer>>

Answer(k) ==
  /\ answer[k] = "none"
  /\ \/ k \in ended /\ answer' = [answer EXCEPT ![k] = k]
     \/ answer' = [answer EXCEPT ![k] = "error"]
  /\ UNCHANGED <<made, ended, heard>>

Next == \E k \in Calls : Log(k) \/ End(k) \/ Hear(k) \/ Answer(k)

Spec == Init /\ [][Next]_vars
=============================================================================
