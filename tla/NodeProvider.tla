---------------------------- MODULE NodeProvider ----------------------------
(***************************************************************************)
(* What a deployment may rely on when a cloud keeps its nodes: a node it   *)
(* is told of is new and its own, only its own call removes it, and a      *)
(* deletion that is confirmed has happened.                                *)
(***************************************************************************)
CONSTANTS
  Machines,  \* the machines that are deployed
  Nodes,     \* the nodes there may be
  NoNode     \* no node

VARIABLES
  live,   \* the nodes that exist
  held    \* the node that each machine's deployment has been told of

vars == <<live, held>>

Init == live = {} /\ held = [m \in Machines |-> NoNode]

(* A node is new if it neither exists nor is held by any deployment.        *)
New(n) == n \in Nodes \ live /\ \A m \in Machines : held[m] # n

(* createNode answers with a new node.                                      *)
Make(m, n) ==
  /\ held[m] = NoNode
  /\ New(n)
  /\ live' = live \cup {n}
  /\ held' = [held EXCEPT ![m] = n]

(* It fails, but the node has been made.                                    *)
MakeUnanswered(n) ==
  /\ New(n)
  /\ live' = live \cup {n}
  /\ UNCHANGED held

(* deleteNode has removed the node of its machine.                          *)
Remove(m) ==
  /\ held[m] \in live
  /\ live' = live \ {held[m]}
  /\ UNCHANGED held

(* deleteNode returns.                                                      *)
Confirm(m) ==
  /\ held[m] \in Nodes \ live
  /\ held' = [held EXCEPT ![m] = NoNode]
  /\ UNCHANGED live

Next ==
  \/ \E n \in Nodes : MakeUnanswered(n)
  \/ \E m \in Machines : Remove(m) \/ Confirm(m) \/ \E n \in Nodes : Make(m, n)

Spec == Init /\ [][Next]_vars
=============================================================================
