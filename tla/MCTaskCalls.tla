----------------------------- MODULE MCTaskCalls -----------------------------
(* Two local calls and a remote one on a pool of three threads; two remote  *)
(* calls.  The agent may be restarted.                                      *)
EXTENDS TaskCalls

CONSTANTS l1, l2, r1, r2

MixedCalls == {l1, l2, r1}
RemoteCalls == {r1, r2}
MixedEvents == [k \in MixedCalls |->
  CASE k = l1 -> 1 [] k = l2 -> 0 [] k = r1 -> 2]
RemoteEvents == [k \in RemoteCalls |-> 1]
=============================================================================
