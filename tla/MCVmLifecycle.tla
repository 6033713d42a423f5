---------------------------- MODULE MCVmLifecycle ----------------------------
(* One machine with faults; two machines whose workers share the document.  *)
EXTENDS VmLifecycle

CONSTANTS v, w

OneMachine == {v}
TwoMachines == {v, w}
=============================================================================
