---------------------------- MODULE VerizonNode ----------------------------
(***************************************************************************)
(* createNode, configureNode and deleteNode of VerizonNodeAPI for one      *)
(* machine.  The cloud answers a request with a task that it carries out   *)
(* later and that may end in ERROR; VerizonNodeAPI waits between its       *)
(* requests, and what it waits for is what this module is about.           *)
(***************************************************************************)

VARIABLES
  vm,      \* the machine: "none", "importing", "deployed", "busy", "gone"
  on,      \* whether it is powered on
  task,    \* the task under way in the cloud, or "none"
  known,   \* whether the deployment has the machine's id
  pc,      \* the statement the operation has come to
  said     \* how the last operation ended

cloud == <<vm, on, task>>
vars == <<vm, on, task, known, pc, said>>

Init ==
  /\ vm = "none" /\ on = FALSE /\ task = "none"
  /\ known = FALSE
  /\ pc = "idle" /\ said = "none"

Go(from, to) == pc = from /\ pc' = to /\ UNCHANGED <<known, said>>
End(from, how) == pc = from /\ pc' = "idle" /\ said' = how

-----------------------------------------------------------------------------
(* The cloud: it imports a new machine, and works on one task of a machine  *)
(* at a time; a machine that is on cannot be removed.                       *)
Deployed ==
  /\ vm = "importing"
  /\ vm' = "deployed"
  /\ UNCHANGED <<on, task, known, pc, said>>

Done ==
  /\ task # "none"
  /\ task = "remove" => ~ on
  /\ vm' = IF task = "remove" THEN "gone" ELSE "deployed"
  /\ on' = CASE task = "powerOn" -> TRUE [] task = "shutdown" -> FALSE [] OTHER -> on
  /\ task' = "none"
  /\ UNCHANGED <<known, pc, said>>

Error ==
  /\ task # "none"
  /\ vm' = "deployed" /\ task' = "none"
  /\ UNCHANGED <<on, known, pc, said>>

(* A request is accepted by a machine that is deployed and has no task, or  *)
(* it is refused, which ends the operation with an exception.               *)
Request(from, what, to) ==
  \/ /\ vm = "deployed"
     /\ vm' = "busy" /\ task' = what
     /\ Go(from, to)
     /\ UNCHANGED on
  \/ End(from, "failed") /\ UNCHANGED <<cloud, known>>

-----------------------------------------------------------------------------
(* waitUntilMachineIsNotReady: until it is DEPLOYED or 1000 seconds are     *)
(* over; of a machine that is gone there is no answer but an exception.     *)
AwaitReady(from, to) ==
  \/ vm \in {"deployed", "importing", "busy"} /\ Go(from, to) /\ UNCHANGED cloud
  \/ vm = "gone" /\ End(from, "failed") /\ UNCHANGED <<cloud, known>>

(* waitUntilTaskNotFinished: retried if a list of two TaskStatus values     *)
(* contains the answer, a TaskType, and so never: the first answer will do, *)
(* whatever the status of the task.                                         *)
AwaitTask(from, to) == Go(from, to) /\ UNCHANGED cloud

(* waitUntilMachineIsPoweredOff: retried while it is not powered on; a      *)
(* machine that is still on ends the wait at once, one that is off makes it *)
(* last for 1000 seconds.                                                   *)
AwaitOff(from, to) ==
  /\ vm # "gone"
  /\ Go(from, to)
  /\ UNCHANGED cloud

If(from, condition, to, otherwise) ==
  Go(from, IF condition THEN to ELSE otherwise) /\ UNCHANGED cloud

-----------------------------------------------------------------------------
CreateNode ==
  /\ ~ known /\ vm = "none"
  /\ End("idle", "created")
  /\ vm' = "importing"
  /\ known' = TRUE
  /\ UNCHANGED <<on, task>>

(* configureNode: a new name, new hardware, for which the machine may have  *)
(* to be off, and power.                                                    *)
BeginConfigure == known /\ Go("idle", "configure") /\ UNCHANGED cloud

Configure ==
  \/ AwaitReady("configure", "name")
  \/ Request("name", "edit", "named")
  \/ Go("name", "hardware") /\ UNCHANGED cloud
  \/ AwaitTask("named", "hardware")
  \/ Go("hardware", "startup") /\ UNCHANGED cloud
  \/ AwaitReady("hardware", "prepare")
  \/ \E needShutdown \in BOOLEAN : If("prepare", needShutdown /\ on, "stop", "resize")
  \/ Request("stop", "shutdown", "stopping")
  \/ AwaitTask("stopping", "stopped")
  \/ AwaitOff("stopped", "resize")
  \/ Request("resize", "edit", "resized")
  \/ AwaitTask("resized", "startup")
  \/ AwaitReady("startup", "start?")
  \/ If("start?", on, "answer", "start")
  \/ Request("start", "powerOn", "starting")
  \/ AwaitTask("starting", "answer")
  \/ End("answer", "configured") /\ UNCHANGED <<cloud, known>>

(* deleteNode, and the "Delete VM" action that forgets the id.              *)
BeginDelete == known /\ Go("idle", "delete") /\ UNCHANGED cloud

Delete ==
  \/ AwaitReady("delete", "off?")
  \/ If("off?", on, "turnOff", "ready?")
  \/ Request("turnOff", "shutdown", "turningOff")
  \/ AwaitTask("turningOff", "turnedOff")
  \/ AwaitOff("turnedOff", "ready?")
  \/ AwaitReady("ready?", "remove")
  \/ Request("remove", "remove", "removing")
  \/ AwaitTask("removing", "log")
  \/ End("log", "deleted") /\ known' = FALSE /\ UNCHANGED cloud

Operation == Configure \/ Delete
Next == Deployed \/ Done \/ Error \/ CreateNode \/ BeginConfigure \/ BeginDelete \/ Operation

(* The cloud ends its tasks, one way or another, and operations go on.      *)
FairSpec ==
  Init /\ [][Next]_vars /\ WF_vars(Deployed) /\ WF_vars(Done \/ Error) /\ WF_vars(Operation)

-----------------------------------------------------------------------------
(* VerizonNodeAPI.java:500 logs "VM <id> deleted" and the deployment        *)
(* forgets the id: the machine is gone then, or at least will be.           *)
DeletedGoes == said = "deleted" ~> vm = "gone"
=============================================================================
