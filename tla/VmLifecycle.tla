----------------------------- MODULE VmLifecycle -----------------------------
(***************************************************************************)
(* Attempts to deploy and to delete an application, and what they leave:   *)
(* nodes at a provider, their ids in the application's document, and the   *)
(* history of attempts that the next one is planned from (VmActions,       *)
(* ApplicationDeploymentService, VMDeployer.getUpdateAction).              *)
(*                                                                         *)
(* A machine's part of a plan is a sequence of steps, the leaves run one   *)
(* after the other; the parts of different machines run concurrently.  A   *)
(* step that fails ends the part of its machine.  Every worker reads and   *)
(* writes the whole document.                                              *)
(***************************************************************************)
EXTENDS Naturals, Sequences, FiniteSets

CONSTANTS
  Machines,   \* the machines of the application
  Nodes,      \* ids a provider may give
  NoNode,     \* no id
  MaxFaults   \* bound: failures, crashes and stale saves

ASSUME LifecycleAssumption == NoNode \notin Nodes /\ MaxFaults \in Nat

VARIABLES
  live,     \* the nodes that exist
  doc,      \* the ids in the application's document
  edited,   \* the machines whose description in it has been changed since
            \* the last attempt
  mem,      \* those in the object the attempt's page has loaded
  before,   \* those in the snapshot of the last attempt
  last,     \* the last attempt in the history
  attempt,  \* the type of the attempt that runs, or "none"
  plan,     \* the steps each machine has still to do
  copy,     \* the document as each worker has loaded or serialized it
  failed,   \* the machines with a leaf that is not SUCCESSFUL
  page,     \* the document as an editor page has loaded it
  faults,   \* what went wrong, counted
  trouble   \* what went wrong that the program does not recover from

workers == <<mem, before, attempt, plan, copy, failed>>
stored == <<doc, edited, last>>
mishaps == <<faults, trouble>>
vars == <<live, workers, stored, page, mishaps>>

Types == {"CREATE", "UPDATE", "DELETE"}
Ids == [Machines -> Nodes \cup {NoNode}]
NoIds == [v \in Machines |-> NoNode]

Init ==
  /\ live = {}
  /\ doc = NoIds /\ mem = NoIds /\ before = NoIds /\ page = NoIds
  /\ last = [type |-> "none", ids |-> NoIds, failed |-> {}]
  /\ edited = {}
  /\ attempt = "none"
  /\ plan = [v \in Machines |-> <<>>]
  /\ copy = [v \in Machines |-> NoIds]
  /\ failed = {}
  /\ faults = 0 /\ trouble = {}

-----------------------------------------------------------------------------
(* The leaves of a machine's plan as their steps.                           *)
ClearBeforeDeleting == <<"load", "save", "forgetOld", "deleteNode">>   \* a deviation
DeleteInMemory == <<"deleteNode", "forgetOld">>   \* a deviation
DeleteVm == <<"deleteNode", "load", "save", "forgetOld">>
CreateVm == <<"load", "save", "forget", "createNode", "serialize", "write">>
ConfigureVm == <<"configure", "serialize", "write">>
UpdateVm == <<"update">>

CreateSteps == CreateVm \o ConfigureVm
RecreateSteps == DeleteVm \o CreateSteps

NeverAgain(v, changed) == v \in changed   \* a deviation: only parameters are compared
(* VMDeployer.getUpdateAction: the machine is deleted and created again if  *)
(* its last attempt failed or its parameters require it.  The actions of    *)
(* the last attempt refer to the document as it is now, and the machine is  *)
(* looked for among them as it was then: the failure of a machine that has  *)
(* changed since is not seen.                                               *)
FailureSeen(v) == v \in last.failed /\ v \notin edited /\ doc[v] = last.ids[v]
IsRecreated(v, changed) == FailureSeen(v) \/ v \in changed

-----------------------------------------------------------------------------
(* The user.                                                                *)

Start(type, steps) ==
  /\ attempt = "none"
  /\ attempt' = type
  /\ mem' = doc
  /\ before' = last.ids
  /\ plan' = steps
  /\ failed' = {}
  /\ UNCHANGED <<live, stored, copy, page, mishaps>>

(* getDeployAction                                                          *)
Deploy ==
  \/ /\ last.type \in {"none", "DELETE"}
     /\ Start("CREATE", [v \in Machines |-> CreateSteps])
  \/ /\ last.type \in {"CREATE", "UPDATE"}
     /\ \E changed \in SUBSET edited :
          Start("UPDATE", [v \in Machines |->
            IF IsRecreated(v, changed) THEN RecreateSteps ELSE UpdateVm])

(* canUndeploy                                                              *)
Undeploy ==
  /\ last.type \in {"CREATE", "UPDATE"}
  /\ Start("DELETE", [v \in Machines |-> DeleteVm])

(* A description is edited; while an attempt runs this is a stale page.     *)
EditMachine(v) ==
  /\ attempt = "none"
  /\ edited' = edited \cup {v}
  /\ UNCHANGED <<live, workers, doc, last, page, mishaps>>

OpenEditor ==
  /\ page # doc
  /\ page' = doc
  /\ UNCHANGED <<live, workers, stored, mishaps>>

Fault == faults < MaxFaults /\ faults' = faults + 1
Trouble(cause) == Fault /\ trouble' = trouble \cup {cause}
Harmless == Fault /\ UNCHANGED trouble

(* The editor writes back the whole document as it was loaded.              *)
SaveEditor ==
  /\ page # doc
  /\ doc' = page
  /\ Trouble("stale page")
  /\ UNCHANGED <<live, workers, edited, last, page>>

-----------------------------------------------------------------------------
(* The steps of a worker.                                                   *)

At(v, steps) == plan[v] # <<>> /\ Head(plan[v]) \in steps
Done(v) == plan' = [plan EXCEPT ![v] = Tail(@)] /\ UNCHANGED failed
DoneLeaf(v, leaf) ==
  /\ plan' = [plan EXCEPT ![v] = SubSeq(@, Len(leaf) + 1, Len(@))]
  /\ UNCHANGED failed
FailedUnnoticed(v) ==   \* a deviation: the leaf is not FAILED
  /\ plan' = [plan EXCEPT ![v] = <<>>]
  /\ UNCHANGED failed
Failed(v) ==
  /\ plan' = [plan EXCEPT ![v] = <<>>]
  /\ failed' = failed \cup {v}

(* The object that a deletion works on.                                     *)
OldId(v) == IF attempt = "UPDATE" THEN before[v] ELSE mem[v]

(* clearVmConstraints: the document is loaded and written back without the  *)
(* machine's id, which is then removed in memory.                           *)
Load(v) ==
  /\ At(v, {"load"})
  /\ copy' = [copy EXCEPT ![v] = [doc EXCEPT ![v] = NoNode]]
  /\ Done(v)
  /\ UNCHANGED <<live, mem, before, attempt, stored, page, mishaps>>

ForgetOld(v) ==
  /\ At(v, {"forgetOld"})
  /\ IF attempt = "UPDATE"
     THEN before' = [before EXCEPT ![v] = NoNode] /\ UNCHANGED mem
     ELSE mem' = [mem EXCEPT ![v] = NoNode] /\ UNCHANGED before
  /\ Done(v)
  /\ UNCHANGED <<live, attempt, copy, stored, page, mishaps>>

Forget(v) ==
  /\ At(v, {"forget"})
  /\ mem' = [mem EXCEPT ![v] = NoNode]
  /\ Done(v)
  /\ UNCHANGED <<live, before, attempt, copy, stored, page, mishaps>>

(* ApplicationDeploymentService.update: the object is serialized and sent.  *)
Serialize(v) ==
  /\ At(v, {"serialize"})
  /\ copy' = [copy EXCEPT ![v] = mem]
  /\ Done(v)
  /\ UNCHANGED <<live, mem, before, attempt, stored, page, mishaps>>

Save(v) ==
  /\ At(v, {"save", "write"})
  /\ doc' = copy[v]
  /\ copy' = [copy EXCEPT ![v] = NoIds]
  /\ Done(v)
  /\ UNCHANGED <<live, mem, before, attempt, edited, last, page, mishaps>>

(* A database call of a worker fails.                                       *)
DatabaseFails(v) ==
  /\ \/ At(v, {"load", "save"}) /\ Harmless
     \/ At(v, {"write"}) /\ Trouble("id not stored")
  /\ Failed(v)
  /\ copy' = [copy EXCEPT ![v] = NoIds]
  /\ UNCHANGED <<live, mem, before, attempt, stored, page>>

Remembered ==
  UNION {{f[v] : v \in Machines} : f \in {doc, mem, before, last.ids, page}}
Fresh == Nodes \ (live \cup Remembered \cup UNION {{copy[w][v] : v \in Machines} : w \in Machines})
NewNode == CHOOSE n \in Fresh : TRUE

(* addVMId does nothing if the object has an id (DeploymentConstraint).     *)
AddVMId(v, n) == mem' = [mem EXCEPT ![v] = IF @ = NoNode THEN n ELSE @]

(* createNode may fail with or without having made the node.                *)
CreateNode(v) ==
  /\ At(v, {"createNode"})
  /\ \/ /\ Fresh # {}
        /\ live' = live \cup {NewNode}
        /\ AddVMId(v, NewNode)
        /\ Done(v)
        /\ UNCHANGED mishaps
     \/ /\ Fresh # {}
        /\ live' = live \cup {NewNode}
        /\ Trouble("node without answer")
        /\ Failed(v)
        /\ UNCHANGED mem
     \/ Harmless /\ Failed(v) /\ UNCHANGED <<live, mem>>
  /\ UNCHANGED <<before, attempt, copy, stored, page>>

(* configureNode of a node that does not exist fails.                       *)
Configure(v, id) ==
  /\ \/ id \in live /\ Done(v) /\ UNCHANGED mishaps
     \/ id \in live /\ Failed(v) /\ Harmless
     \/ id \notin live /\ Failed(v) /\ UNCHANGED mishaps
  /\ UNCHANGED <<live, mem, before, attempt, copy, stored, page>>
ConfigureNode(v) == At(v, {"configure"}) /\ Configure(v, mem[v])
UpdateNode(v) == At(v, {"update"}) /\ Configure(v, before[v])

NoIdToDelete(v) ==
  /\ At(v, {"deleteNode"})
  /\ OldId(v) = NoNode
  /\ DoneLeaf(v, DeleteVm)
  /\ UNCHANGED <<live, mem, before, attempt, copy, stored, page, mishaps>>

(* deleteNode may fail before or after the node is gone, and at Verizon it   *)
(* returns before the removal has run, which may then fail.                 *)
DeleteNode(v) ==
  /\ At(v, {"deleteNode"})
  /\ OldId(v) # NoNode
  /\ \/ live' = live \ {OldId(v)} /\ Done(v) /\ UNCHANGED mishaps
     \/ live' = live \ {OldId(v)} /\ Failed(v) /\ Harmless
     \/ UNCHANGED live /\ Failed(v) /\ Harmless
     \/ UNCHANGED live /\ Done(v) /\ Trouble("deletion not carried out")
  /\ UNCHANGED <<mem, before, attempt, copy, stored, page>>

-----------------------------------------------------------------------------
(* The attempt is over: the document is read again, the attempt is added to *)
(* the history, where a failure to do so is only logged.                    *)
Finish ==
  /\ attempt # "none"
  /\ \A v \in Machines : plan[v] = <<>>
  /\ \/ /\ last' = [type |-> attempt, ids |-> doc, failed |-> failed]
        /\ edited' = {}
        /\ IF attempt = "DELETE" /\ failed # {}
           THEN trouble' = trouble \cup {"deletion failed"}
           ELSE UNCHANGED trouble
        /\ UNCHANGED faults
     \/ Trouble("not recorded") /\ UNCHANGED <<edited, last>>
  /\ attempt' = "none"
  /\ mem' = NoIds /\ before' = NoIds /\ failed' = {}
  /\ UNCHANGED <<live, doc, plan, copy, page>>

CrashAndGoOn ==   \* a deviation: the workers outlive the attempt
  /\ attempt # "none"
  /\ Trouble("crash")
  /\ attempt' = "none" /\ mem' = NoIds /\ before' = NoIds /\ failed' = {}
  /\ UNCHANGED <<live, stored, plan, copy, page>>
(* The server stops: the workers and what they hold are gone.               *)
Crash ==
  /\ attempt # "none"
  /\ Trouble("crash")
  /\ attempt' = "none" /\ mem' = NoIds /\ before' = NoIds /\ failed' = {}
  /\ plan' = [v \in Machines |-> <<>>]
  /\ copy' = [v \in Machines |-> NoIds]
  /\ UNCHANGED <<live, stored, page>>

Step(v) ==
  \/ Load(v) \/ ForgetOld(v) \/ Forget(v) \/ Serialize(v) \/ Save(v)
  \/ DatabaseFails(v)
  \/ CreateNode(v) \/ ConfigureNode(v) \/ UpdateNode(v)
  \/ NoIdToDelete(v) \/ DeleteNode(v)

Next ==
  \/ Deploy \/ Undeploy \/ OpenEditor \/ SaveEditor
  \/ \E v \in Machines : EditMachine(v) \/ Step(v)
  \/ Finish \/ Crash

(* Workers go on, attempts are finished, and the user tries again.          *)
Fairness ==
  /\ \A v \in Machines : WF_vars(Step(v))
  /\ WF_vars(Finish)
  /\ WF_vars(Deploy)

Spec == Init /\ [][Next]_vars
FairSpec == Spec /\ Fairness

-----------------------------------------------------------------------------
(* The types of the variables; a worker belongs to an attempt.              *)
Steps == {"deleteNode", "load", "save", "forgetOld", "forget", "createNode",
          "serialize", "write", "configure", "update"}
TypeOK ==
  /\ live \subseteq Nodes
  /\ {doc, mem, before, page} \subseteq Ids
  /\ last \in [type : Types \cup {"none"}, ids : Ids, failed : SUBSET Machines]
  /\ edited \subseteq Machines
  /\ attempt \in Types \cup {"none"}
  /\ plan \in [Machines -> Seq(Steps)]
  /\ attempt = "none" => \A v \in Machines : plan[v] = <<>>
  /\ copy \in [Machines -> Ids]
  /\ failed \subseteq Machines
  /\ faults \in 0 .. MaxFaults

(* Every node that exists is recorded in the document or in the object of   *)
(* the attempt that runs: nothing is paid for that nobody knows of, though  *)
(* deletions, creations, configurations and database calls may fail.        *)
KnownNodes ==
  trouble = {} =>
    \A n \in live : \E v \in Machines : doc[v] = n \/ (attempt # "none" /\ mem[v] = n)

(* An attempt to delete that is recorded as successful has deleted all      *)
(* nodes and their ids, whatever failed in attempts before.                 *)
AllDeleted ==
  trouble = {} /\ attempt = "none" /\ last.type = "DELETE" /\ last.failed = {} =>
    live = {} /\ doc = NoIds

(* isDeployed: if the last attempt was successful and not a deletion, the   *)
(* document has the id of an existing node for every machine.               *)
IsDeployed ==
  attempt = "none" /\ last.type \in {"CREATE", "UPDATE"} /\ last.failed = {}
Recorded == \A v \in Machines : doc[v] \in live
DeployedIsTrue == trouble = {} /\ IsDeployed => Recorded

(* A user who tries again until the application is deployed succeeds once   *)
(* nothing fails any more and it is no longer edited, whatever failed,      *)
(* crashed or was overwritten, and though a failure before may not be seen. *)
RetryConverges ==
  <>[][edited' \subseteq edited]_edited => []<>(IsDeployed /\ Recorded)
=============================================================================
