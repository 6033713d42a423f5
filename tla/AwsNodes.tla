------------------------------ MODULE AwsNodes ------------------------------
(***************************************************************************)
(* createNode, configureNode and deleteNode of AWSNodeAPI, called for      *)
(* several machines that share a VPC.  Each makes several calls of AWS,    *)
(* any of which may fail with or without having done its work; the         *)
(* deployment then repeats the operation or deletes what it knows of and   *)
(* starts anew, or configures what it had begun to delete, if the          *)
(* description was edited in between.                                      *)
(*                                                                         *)
(* A security group keeps the name its machine had when it was created and *)
(* is found again only as the group of the instance whose name starts with *)
(* the instance's name tag.                                                *)
(*                                                                         *)
(* A deployment forgets its instance here only when deleteNode returned.   *)
(* That a creation after a failed deletion forgets it before is in         *)
(* VmLifecycle.                                                            *)
(***************************************************************************)
EXTENDS Naturals, FiniteSets

CONSTANTS
  Machines,    \* machines of the deployments that share a VPC
  Names,       \* names a machine may have
  NamesOf,     \* those of each machine
  StartsWith,  \* the pairs <<x, y>> of names where x starts with y
  Instances,   \* ids of instances
  None,        \* no instance, machine or name
  Default,     \* the security group that every VPC has
  MaxFaults    \* bound: calls of AWS that fail

ASSUME AwsAssumption ==
  /\ NamesOf \in [Machines -> SUBSET Names]
  /\ \A m, k \in Machines : NamesOf[m] \cap NamesOf[k] # {} => m = k
  /\ StartsWith \subseteq Names \X Names
  /\ \A x \in Names : <<x, x>> \in StartsWith
  /\ None \notin Instances \cup Names \cup Machines
  /\ Default \notin Names
  /\ MaxFaults \in Nat

VARIABLES
  groups,   \* the security groups that the program has made, by name
  inst,     \* the instances with their tags, group and machine
  records,  \* the instance that each name leads to in the DNS
  known,    \* the id in each machine's deployment
  named,    \* the name in each machine's description
  pc,       \* the call of AWS that each machine's operation makes next
  seen,     \* what the operation has read before
  outcome,  \* how the last operation on each machine's instance ended,
            \* or would end if it threw now
  failed,   \* the operations that ended half-way on that instance
  faults,   \* calls that failed, counted
  trouble   \* what happened that no repetition repairs

cloud == <<groups, inst, records>>
callers == <<known, named, pc, seen, outcome, failed>>
mishaps == <<faults, trouble>>
vars == <<cloud, callers, mishaps>>

NoInstance ==
  [state |-> "none", name |-> None, zone |-> FALSE, group |-> Default, for |-> None]
NothingSeen == [name |-> None, zone |-> FALSE, group |-> Default, other |-> Default]

Init ==
  /\ groups = {}
  /\ inst = [n \in Instances |-> NoInstance]
  /\ records = [x \in Names |-> None]
  /\ known = [m \in Machines |-> None]
  /\ named \in [Machines -> Names] /\ \A m \in Machines : named[m] \in NamesOf[m]
  /\ pc = [m \in Machines |-> "idle"]
  /\ seen = [m \in Machines |-> NothingSeen]
  /\ outcome = [m \in Machines |-> "none"]
  /\ failed = [m \in Machines |-> {}]
  /\ faults = 0 /\ trouble = {}

-----------------------------------------------------------------------------
(* What goes wrong: a call fails and leaves nothing behind, or a call fails *)
(* or a legal one succeeds and leaves something that no repetition finds.   *)
Fault == faults < MaxFaults /\ faults' = faults + 1
Harmless == Fault /\ UNCHANGED trouble
Leaving == Fault /\ trouble' = trouble \cup {"left"}
LeftIf(happens) ==
  /\ trouble' = IF happens THEN trouble \cup {"left"} ELSE trouble
  /\ UNCHANGED faults
Smoothly == UNCHANGED mishaps

At(m, call) == pc[m] = call
Go(m, call) == pc' = [pc EXCEPT ![m] = call] /\ UNCHANGED <<known, outcome, failed>>
(* The first call of an operation on an instance.                           *)
Begin(m, call, how) ==
  /\ pc' = [pc EXCEPT ![m] = call]
  /\ outcome' = [outcome EXCEPT ![m] = how]
  /\ UNCHANGED <<known, failed>>
Retag(n, tags) == inst' = [inst EXCEPT ![n] = tags]
Tags(m) == inst[known[m]]
Found(m) == Tags(m).state # "gone"

(* configureNode has changed what the tags say and not yet the record.      *)
Unfinished(m) ==
  \/ pc[m] \in {"zoneTag", "dropRecord"} /\ seen[m].zone /\ seen[m].name # named[m]
  \/ At(m, "makeRecord")
(* The operation returns or throws.                                         *)
HalfDone(m, how) ==
  (IF how = "undeleted" THEN {"deleteNode"} ELSE {}) \cup
  (IF how = "unconfigured" /\ Unfinished(m) THEN {"configureNode"} ELSE {})
End(m, how) ==
  /\ pc' = [pc EXCEPT ![m] = "idle"]
  /\ seen' = [seen EXCEPT ![m] = NothingSeen]
  /\ outcome' = [outcome EXCEPT ![m] = how]
  /\ failed' = [failed EXCEPT ![m] =
       IF how \in {"none", "made"} THEN {} ELSE @ \cup HalfDone(m, how)]
(* AWS keeps a group while an instance is in it, and an instance that is    *)
(* being terminated still is.                                               *)
InUse(g) == \E n \in Instances : inst[n].state \in {"running", "stopping"} /\ inst[n].group = g

(* The user edits the description of a machine; a name is configured, it    *)
(* does not require a new instance.                                         *)
Rename(m) ==
  /\ At(m, "idle")
  /\ \E x \in NamesOf[m] \ {named[m]} : named' = [named EXCEPT ![m] = x]
  /\ UNCHANGED <<cloud, known, pc, seen, outcome, failed, mishaps>>

-----------------------------------------------------------------------------
(* createNode, called when the deployment knows of no instance.             *)

CreateGroup(m) ==
  /\ At(m, "idle") /\ known[m] = None
  /\ named[m] \notin groups
  /\ groups' = groups \cup {named[m]}
  /\ \/ Go(m, "allowSsh") /\ Smoothly
     \/ Leaving /\ UNCHANGED <<known, pc, outcome, failed>>
  /\ UNCHANGED <<inst, records, named, seen>>

AllowSsh(m) ==
  /\ At(m, "allowSsh")
  /\ \/ named[m] \in groups /\ Go(m, "runInstance") /\ Smoothly
     \/ named[m] \notin groups /\ Go(m, "rollback") /\ Smoothly
     \/ Go(m, "rollback") /\ Harmless
  /\ UNCHANGED <<cloud, named, seen>>

(* No id is given out twice.                                                *)
Fresh == {n \in Instances : inst[n].state = "none"}
NewId == CHOOSE n \in Fresh : TRUE
StartedInDefault(m) == [NoInstance EXCEPT !.state = "running", !.for = m]   \* a deviation
Started(m) ==
  [state |-> "running", name |-> None, zone |-> FALSE, group |-> named[m], for |-> m]

(* A group that is not found is looked for again for some minutes.          *)
RunInstance(m) ==
  /\ At(m, "runInstance")
  /\ \/ /\ named[m] \in groups /\ Fresh # {}
        /\ Retag(NewId, Started(m))
        /\ \/ /\ known' = [known EXCEPT ![m] = NewId]
              /\ End(m, "made")
              /\ Smoothly
           \/ Go(m, "rollback") /\ Leaving /\ UNCHANGED seen
     \/ /\ Go(m, "rollback")
        /\ IF named[m] \in groups THEN Harmless ELSE Smoothly
        /\ UNCHANGED <<inst, seen>>
  /\ UNCHANGED <<groups, records, named>>

(* deleteSecurityGroupOnFailure: a failure is only logged.                  *)
Rollback(m) ==
  /\ At(m, "rollback")
  /\ \/ /\ groups' = IF InUse(named[m]) THEN groups ELSE groups \ {named[m]}
        /\ LeftIf(InUse(named[m]))
     \/ UNCHANGED groups /\ Leaving
  /\ End(m, "none")
  /\ UNCHANGED <<inst, records, known, named>>

-----------------------------------------------------------------------------
(* configureNode: the tags are compared as they were before the operation.  *)

(* After any operation, also a deleteNode that threw: if the description    *)
(* was edited since, the attempt that failed is not found, and the machine  *)
(* is updated.                                                              *)
BeginConfigure(m) ==
  /\ At(m, "idle") /\ known[m] # None
  /\ seen' = [seen EXCEPT ![m].name = Tags(m).name, ![m].zone = Tags(m).zone]
  /\ Begin(m, "nameTag", "unconfigured")
  /\ Smoothly
  /\ UNCHANGED <<cloud, named>>

NameTag(m) ==
  /\ At(m, "nameTag") /\ Found(m)
  /\ Retag(known[m], [Tags(m) EXCEPT !.name = named[m]])
  /\ LeftIf(Tags(m).group \in NamesOf[m] /\ <<Tags(m).group, named[m]>> \notin StartsWith)
  /\ Go(m, "zoneTag")
  /\ UNCHANGED <<groups, records, named, seen>>

NeverDropRecord(m) ==   \* a deviation: the old name stays in the DNS
  IF seen[m].zone /\ seen[m].name = named[m] THEN "reply" ELSE "makeRecord"
RegisterOnce(m) ==   \* a deviation: a new name is not registered
  IF seen[m].zone THEN "reply" ELSE "makeRecord"
AfterZoneTag(m) ==
  IF seen[m].name = named[m] /\ seen[m].zone THEN "reply"
  ELSE IF seen[m].zone THEN "dropRecord" ELSE "makeRecord"
ZoneTag(m) ==
  /\ At(m, "zoneTag") /\ Found(m)
  /\ Retag(known[m], [Tags(m) EXCEPT !.zone = TRUE])
  /\ Go(m, AfterZoneTag(m))
  /\ Smoothly
  /\ UNCHANGED <<groups, records, named, seen>>

(* deleteDnsRecord: the record of the name, whatever it leads to.           *)
Unregistered(m) ==
  records' = [x \in Names |-> IF x = seen[m].name THEN None ELSE records[x]]

DropRecord(m) ==
  /\ At(m, "dropRecord")
  /\ Unregistered(m)
  /\ Go(m, "makeRecord")
  /\ Smoothly
  /\ UNCHANGED <<groups, inst, named, seen>>

(* The record is to be created: a name that has one is refused.  That of an *)
(* instance that was terminated before outlives it.                         *)
MakeRecord(m) ==
  /\ At(m, "makeRecord")
  /\ \/ /\ records[named[m]] = None
        /\ records' = [records EXCEPT ![named[m]] = known[m]]
        /\ Go(m, "reply")
        /\ LeftIf(Tags(m).state # "running")
        /\ UNCHANGED seen
     \/ /\ records[named[m]] # None
        /\ End(m, "unconfigured")
        /\ Smoothly
        /\ UNCHANGED <<records, known>>
  /\ UNCHANGED <<groups, inst, named>>

Reply(m) ==
  /\ At(m, "reply") /\ Found(m)
  /\ End(m, "configured")
  /\ Smoothly
  /\ UNCHANGED <<cloud, known, named>>

-----------------------------------------------------------------------------
(* deleteNode: the group goes before the instance, which is put into        *)
(* another one of the VPC, whichever comes first.                           *)

BeginDelete(m) ==
  /\ At(m, "idle") /\ known[m] # None
  /\ seen' = [seen EXCEPT ![m].name = Tags(m).name]
  /\ Begin(m, IF ~Found(m) THEN "confirm"
              ELSE IF Tags(m).zone THEN "unregister" ELSE "findGroup", "undeleted")
  /\ LeftIf(outcome[m] = "made")
  /\ UNCHANGED <<cloud, named>>

(* A failure to remove the record is only logged.                           *)
Unregister(m) ==
  /\ At(m, "unregister")
  /\ \/ Unregistered(m) /\ Smoothly
     \/ UNCHANGED records /\ Leaving
  /\ Go(m, "findGroup")
  /\ UNCHANGED <<groups, inst, named, seen>>

ReturnEarly == "confirm"   \* a deviation: nothing is deleted without a group
LookAgain == "findGroup"   \* a deviation: the group must be found
WithoutGroup == "terminate"
(* getSecurityGroup, and the other groups of the VPC.                       *)
FindGroup(m) ==
  /\ At(m, "findGroup") /\ Found(m)
  /\ LET own == Tags(m).group
     IN IF <<own, Tags(m).name>> \in StartsWith
        THEN /\ \E g \in (groups \cup {Default}) \ {own} :
                  seen' = [seen EXCEPT ![m].group = own, ![m].other = g]
             /\ Go(m, "move")
        ELSE UNCHANGED seen /\ Go(m, WithoutGroup)
  /\ Smoothly
  /\ UNCHANGED <<cloud, named>>

Move(m) ==
  /\ At(m, "move") /\ Found(m)
  /\ IF seen[m].other \in groups \cup {Default}
     THEN /\ Retag(known[m], [Tags(m) EXCEPT !.group = seen[m].other])
          /\ Go(m, "dropGroup")
          /\ UNCHANGED seen
     ELSE End(m, "undeleted") /\ UNCHANGED <<inst, known>>
  /\ Smoothly
  /\ UNCHANGED <<groups, records, named>>

DropGroup(m) ==
  /\ At(m, "dropGroup")
  /\ IF InUse(seen[m].group)
     THEN End(m, "undeleted") /\ UNCHANGED <<groups, known>>
     ELSE groups' = groups \ {seen[m].group} /\ Go(m, "terminate") /\ UNCHANGED seen
  /\ LeftIf(InUse(seen[m].group))
  /\ UNCHANGED <<inst, records, named>>

Terminate(m) ==
  /\ At(m, "terminate") /\ Found(m)
  /\ Retag(known[m], [Tags(m) EXCEPT !.state = "stopping"])
  /\ Go(m, "confirm")
  /\ Smoothly
  /\ UNCHANGED <<groups, records, named, seen>>

ConfirmKept(m) ==   \* a deviation: the id stays in the description
  /\ At(m, "confirm")
  /\ End(m, "none")
  /\ Smoothly
  /\ UNCHANGED <<cloud, known, named>>
Confirm(m) ==
  /\ At(m, "confirm")
  /\ known' = [known EXCEPT ![m] = None]
  /\ End(m, "none")
  /\ Smoothly
  /\ UNCHANGED <<cloud, named>>

-----------------------------------------------------------------------------
Configuring == {"nameTag", "zoneTag", "dropRecord", "makeRecord", "reply"}
Deleting == {"unregister", "findGroup", "move", "dropGroup", "terminate", "confirm"}

(* What is not found again: the group of an instance that has no name tag,  *)
(* the record of its last name, a group that it is no longer in.            *)
Loses(m) ==
  \/ At(m, "nameTag") /\ Tags(m).name = None
  \/ pc[m] \in {"zoneTag", "dropRecord"} /\ seen[m].zone /\ seen[m].name # named[m]
  \/ At(m, "dropGroup")

(* A call of configureNode or deleteNode throws, and with it the operation. *)
CallFails(m) ==
  /\ \/ pc[m] \in Configuring /\ End(m, "unconfigured")
     \/ pc[m] \in Deleting \ {"unregister"} /\ End(m, "undeleted")
  /\ IF Loses(m) THEN Leaving ELSE Harmless
  /\ UNCHANGED <<cloud, known, named>>

(* A call that names an instance which is gone meanwhile throws.            *)
NotFound(m) ==
  /\ known[m] # None /\ ~Found(m)
  /\ \/ pc[m] \in {"nameTag", "zoneTag", "reply"} /\ End(m, "unconfigured")
     \/ pc[m] \in {"findGroup", "move", "terminate"} /\ End(m, "undeleted")
  /\ Smoothly
  /\ UNCHANGED <<cloud, known, named>>

(* An instance that was terminated leaves its group, and later is gone.     *)
Stopped(n) ==
  /\ inst[n].state = "stopping"
  /\ Retag(n, [NoInstance EXCEPT !.state = "gone"])
  /\ UNCHANGED <<groups, records, callers, mishaps>>

Step(m) ==
  \/ AllowSsh(m) \/ RunInstance(m) \/ Rollback(m)
  \/ NameTag(m) \/ ZoneTag(m) \/ DropRecord(m) \/ MakeRecord(m) \/ Reply(m)
  \/ Unregister(m) \/ FindGroup(m) \/ Move(m) \/ DropGroup(m) \/ Terminate(m)
  \/ Confirm(m) \/ NotFound(m)

Next ==
  \/ \E m \in Machines :
       \/ Rename(m) \/ CreateGroup(m) \/ BeginConfigure(m) \/ BeginDelete(m)
       \/ Step(m) \/ CallFails(m)
  \/ \E n \in Instances : Stopped(n)

(* Operations end, AWS terminates what it was told to, and a deletion that  *)
(* failed is repeated.                                                      *)
Fairness ==
  /\ \A m \in Machines :
       WF_vars(Step(m)) /\ WF_vars("deleteNode" \in failed[m] /\ BeginDelete(m))
  /\ \A n \in Instances : WF_vars(Stopped(n))

Spec == Init /\ [][Next]_vars
FairSpec == Spec /\ Fairness

-----------------------------------------------------------------------------
(* The types of the variables; an operation on an instance has one, and an  *)
(* instance that is known has an outcome.                                   *)
Creating == {"allowSsh", "runInstance", "rollback"}
Calls == {"idle"} \cup Creating \cup Configuring \cup Deleting
Outcomes == {"none", "made", "configured", "unconfigured", "undeleted"}
InstanceTags ==
  [state : {"none", "running", "stopping", "gone"}, name : Names \cup {None},
   zone : BOOLEAN, group : Names \cup {Default}, for : Machines \cup {None}]
WhatIsRead ==
  [name : Names \cup {None}, zone : BOOLEAN,
   group : Names \cup {Default}, other : Names \cup {Default}]

TypeOK ==
  /\ groups \subseteq Names
  /\ inst \in [Instances -> InstanceTags]
  /\ records \in [Names -> Instances \cup {None}]
  /\ known \in [Machines -> Instances \cup {None}]
  /\ named \in [Machines -> Names]
  /\ pc \in [Machines -> Calls]
  /\ seen \in [Machines -> WhatIsRead]
  /\ outcome \in [Machines -> Outcomes]
  /\ failed \in [Machines -> SUBSET {"configureNode", "deleteNode"}]
  /\ \A m \in Machines : known[m] = None <=> outcome[m] = "none"
  /\ \A m \in Machines : pc[m] \in Configuring \cup Deleting => known[m] # None
  /\ faults \in 0 .. MaxFaults

(* Until a deployment has begun to delete its instance, the instance runs   *)
(* in a security group of its own machine, which exists and in which no     *)
(* instance of another machine was started: a deletion elsewhere, which     *)
(* moves its instance into whichever group comes first and removes what it  *)
(* takes for its own by a prefix of the name, does not take it away.        *)
Kept(m) ==
  /\ known[m] # None
  /\ "deleteNode" \notin failed[m] /\ pc[m] \notin Deleting
OwnGroup ==
  \A m \in Machines : Kept(m) =>
    /\ Tags(m).state = "running" /\ Tags(m).for = m
    /\ Tags(m).group \in groups \cap NamesOf[m]

(* A machine whose deployment knows of no instance and has no operation     *)
(* under way has left nothing at AWS, whichever calls failed before and     *)
(* whatever was configured or deleted again, unless one of the causes       *)
(* happened that the steps name.                                            *)
NothingLeft ==
  "left" \notin trouble =>
    \A m \in Machines : known[m] = None /\ pc[m] = "idle" =>
      /\ groups \cap NamesOf[m] = {}
      /\ \A x \in NamesOf[m] : records[x] = None
      /\ \A n \in Instances : inst[n].for = m => inst[n].state = "stopping"

(* The name of a machine that was configured leads to its instance, unless  *)
(* a configuration ended before between the tags and the record or a        *)
(* deletion ended half-way: the tags then say what was not done or is       *)
(* undone, and the configuration compares with them.  No name leads to an   *)
(* instance that is not its machine's.                                      *)
RecordsRight ==
  /\ \A m \in Machines :
       outcome[m] = "configured" /\ pc[m] = "idle" /\ failed[m] = {} =>
         records[Tags(m).name] = known[m]
  /\ "left" \notin trouble =>
       \A m \in Machines : \A x \in NamesOf[m] : records[x] \in {None, known[m]}

(* deleteNode and createNode keep what a deployment relies on.              *)
P == INSTANCE NodeProvider WITH
  Nodes <- Instances,
  NoNode <- None,
  live <- {n \in Instances : inst[n].state = "running"},
  held <- known
KeepsProvider == P!Spec

(* A deletion that failed succeeds when it is repeated, once the machine is *)
(* not configured any more and the operations on the other machines of the  *)
(* VPC come to rest.                                                        *)
UndeployConverges ==
  \A m \in Machines :
    <>[](pc[m] \notin Configuring /\ \A k \in Machines \ {m} : pc[k] = "idle") =>
      (outcome[m] = "undeleted" ~> outcome[m] = "none")
=============================================================================
