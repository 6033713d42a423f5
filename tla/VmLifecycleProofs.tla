-------------------------- MODULE VmLifecycleProofs --------------------------
(***************************************************************************)
(* What holds of attempts, documents and nodes for any number of failures: *)
(* types for any machines, and, when a single machine uses the document,   *)
(* that nodes are known, that deletions delete and that what is recorded   *)
(* as deployed is deployed.                                                *)
(***************************************************************************)
EXTENDS VmLifecycle, SequenceTheorems, TLAPS

-----------------------------------------------------------------------------
(* Types.                                                                   *)

LEMMA LeavesAreSteps ==
  /\ CreateSteps \in Seq(Steps) /\ RecreateSteps \in Seq(Steps)
  /\ DeleteVm \in Seq(Steps) /\ UpdateVm \in Seq(Steps) /\ <<>> \in Seq(Steps)
<1>1. CreateVm \in Seq(Steps) /\ ConfigureVm \in Seq(Steps) /\ DeleteVm \in Seq(Steps)
  BY DEF CreateVm, ConfigureVm, DeleteVm, Steps
<1>2. UpdateVm \in Seq(Steps)
  BY DEF UpdateVm, Steps
<1>3. CreateSteps \in Seq(Steps)
  BY <1>1, ConcatProperties DEF CreateSteps
<1>4. RecreateSteps \in Seq(Steps)
  BY <1>1, <1>3, ConcatProperties DEF RecreateSteps
<1>. QED
  BY <1>1, <1>2, <1>3, <1>4, EmptySeq

LEMMA ShorterPlan ==
  ASSUME NEW p \in Seq(Steps), p # <<>>, NEW l \in Seq(Steps)
  PROVE  Tail(p) \in Seq(Steps) /\ SubSeq(p, Len(l) + 1, Len(p)) \in Seq(Steps)
<1>1. Tail(p) \in Seq(Steps)
  BY HeadTailProperties
<1>2. Len(l) \in Nat /\ Len(p) \in Nat
  BY LenProperties
<1>3. \A i \in Len(l) + 1 .. Len(p) : p[i] \in Steps
  BY <1>2, ElementOfSeq
<1>4. Len(l) + 1 \in Int /\ Len(p) \in Int
  BY <1>2
<1>. QED
  BY <1>1, <1>3, <1>4, SubSeqProperties

LEMMA OneMoreFault ==
  ASSUME faults \in 0 .. MaxFaults, faults' = faults \/ Fault
  PROVE  faults' \in 0 .. MaxFaults
BY LifecycleAssumption DEF Fault

LEMMA FreshNodes == Fresh # {} => NewNode \in Nodes /\ NewNode \notin live
BY DEF NewNode, Fresh

LEMMA WorkerGoesOn ==
  ASSUME NEW v \in Machines, TypeOK, plan[v] # <<>>,
         Done(v) \/ DoneLeaf(v, DeleteVm) \/ Failed(v)
  PROVE  /\ plan' \in [Machines -> Seq(Steps)] /\ failed' \subseteq Machines
         /\ attempt # "none"
<1>1. plan \in [Machines -> Seq(Steps)] /\ failed \subseteq Machines /\ attempt # "none"
  BY DEF TypeOK
<1>2. plan[v] \in Seq(Steps)
  BY <1>1
<1>3. CASE Done(v)
  BY <1>1, <1>2, <1>3, ShorterPlan, LeavesAreSteps DEF Done
<1>4. CASE DoneLeaf(v, DeleteVm)
  BY <1>1, <1>2, <1>4, ShorterPlan, LeavesAreSteps DEF DoneLeaf
<1>5. CASE Failed(v)
  BY <1>1, <1>5, LeavesAreSteps DEF Failed
<1>. QED
  BY <1>1, <1>3, <1>4, <1>5

LEMMA StepTypes ==
  ASSUME NEW v \in Machines, TypeOK, Step(v)
  PROVE  TypeOK'
<1>1. /\ plan[v] # <<>> /\ (Done(v) \/ DoneLeaf(v, DeleteVm) \/ Failed(v))
  BY DEF Step, At, Load, ForgetOld, Forget, Serialize, Save, DatabaseFails, CreateNode,
    ConfigureNode, UpdateNode, Configure, NoIdToDelete, DeleteNode
<1>2. plan' \in [Machines -> Seq(Steps)] /\ failed' \subseteq Machines /\ attempt # "none"
  BY <1>1, WorkerGoesOn
<1>3. faults' \in 0 .. MaxFaults
  <2>1. faults' = faults \/ Fault
    BY DEF Step, Load, ForgetOld, Forget, Serialize, Save, DatabaseFails, CreateNode,
      ConfigureNode, UpdateNode, Configure, NoIdToDelete, DeleteNode, mishaps, Trouble, Harmless
  <2>. QED
    BY <2>1, OneMoreFault DEF TypeOK
<1>4. UNCHANGED <<edited, last, page, attempt>>
  BY DEF Step, Load, ForgetOld, Forget, Serialize, Save, DatabaseFails, CreateNode,
    ConfigureNode, UpdateNode, Configure, NoIdToDelete, DeleteNode, stored
<1>5. live' \subseteq Nodes
  BY FreshNodes DEF TypeOK, Step, Load, ForgetOld, Forget, Serialize, Save, DatabaseFails,
    CreateNode, ConfigureNode, UpdateNode, Configure, NoIdToDelete, DeleteNode
<1>6. doc' \in Ids
  <2>1. doc \in Ids /\ copy[v] \in Ids
    BY DEF TypeOK
  <2>2. doc' = doc \/ doc' = copy[v]
    BY DEF Step, Load, ForgetOld, Forget, Serialize, Save, DatabaseFails, CreateNode,
      ConfigureNode, UpdateNode, Configure, NoIdToDelete, DeleteNode, stored
  <2>. QED
    BY <2>1, <2>2
<1>7. mem' \in Ids /\ before' \in Ids
  <2>1. /\ mem' = mem \/ mem' = [mem EXCEPT ![v] = NoNode]
             \/ \E n \in Nodes : mem' = [mem EXCEPT ![v] = n]
        /\ before' = before \/ before' = [before EXCEPT ![v] = NoNode]
    <3>1. AddVMId(v, NewNode) =>
            mem' = [mem EXCEPT ![v] = NewNode] \/ mem' = [mem EXCEPT ![v] = mem[v]]
      BY DEF AddVMId
    <3>2. [mem EXCEPT ![v] = mem[v]] = mem
      BY DEF TypeOK, Ids
    <3>. QED
      BY <3>1, <3>2, FreshNodes DEF Step, Load, ForgetOld, Forget, Serialize, Save,
        DatabaseFails, CreateNode, ConfigureNode, UpdateNode, Configure, NoIdToDelete, DeleteNode
  <2>2. ASSUME NEW f \in Ids, NEW n \in Nodes \cup {NoNode}
        PROVE  [f EXCEPT ![v] = n] \in Ids
    BY DEF Ids
  <2>3. mem \in Ids /\ before \in Ids
    BY DEF TypeOK
  <2>. QED
    BY <2>1, <2>2, <2>3
<1>8. copy' \in [Machines -> Ids]
  <2>1. /\ copy \in [Machines -> Ids] /\ NoIds \in Ids /\ mem \in Ids
        /\ [doc EXCEPT ![v] = NoNode] \in Ids
    BY DEF TypeOK, Ids, NoIds
  <2>2. \/ copy' = copy \/ copy' = [copy EXCEPT ![v] = NoIds]
        \/ copy' = [copy EXCEPT ![v] = mem]
        \/ copy' = [copy EXCEPT ![v] = [doc EXCEPT ![v] = NoNode]]
    BY DEF Step, Load, ForgetOld, Forget, Serialize, Save, DatabaseFails, CreateNode,
      ConfigureNode, UpdateNode, Configure, NoIdToDelete, DeleteNode
  <2>. QED
    BY <2>1, <2>2
<1>. QED
  BY <1>2, <1>3, <1>4, <1>5, <1>6, <1>7, <1>8 DEF TypeOK

LEMMA NextTypes == TypeOK /\ [Next]_vars => TypeOK'
<1>. SUFFICES ASSUME TypeOK, [Next]_vars PROVE TypeOK'
  OBVIOUS
<1>1. ASSUME NEW type \in Types, NEW steps \in [Machines -> Seq(Steps)], Start(type, steps)
      PROVE  TypeOK'
  <2>1. /\ attempt' = type /\ mem' = doc /\ before' = last.ids /\ plan' = steps /\ failed' = {}
        /\ UNCHANGED <<live, doc, edited, last, copy, page, faults>>
    BY <1>1 DEF Start, stored, mishaps
  <2>2. "none" \notin Types /\ last.ids \in Ids
    BY DEF Types, TypeOK
  <2>. QED
    BY <2>1, <2>2 DEF TypeOK
<1>2. CASE Deploy
  <2>1. [v \in Machines |-> CreateSteps] \in [Machines -> Seq(Steps)]
    BY LeavesAreSteps
  <2>2. \A changed : [v \in Machines |-> IF IsRecreated(v, changed) THEN RecreateSteps
                                          ELSE UpdateVm] \in [Machines -> Seq(Steps)]
    BY LeavesAreSteps
  <2>3. "CREATE" \in Types /\ "UPDATE" \in Types
    BY DEF Types
  <2>4. CASE Start("CREATE", [v \in Machines |-> CreateSteps])
    BY <1>1, <2>1, <2>3, <2>4
  <2>5. ASSUME NEW changed \in SUBSET edited,
               Start("UPDATE", [v \in Machines |-> IF IsRecreated(v, changed) THEN RecreateSteps
                                                   ELSE UpdateVm])
        PROVE  TypeOK'
    BY <1>1, <2>2, <2>3, <2>5
  <2>. QED
    BY <1>2, <2>4, <2>5 DEF Deploy
<1>3. CASE Undeploy
  <2>1. [v \in Machines |-> DeleteVm] \in [Machines -> Seq(Steps)] /\ "DELETE" \in Types
    BY LeavesAreSteps DEF Types
  <2>. QED
    BY <1>1, <1>3, <2>1 DEF Undeploy
<1>4. CASE OpenEditor
  BY <1>4 DEF OpenEditor, workers, stored, mishaps, TypeOK
<1>5. CASE SaveEditor
  BY <1>5, OneMoreFault DEF SaveEditor, workers, Trouble, TypeOK
<1>6. ASSUME NEW v \in Machines, EditMachine(v)
      PROVE  TypeOK'
  BY <1>6 DEF EditMachine, workers, mishaps, TypeOK
<1>7. ASSUME NEW v \in Machines, Step(v)
      PROVE  TypeOK'
  BY <1>7, StepTypes
<1>8. CASE Finish
  <2>1. /\ UNCHANGED <<live, doc, plan, copy, page>>
        /\ \A v \in Machines : plan[v] = <<>>
        /\ attempt' = "none" /\ mem' = NoIds /\ before' = NoIds /\ failed' = {}
        /\ faults' = faults \/ Fault
        /\ edited' = {} \/ edited' = edited
        /\ last' = last \/ last' = [type |-> attempt, ids |-> doc, failed |-> failed]
    BY <1>8 DEF Finish, Trouble
  <2>2. NoIds \in Ids
    BY DEF NoIds, Ids
  <2>3. last' \in [type : Types \cup {"none"}, ids : Ids, failed : SUBSET Machines]
    BY <2>1 DEF TypeOK
  <2>4. faults' \in 0 .. MaxFaults
    BY <2>1, OneMoreFault DEF TypeOK
  <2>. QED
    BY <2>1, <2>2, <2>3, <2>4 DEF TypeOK
<1>9. CASE Crash
  <2>1. /\ UNCHANGED <<live, doc, edited, last, page>>
        /\ plan' = [v \in Machines |-> <<>>] /\ copy' = [v \in Machines |-> NoIds]
        /\ attempt' = "none" /\ mem' = NoIds /\ before' = NoIds /\ failed' = {}
        /\ Fault
    BY <1>9 DEF Crash, Trouble, stored
  <2>2. NoIds \in Ids /\ <<>> \in Seq(Steps)
    BY LeavesAreSteps DEF NoIds, Ids
  <2>3. faults' \in 0 .. MaxFaults
    BY <2>1, OneMoreFault DEF TypeOK
  <2>. QED
    BY <2>1, <2>2, <2>3 DEF TypeOK
<1>10. CASE UNCHANGED vars
  BY <1>10 DEF vars, workers, stored, mishaps, TypeOK
<1>. QED
  BY <1>2, <1>3, <1>4, <1>5, <1>6, <1>7, <1>8, <1>9, <1>10 DEF Next

LEMMA InitTypes == Init => TypeOK
<1>. SUFFICES ASSUME Init PROVE TypeOK
  OBVIOUS
<1>1. NoIds \in Ids
  BY DEF NoIds, Ids
<1>2. plan \in [Machines -> Seq(Steps)] /\ copy \in [Machines -> Ids]
  BY <1>1, LeavesAreSteps DEF Init
<1>. QED
  BY <1>1, <1>2, LifecycleAssumption DEF Init, TypeOK, Types

(* The variables keep their types, and workers belong to an attempt, for    *)
(* any number of machines and of failures.                                  *)
THEOREM TypeCorrect == Spec => []TypeOK
BY InitTypes, NextTypes, PTL DEF Spec

-----------------------------------------------------------------------------
(* What is left of the steps of a machine that is created again, and of one *)
(* that is deleted, when so many of them have still to be taken.            *)

Rest(k) == SubSeq(RecreateSteps, 14 - k, 13)
Deleting4 == DeleteVm
Deleting3 == <<"load", "save", "forgetOld">>
Deleting2 == <<"save", "forgetOld">>
Deleting1 == <<"forgetOld">>

LEMMA RecreateIs ==
  /\ Len(RecreateSteps) = 13 /\ Len(CreateSteps) = 9
  /\ RecreateSteps[1] = "deleteNode" /\ RecreateSteps[2] = "load"
  /\ RecreateSteps[3] = "save" /\ RecreateSteps[4] = "forgetOld"
  /\ RecreateSteps[5] = "load" /\ RecreateSteps[6] = "save" /\ RecreateSteps[7] = "forget"
  /\ RecreateSteps[8] = "createNode" /\ RecreateSteps[9] = "serialize"
  /\ RecreateSteps[10] = "write" /\ RecreateSteps[11] = "configure"
  /\ RecreateSteps[12] = "serialize" /\ RecreateSteps[13] = "write"
  /\ \A i \in 1 .. 9 : RecreateSteps[i + 4] = CreateSteps[i]
<1>1. /\ CreateVm \in Seq(Steps) /\ ConfigureVm \in Seq(Steps) /\ DeleteVm \in Seq(Steps)
      /\ Len(CreateVm) = 6 /\ Len(ConfigureVm) = 3 /\ Len(DeleteVm) = 4
  BY DEF CreateVm, ConfigureVm, DeleteVm, Steps
<1>2. /\ CreateSteps \in Seq(Steps) /\ Len(CreateSteps) = 9
      /\ \A i \in 1 .. 9 : CreateSteps[i] = IF i <= 6 THEN CreateVm[i] ELSE ConfigureVm[i - 6]
  <2>1. /\ CreateSteps \in Seq(Steps) /\ Len(CreateSteps) = Len(CreateVm) + Len(ConfigureVm)
        /\ \A i \in 1 .. Len(CreateVm) + Len(ConfigureVm) : CreateSteps[i] =
             IF i <= Len(CreateVm) THEN CreateVm[i] ELSE ConfigureVm[i - Len(CreateVm)]
    BY <1>1, ConcatProperties, Zenon DEF CreateSteps
  <2>. QED
    BY <1>1, <2>1
<1>3. /\ Len(RecreateSteps) = 13
      /\ \A i \in 1 .. 13 : RecreateSteps[i] = IF i <= 4 THEN DeleteVm[i] ELSE CreateSteps[i - 4]
  <2>1. /\ Len(RecreateSteps) = Len(DeleteVm) + Len(CreateSteps)
        /\ \A i \in 1 .. Len(DeleteVm) + Len(CreateSteps) : RecreateSteps[i] =
             IF i <= Len(DeleteVm) THEN DeleteVm[i] ELSE CreateSteps[i - Len(DeleteVm)]
    BY <1>1, <1>2, ConcatProperties, Zenon DEF RecreateSteps
  <2>. QED
    BY <1>1, <1>2, <2>1
<1>4. \A i \in 1 .. 9 : RecreateSteps[i + 4] = CreateSteps[i]
  <2>. SUFFICES ASSUME NEW i \in 1 .. 9 PROVE RecreateSteps[i + 4] = CreateSteps[i]
    OBVIOUS
  <2>1. i + 4 \in 1 .. 13 /\ ~(i + 4 <= 4) /\ (i + 4) - 4 = i
    OBVIOUS
  <2>. QED
    BY <2>1, <1>3
<1>5. /\ DeleteVm[1] = "deleteNode" /\ DeleteVm[2] = "load" /\ DeleteVm[3] = "save"
      /\ DeleteVm[4] = "forgetOld"
  BY DEF DeleteVm
<1>6. /\ CreateVm[1] = "load" /\ CreateVm[2] = "save" /\ CreateVm[3] = "forget"
      /\ CreateVm[4] = "createNode" /\ CreateVm[5] = "serialize" /\ CreateVm[6] = "write"
  BY DEF CreateVm
<1>7. /\ ConfigureVm[1] = "configure" /\ ConfigureVm[2] = "serialize"
      /\ ConfigureVm[3] = "write"
  BY DEF ConfigureVm
<1>. QED
  BY <1>2, <1>3, <1>4, <1>5, <1>6, <1>7

LEMMA RestOf ==
  /\ Rest(13) = RecreateSteps /\ Rest(9) = CreateSteps /\ Rest(0) = <<>>
  /\ \A k \in 1 .. 13 :
       /\ Rest(k) # <<>> /\ Head(Rest(k)) = RecreateSteps[14 - k]
       /\ Tail(Rest(k)) = Rest(k - 1)
  /\ SubSeq(Rest(13), Len(DeleteVm) + 1, Len(Rest(13))) = Rest(9)
<1>1. RecreateSteps \in Seq(Steps) /\ CreateSteps \in Seq(Steps) /\ Len(DeleteVm) = 4
  BY LeavesAreSteps DEF DeleteVm
<1>7. \A i \in 1 .. 13 : RecreateSteps[i] \in Steps
  BY RecreateIs DEF Steps
<1>2. Rest(13) = RecreateSteps
  BY <1>1, RecreateIs, SubSeqFull DEF Rest
<1>3. Rest(0) = <<>>
  BY SubSeqEmpty DEF Rest
<1>4. Rest(9) = CreateSteps
  <2>1. \A i \in 5 .. 13 : RecreateSteps[i] \in Steps
    BY <1>7
  <2>2. /\ Rest(9) \in Seq(Steps) /\ Len(Rest(9)) = 9
        /\ \A i \in 1 .. 9 : Rest(9)[i] = RecreateSteps[5 + i - 1]
    BY <2>1, SubSeqProperties DEF Rest
  <2>3. \A i \in 1 .. 9 : Rest(9)[i] = CreateSteps[i]
    <3>. SUFFICES ASSUME NEW i \in 1 .. 9 PROVE Rest(9)[i] = CreateSteps[i]
      OBVIOUS
    <3>1. 5 + i - 1 = i + 4
      OBVIOUS
    <3>. QED
      BY <2>2, <3>1, RecreateIs
  <2>. QED
    BY <1>1, <2>2, <2>3, RecreateIs, SeqEqual
<1>5. ASSUME NEW k \in 1 .. 13
      PROVE  /\ Rest(k) # <<>> /\ Head(Rest(k)) = RecreateSteps[14 - k]
             /\ Tail(Rest(k)) = Rest(k - 1)
  <2>1. 14 - k \in 1 .. 13 /\ 13 \in 14 - k .. 13 /\ (14 - k) + 1 = 14 - (k - 1)
    OBVIOUS
  <2>2. Head(Rest(k)) = RecreateSteps[14 - k] /\ Tail(Rest(k)) = Rest(k - 1)
    BY <1>1, <2>1, RecreateIs, HeadTailOfSubSeq DEF Rest
  <2>3. Len(Rest(k)) = k
    <3>1. \A i \in 14 - k .. 13 : RecreateSteps[i] \in Steps
      BY <1>7, <2>1
    <3>2. 14 - k \in Int /\ 13 \in Int /\ 14 - k <= 13 /\ 13 - (14 - k) + 1 = k
      OBVIOUS
    <3>. QED
      BY <3>1, <3>2, SubSeqProperties DEF Rest
  <2>4. Rest(k) # <<>>
    BY <2>3
  <2>. QED
    BY <2>2, <2>4
<1>6. SubSeq(Rest(13), Len(DeleteVm) + 1, Len(Rest(13))) = Rest(9)
  BY <1>1, <1>2, RecreateIs DEF Rest
<1>. QED
  BY <1>2, <1>3, <1>4, <1>5, <1>6

LEMMA DeletingOf ==
  /\ Deleting4 # <<>> /\ Head(Deleting4) = "deleteNode" /\ Tail(Deleting4) = Deleting3
  /\ Deleting3 # <<>> /\ Head(Deleting3) = "load" /\ Tail(Deleting3) = Deleting2
  /\ Deleting2 # <<>> /\ Head(Deleting2) = "save" /\ Tail(Deleting2) = Deleting1
  /\ Deleting1 # <<>> /\ Head(Deleting1) = "forgetOld" /\ Tail(Deleting1) = <<>>
  /\ SubSeq(Deleting4, Len(DeleteVm) + 1, Len(Deleting4)) = <<>>
  /\ UpdateVm # <<>> /\ Head(UpdateVm) = "update" /\ Tail(UpdateVm) = <<>>
<1>1. Len(DeleteVm) = 4
  BY DEF DeleteVm
<1>2. SubSeq(Deleting4, Len(DeleteVm) + 1, Len(Deleting4)) = <<>>
  BY <1>1, SubSeqEmpty DEF Deleting4
<1>3. UpdateVm # <<>> /\ Head(UpdateVm) = "update" /\ Tail(UpdateVm) = <<>>
  BY DEF UpdateVm
<1>4. Deleting4 # <<>> /\ Head(Deleting4) = "deleteNode" /\ Tail(Deleting4) = Deleting3
  BY DEF Deleting4, Deleting3, DeleteVm
<1>5. Deleting3 # <<>> /\ Head(Deleting3) = "load" /\ Tail(Deleting3) = Deleting2
  BY DEF Deleting3, Deleting2
<1>6. Deleting2 # <<>> /\ Head(Deleting2) = "save" /\ Tail(Deleting2) = Deleting1
  BY DEF Deleting2, Deleting1
<1>7. Deleting1 # <<>> /\ Head(Deleting1) = "forgetOld" /\ Tail(Deleting1) = <<>>
  BY DEF Deleting1
<1>. QED
  BY <1>2, <1>3, <1>4, <1>5, <1>6, <1>7

-----------------------------------------------------------------------------
(* One machine: what is known at each point of its plan, unless something   *)
(* happened that the program does not recover from.                         *)

(* k steps are left of a machine that is created, or created again.         *)
Creating(v, k) ==
  /\ attempt \in {"CREATE", "UPDATE"} /\ (k > 9 => attempt = "UPDATE")
  /\ k = 13 => before[v] = doc[v] /\ live \subseteq {doc[v]}
  /\ k \in 6 .. 12 => live = {}
  /\ k \in {11, 8} => copy[v][v] = NoNode
  /\ k \in 4 .. 10 => doc[v] = NoNode
  /\ k = 6 => mem[v] = NoNode
  /\ k \in 1 .. 5 => live = {mem[v]}
  /\ k \in {4, 1} => copy[v][v] = mem[v]
  /\ k \in 1 .. 3 => doc[v] = mem[v]

Deleting(v) ==
  /\ attempt = "DELETE"
  /\ \/ plan[v] = Deleting4 /\ mem[v] = doc[v] /\ live \subseteq {doc[v]}
     \/ plan[v] = Deleting3 /\ live = {}
     \/ plan[v] = Deleting2 /\ live = {} /\ copy[v][v] = NoNode
     \/ plan[v] = Deleting1 /\ live = {} /\ doc[v] = NoNode

Updating(v) ==
  /\ attempt = "UPDATE" /\ plan[v] = UpdateVm
  /\ before[v] = doc[v] /\ live \subseteq {doc[v]}

(* The machine's part of the attempt is over.                               *)
Over(v) ==
  /\ plan[v] = <<>>
  /\ live \subseteq {doc[v]}
  /\ failed = {} => IF attempt = "DELETE" THEN live = {} /\ doc[v] = NoNode
                    ELSE doc[v] \in live

Running(v) ==
  \/ \E k \in 1 .. 13 : plan[v] = Rest(k) /\ Creating(v, k)
  \/ Deleting(v) \/ Updating(v) \/ Over(v)

(* Between attempts.                                                        *)
Settled(v) ==
  /\ last.ids[v] = doc[v] /\ live \subseteq {doc[v]}
  /\ last.type \in {"none", "DELETE"} => live = {} /\ doc[v] = NoNode
  /\ last.type \in {"CREATE", "UPDATE"} /\ last.failed = {} => doc[v] \in live

VInv(v) ==
  /\ TypeOK
  /\ trouble = {} => IF attempt = "none" THEN Settled(v) ELSE Running(v)

(* Which steps are left at each step of a machine that is created again.    *)
LEMMA StepAt ==
  ASSUME NEW k \in 1 .. 13
  PROVE  /\ Head(Rest(k)) = "deleteNode" => k = 13
         /\ Head(Rest(k)) = "load" => k \in {12, 9}
         /\ Head(Rest(k)) = "save" => k \in {11, 8}
         /\ Head(Rest(k)) = "forgetOld" => k = 10
         /\ Head(Rest(k)) = "forget" => k = 7
         /\ Head(Rest(k)) = "createNode" => k = 6
         /\ Head(Rest(k)) = "serialize" => k \in {5, 2}
         /\ Head(Rest(k)) = "write" => k \in {4, 1}
         /\ Head(Rest(k)) = "configure" => k = 3
         /\ Head(Rest(k)) # "update"
<1>1. k \in {1, 2, 3, 4, 5, 6, 7, 8, 9, 10, 11, 12, 13}
  OBVIOUS
<1>2. /\ 14 - 1 = 13 /\ 14 - 2 = 12 /\ 14 - 3 = 11 /\ 14 - 4 = 10 /\ 14 - 5 = 9
      /\ 14 - 6 = 8 /\ 14 - 7 = 7 /\ 14 - 8 = 6 /\ 14 - 9 = 5 /\ 14 - 10 = 4
      /\ 14 - 11 = 3 /\ 14 - 12 = 2 /\ 14 - 13 = 1
  OBVIOUS
<1>3. Head(Rest(k)) = RecreateSteps[14 - k]
  BY RestOf
<1>. QED
  BY <1>1, <1>2, <1>3, RecreateIs

(* The stages of a machine that takes a step.                               *)
InStage(v, k) == Creating(v, k) /\ plan[v] = Rest(k) /\ Tail(plan[v]) = Rest(k - 1)

LEMMA Stage ==
  ASSUME NEW v \in Machines, Running(v), plan[v] # <<>>
  PROVE  /\ Head(plan[v]) = "deleteNode" =>
              \/ InStage(v, 13)
              \/ /\ attempt = "DELETE" /\ mem[v] = doc[v] /\ live \subseteq {doc[v]}
                 /\ plan[v] = Deleting4 /\ Tail(plan[v]) = Deleting3
         /\ Head(plan[v]) = "load" =>
              \/ InStage(v, 12) \/ InStage(v, 9)
              \/ attempt = "DELETE" /\ live = {} /\ Tail(plan[v]) = Deleting2
         /\ Head(plan[v]) = "save" =>
              \/ InStage(v, 11) \/ InStage(v, 8)
              \/ /\ attempt = "DELETE" /\ live = {} /\ copy[v][v] = NoNode
                 /\ Tail(plan[v]) = Deleting1
         /\ Head(plan[v]) = "forgetOld" =>
              \/ InStage(v, 10)
              \/ attempt = "DELETE" /\ live = {} /\ doc[v] = NoNode /\ Tail(plan[v]) = <<>>
         /\ Head(plan[v]) = "forget" => InStage(v, 7)
         /\ Head(plan[v]) = "createNode" => InStage(v, 6)
         /\ Head(plan[v]) = "serialize" => InStage(v, 5) \/ InStage(v, 2)
         /\ Head(plan[v]) = "write" => InStage(v, 4) \/ InStage(v, 1)
         /\ Head(plan[v]) = "configure" => InStage(v, 3)
         /\ Head(plan[v]) = "update" => Updating(v) /\ Tail(plan[v]) = <<>>
<1>1. CASE \E k \in 1 .. 13 : plan[v] = Rest(k) /\ Creating(v, k)
  <2>1. PICK k \in 1 .. 13 : plan[v] = Rest(k) /\ Creating(v, k)
    BY <1>1
  <2>2. InStage(v, k)
    BY <2>1, RestOf DEF InStage
  <2>. HIDE DEF InStage
  <2>. QED
    BY <2>1, <2>2, StepAt
<1>2. CASE Deleting(v)
  <2>1. CASE plan[v] = Deleting4 /\ mem[v] = doc[v] /\ live \subseteq {doc[v]}
    <3>1. Head(plan[v]) = "deleteNode" /\ Tail(plan[v]) = Deleting3
      BY <2>1, DeletingOf
    <3>. QED
      BY <1>2, <2>1, <3>1 DEF Deleting
  <2>2. CASE plan[v] = Deleting3 /\ live = {}
    <3>1. Head(plan[v]) = "load" /\ Tail(plan[v]) = Deleting2
      BY <2>2, DeletingOf
    <3>. QED
      BY <1>2, <2>2, <3>1 DEF Deleting
  <2>3. CASE plan[v] = Deleting2 /\ live = {} /\ copy[v][v] = NoNode
    <3>1. Head(plan[v]) = "save" /\ Tail(plan[v]) = Deleting1
      BY <2>3, DeletingOf
    <3>. QED
      BY <1>2, <2>3, <3>1 DEF Deleting
  <2>4. CASE plan[v] = Deleting1 /\ live = {} /\ doc[v] = NoNode
    <3>1. Head(plan[v]) = "forgetOld" /\ Tail(plan[v]) = <<>>
      BY <2>4, DeletingOf
    <3>. QED
      BY <1>2, <2>4, <3>1 DEF Deleting
  <2>. QED
    BY <1>2, <2>1, <2>2, <2>3, <2>4 DEF Deleting
<1>3. CASE Updating(v)
  <2>1. Head(plan[v]) = "update" /\ Tail(plan[v]) = <<>>
    BY <1>3, DeletingOf DEF Updating
  <2>. QED
    BY <1>3, <2>1
<1>4. CASE Over(v)
  BY <1>4 DEF Over
<1>. QED
  BY <1>1, <1>2, <1>3, <1>4 DEF Running

LEMMA PlanAfter ==
  ASSUME NEW v \in Machines, TypeOK
  PROVE  /\ Done(v) => plan'[v] = Tail(plan[v]) /\ failed' = failed
         /\ Failed(v) => plan'[v] = <<>> /\ failed' # {}
BY DEF TypeOK, Done, Failed

(* A failing step leaves no node but the one in the document.               *)
LEMMA FailedIsOver ==
  ASSUME NEW v \in Machines, TypeOK, Failed(v), UNCHANGED doc,
         live' \subseteq live, live \subseteq {doc[v]}
  PROVE  Running(v)'
<1>1. plan'[v] = <<>> /\ failed' # {}
  BY PlanAfter
<1>. QED
  BY <1>1 DEF Running, Over

(* The next stage of a creation.                                            *)
LEMMA NextStage ==
  ASSUME NEW v \in Machines, TypeOK, Done(v), NEW k \in 2 .. 13, InStage(v, k),
         Creating(v, k - 1)'
  PROVE  Running(v)'
<1>1. plan'[v] = Rest(k - 1)
  BY PlanAfter DEF InStage
<1>2. PICK l \in 1 .. 13 : l = k - 1
  OBVIOUS
<1>3. plan'[v] = Rest(l) /\ Creating(v, l)'
  BY <1>1, <1>2
<1>. QED
  BY <1>3 DEF Running, Rest, RecreateSteps, CreateSteps, CreateVm, ConfigureVm, DeleteVm

LEMMA LoadRuns ==
  ASSUME NEW v \in Machines, TypeOK, Running(v), Load(v)
  PROVE  Running(v)'
<1>1. /\ At(v, {"load"}) /\ Done(v) /\ UNCHANGED <<live, mem, before, attempt, doc>>
      /\ copy' = [copy EXCEPT ![v] = [doc EXCEPT ![v] = NoNode]]
  BY DEF Load, stored
<1>2. copy'[v][v] = NoNode
  BY <1>1 DEF TypeOK, Ids
<1>3. CASE InStage(v, 12)
  <2>1. Creating(v, 12 - 1)'
    BY <1>1, <1>2, <1>3 DEF InStage, Creating
  <2>. QED
    BY <1>1, <1>3, <2>1, NextStage
<1>4. CASE InStage(v, 9)
  <2>1. Creating(v, 9 - 1)'
    BY <1>1, <1>2, <1>4 DEF InStage, Creating
  <2>. QED
    BY <1>1, <1>4, <2>1, NextStage
<1>5. CASE attempt = "DELETE" /\ live = {} /\ Tail(plan[v]) = Deleting2
  <2>1. plan'[v] = Deleting2
    BY <1>1, <1>5, PlanAfter
  <2>. QED
    BY <1>1, <1>2, <1>5, <2>1 DEF Running, Deleting, Deleting2
<1>. QED
  BY <1>1, <1>3, <1>4, <1>5, Stage DEF At

LEMMA SaveRuns ==
  ASSUME NEW v \in Machines, TypeOK, Running(v), Save(v)
  PROVE  Running(v)'
<1>1. /\ At(v, {"save"}) \/ At(v, {"write"})
      /\ Done(v) /\ UNCHANGED <<live, mem, before, attempt>> /\ doc' = copy[v]
  BY DEF Save, At
<1>2. CASE InStage(v, 11)
  <2>1. Creating(v, 11 - 1)'
    BY <1>1, <1>2 DEF InStage, Creating
  <2>. QED
    BY <1>1, <1>2, <2>1, NextStage
<1>3. CASE InStage(v, 8)
  <2>1. Creating(v, 8 - 1)'
    BY <1>1, <1>3 DEF InStage, Creating
  <2>. QED
    BY <1>1, <1>3, <2>1, NextStage
<1>4. CASE /\ attempt = "DELETE" /\ live = {} /\ copy[v][v] = NoNode
           /\ Tail(plan[v]) = Deleting1
  <2>1. plan'[v] = Deleting1
    BY <1>1, <1>4, PlanAfter
  <2>. QED
    BY <1>1, <1>4, <2>1 DEF Running, Deleting, Deleting1
<1>5. CASE InStage(v, 4)
  <2>1. Creating(v, 4 - 1)'
    BY <1>1, <1>5 DEF InStage, Creating
  <2>. QED
    BY <1>1, <1>5, <2>1, NextStage
<1>6. CASE InStage(v, 1)
  <2>1. live = {mem[v]} /\ copy[v][v] = mem[v] /\ attempt # "DELETE"
    BY <1>6 DEF InStage, Creating
  <2>2. plan'[v] = <<>>
    <3>1. Rest(1 - 1) = <<>>
      BY RestOf
    <3>. QED
      BY <1>1, <1>6, <3>1, PlanAfter DEF InStage
  <2>. QED
    BY <1>1, <2>1, <2>2 DEF Running, Over
<1>. QED
  BY <1>1, <1>2, <1>3, <1>4, <1>5, <1>6, Stage DEF At

LEMMA ForgetOldRuns ==
  ASSUME NEW v \in Machines, TypeOK, Running(v), ForgetOld(v)
  PROVE  Running(v)'
<1>1. /\ At(v, {"forgetOld"}) /\ Done(v) /\ UNCHANGED <<live, attempt, copy, doc>>
  BY DEF ForgetOld, stored
<1>2. CASE InStage(v, 10)
  <2>1. Creating(v, 10 - 1)'
    BY <1>1, <1>2 DEF InStage, Creating
  <2>. QED
    BY <1>1, <1>2, <2>1, NextStage
<1>3. CASE attempt = "DELETE" /\ live = {} /\ doc[v] = NoNode /\ Tail(plan[v]) = <<>>
  <2>1. plan'[v] = <<>>
    BY <1>1, <1>3, PlanAfter
  <2>. QED
    BY <1>1, <1>3, <2>1 DEF Running, Over
<1>. QED
  BY <1>1, <1>2, <1>3, Stage DEF At

LEMMA ForgetRuns ==
  ASSUME NEW v \in Machines, TypeOK, Running(v), Forget(v)
  PROVE  Running(v)'
<1>1. /\ Done(v) /\ UNCHANGED <<live, before, attempt, doc, copy>>
      /\ InStage(v, 7) /\ mem' = [mem EXCEPT ![v] = NoNode]
  BY Stage DEF Forget, At, stored
<1>2. mem'[v] = NoNode
  BY <1>1 DEF TypeOK, Ids
<1>3. Creating(v, 7 - 1)'
  BY <1>1, <1>2 DEF InStage, Creating
<1>. QED
  BY <1>1, <1>3, NextStage

LEMMA SerializeRuns ==
  ASSUME NEW v \in Machines, TypeOK, Running(v), Serialize(v)
  PROVE  Running(v)'
<1>1. /\ Done(v) /\ UNCHANGED <<live, mem, before, attempt, doc>>
      /\ InStage(v, 5) \/ InStage(v, 2)
      /\ copy' = [copy EXCEPT ![v] = mem]
  BY Stage DEF Serialize, At, stored
<1>2. copy'[v][v] = mem[v]
  BY <1>1 DEF TypeOK
<1>3. CASE InStage(v, 5)
  <2>1. Creating(v, 5 - 1)'
    BY <1>1, <1>2, <1>3 DEF InStage, Creating
  <2>. QED
    BY <1>1, <1>3, <2>1, NextStage
<1>4. CASE InStage(v, 2)
  <2>1. Creating(v, 2 - 1)'
    BY <1>1, <1>2, <1>4 DEF InStage, Creating
  <2>. QED
    BY <1>1, <1>4, <2>1, NextStage
<1>. QED
  BY <1>1, <1>3, <1>4

LEMMA DatabaseFailsRuns ==
  ASSUME NEW v \in Machines, TypeOK, Running(v), DatabaseFails(v), trouble' = {}
  PROVE  Running(v)'
<1>1. At(v, {"load"}) \/ At(v, {"save"})
  BY DEF DatabaseFails, Trouble, At
<1>2. live = {}
  BY <1>1, Stage DEF At, InStage, Creating
<1>. QED
  BY <1>2, FailedIsOver DEF DatabaseFails, stored

LEMMA CreateNodeRuns ==
  ASSUME NEW v \in Machines, TypeOK, Running(v), CreateNode(v), trouble' = {}
  PROVE  Running(v)'
<1>1. /\ InStage(v, 6) /\ UNCHANGED <<before, attempt, copy, doc>>
  BY Stage DEF CreateNode, At, stored
<1>2. live = {} /\ mem[v] = NoNode /\ doc[v] = NoNode
  BY <1>1 DEF InStage, Creating
<1>3. CASE Fresh # {} /\ live' = live \cup {NewNode} /\ AddVMId(v, NewNode) /\ Done(v)
  <2>1. mem'[v] = NewNode /\ live' = {NewNode}
    BY <1>2, <1>3 DEF AddVMId, TypeOK, Ids
  <2>2. Creating(v, 6 - 1)'
    BY <1>1, <1>2, <2>1 DEF InStage, Creating
  <2>. QED
    BY <1>1, <1>3, <2>2, NextStage
<1>4. CASE Failed(v) /\ UNCHANGED live
  BY <1>1, <1>2, <1>4, FailedIsOver
<1>. QED
  BY <1>3, <1>4 DEF CreateNode, Trouble

LEMMA ConfigureRuns ==
  ASSUME NEW v \in Machines, TypeOK, Running(v), ConfigureNode(v) \/ UpdateNode(v)
  PROVE  Running(v)'
<1>1. UNCHANGED <<live, mem, before, attempt, copy, doc>>
  BY DEF ConfigureNode, UpdateNode, Configure, stored
<1>2. CASE ConfigureNode(v)
  <2>1. InStage(v, 3) /\ (Done(v) \/ Failed(v))
    BY <1>2, Stage DEF ConfigureNode, Configure, At
  <2>2. live = {mem[v]} /\ doc[v] = mem[v]
    BY <2>1 DEF InStage, Creating
  <2>3. Creating(v, 3 - 1)'
    BY <1>1, <2>1 DEF InStage, Creating
  <2>. QED
    BY <1>1, <2>1, <2>2, <2>3, NextStage, FailedIsOver
<1>3. CASE UpdateNode(v)
  <2>1. /\ Updating(v) /\ Tail(plan[v]) = <<>>
        /\ (before[v] \in live /\ Done(v)) \/ Failed(v)
    BY <1>3, Stage DEF UpdateNode, Configure, At
  <2>2. attempt = "UPDATE" /\ before[v] = doc[v] /\ live \subseteq {doc[v]}
    BY <2>1 DEF Updating
  <2>3. CASE before[v] \in live /\ Done(v)
    <3>1. plan'[v] = <<>>
      BY <2>1, <2>3, PlanAfter
    <3>. QED
      BY <1>1, <2>2, <2>3, <3>1 DEF Running, Over
  <2>. QED
    BY <1>1, <2>1, <2>2, <2>3, FailedIsOver
<1>. QED
  BY <1>2, <1>3

LEMMA NoIdToDeleteRuns ==
  ASSUME NEW v \in Machines, TypeOK, Running(v), NoIdToDelete(v)
  PROVE  Running(v)'
<1>1. /\ UNCHANGED <<live, mem, before, attempt, copy, doc, failed>>
      /\ OldId(v) = NoNode /\ At(v, {"deleteNode"})
      /\ plan' = [plan EXCEPT ![v] = SubSeq(@, Len(DeleteVm) + 1, Len(@))]
  BY DEF NoIdToDelete, DoneLeaf, stored
<1>2. plan'[v] = SubSeq(plan[v], Len(DeleteVm) + 1, Len(plan[v]))
  BY <1>1 DEF TypeOK
<1>3. NoNode \notin live
  BY LifecycleAssumption DEF TypeOK
<1>4. CASE InStage(v, 13)
  <2>1. attempt = "UPDATE" /\ before[v] = doc[v] /\ live \subseteq {doc[v]} /\ plan[v] = Rest(13)
    BY <1>4 DEF InStage, Creating
  <2>2. doc[v] = NoNode /\ live = {}
    BY <1>1, <1>3, <2>1 DEF OldId
  <2>3. plan'[v] = Rest(9)
    BY <1>2, <2>1, RestOf
  <2>4. Creating(v, 9)'
    BY <1>1, <2>1, <2>2 DEF Creating
  <2>5. 9 \in 1 .. 13
    OBVIOUS
  <2>. QED
    BY <2>3, <2>4, <2>5 DEF Running, Rest, RecreateSteps, CreateSteps, CreateVm, ConfigureVm,
      DeleteVm
<1>5. CASE /\ attempt = "DELETE" /\ mem[v] = doc[v] /\ live \subseteq {doc[v]}
           /\ plan[v] = Deleting4
  <2>1. doc[v] = NoNode /\ live = {}
    BY <1>1, <1>3, <1>5 DEF OldId
  <2>2. plan'[v] = <<>>
    BY <1>2, <1>5, DeletingOf
  <2>. QED
    BY <1>1, <1>5, <2>1, <2>2 DEF Running, Over
<1>. QED
  BY <1>1, <1>4, <1>5, Stage DEF At

LEMMA DeleteNodeRuns ==
  ASSUME NEW v \in Machines, TypeOK, Running(v), DeleteNode(v), trouble' = {}
  PROVE  Running(v)'
<1>1. /\ UNCHANGED <<mem, before, attempt, copy, doc>> /\ At(v, {"deleteNode"})
      /\ \/ live' = live \ {OldId(v)} /\ Done(v)
         \/ live' \subseteq live /\ Failed(v)
  BY DEF DeleteNode, stored, Trouble
<1>2. CASE InStage(v, 13)
  <2>1. attempt = "UPDATE" /\ before[v] = doc[v] /\ live \subseteq {doc[v]}
    BY <1>2 DEF InStage, Creating
  <2>2. CASE live' = live \ {OldId(v)} /\ Done(v)
    <3>1. live' = {}
      BY <2>1, <2>2 DEF OldId
    <3>2. Creating(v, 13 - 1)'
      BY <1>1, <2>1, <3>1 DEF Creating
    <3>. QED
      BY <1>2, <2>2, <3>2, NextStage
  <2>. QED
    BY <1>1, <2>1, <2>2, FailedIsOver
<1>3. CASE /\ attempt = "DELETE" /\ mem[v] = doc[v] /\ live \subseteq {doc[v]}
           /\ Tail(plan[v]) = Deleting3
  <2>1. CASE live' = live \ {OldId(v)} /\ Done(v)
    <3>1. live' = {} /\ plan'[v] = Deleting3
      BY <1>3, <2>1, PlanAfter DEF OldId
    <3>. QED
      BY <1>1, <1>3, <3>1 DEF Running, Deleting, Deleting3
  <2>. QED
    BY <1>1, <1>3, <2>1, FailedIsOver
<1>. QED
  BY <1>1, <1>2, <1>3, Stage DEF At

LEMMA StepRuns ==
  ASSUME NEW v \in Machines, TypeOK, trouble = {} => Running(v), Step(v), trouble' = {}
  PROVE  Running(v)' /\ attempt' # "none"
<1>1. trouble = {}
  BY DEF Step, Load, ForgetOld, Forget, Serialize, Save, DatabaseFails, CreateNode, ConfigureNode,
    UpdateNode, Configure, NoIdToDelete, DeleteNode, mishaps, Trouble, Harmless
<1>2. Running(v)'
  BY <1>1, LoadRuns, SaveRuns, ForgetOldRuns, ForgetRuns, SerializeRuns, DatabaseFailsRuns,
    CreateNodeRuns, ConfigureRuns, NoIdToDeleteRuns, DeleteNodeRuns DEF Step
<1>3. plan[v] # <<>> /\ attempt' = attempt
  BY DEF Step, At, Load, ForgetOld, Forget, Serialize, Save, DatabaseFails, CreateNode,
    ConfigureNode, UpdateNode, Configure, NoIdToDelete, DeleteNode
<1>. QED
  BY <1>2, <1>3 DEF TypeOK

LEMMA DeployRuns ==
  ASSUME NEW v \in Machines, VInv(v), Deploy \/ Undeploy
  PROVE  VInv(v)'
<1>1. TypeOK'
  BY NextTypes DEF VInv, Next
<1>2. /\ attempt = "none" /\ attempt' \in Types
      /\ mem' = doc /\ before' = last.ids /\ UNCHANGED <<live, doc, last, trouble>>
  BY DEF Deploy, Undeploy, Start, Types, stored, mishaps
<1>3. ASSUME trouble = {}
      PROVE  Running(v)'
  <2>1. Settled(v)
    BY <1>2, <1>3 DEF VInv
  <2>2. CASE attempt' = "CREATE" /\ plan' = [w \in Machines |-> CreateSteps]
                /\ last.type \in {"none", "DELETE"}
    <3>1. plan'[v] = Rest(9)
      BY <2>2, RestOf
    <3>2. Creating(v, 9)'
      BY <1>2, <2>1, <2>2 DEF Creating, Settled
    <3>3. 9 \in 1 .. 13
      OBVIOUS
    <3>. QED
      BY <3>1, <3>2, <3>3 DEF Running, Rest, RecreateSteps, CreateSteps, CreateVm, ConfigureVm,
        DeleteVm
  <2>3. CASE attempt' = "UPDATE" /\ plan'[v] = RecreateSteps
    <3>1. plan'[v] = Rest(13)
      BY <2>3, RestOf
    <3>2. Creating(v, 13)'
      BY <1>2, <2>1, <2>3 DEF Creating, Settled
    <3>3. 13 \in 1 .. 13
      OBVIOUS
    <3>. QED
      BY <3>1, <3>2, <3>3 DEF Running, Rest, RecreateSteps, CreateSteps, CreateVm, ConfigureVm,
        DeleteVm
  <2>4. CASE attempt' = "UPDATE" /\ plan'[v] = UpdateVm
    <3>1. Updating(v)'
      BY <1>2, <2>1, <2>4 DEF Updating, UpdateVm, Settled
    <3>. QED
      BY <3>1 DEF Running
  <2>5. CASE attempt' = "DELETE" /\ plan'[v] = DeleteVm
    <3>1. Deleting(v)'
      BY <1>2, <2>1, <2>5 DEF Deleting, Deleting4, DeleteVm, Settled
    <3>. QED
      BY <3>1 DEF Running
  <2>6. Undeploy => attempt' = "DELETE" /\ plan'[v] = DeleteVm
    BY DEF Undeploy, Start
  <2>7. Deploy => \/ /\ attempt' = "CREATE" /\ plan' = [w \in Machines |-> CreateSteps]
                     /\ last.type \in {"none", "DELETE"}
                  \/ attempt' = "UPDATE" /\ (plan'[v] = RecreateSteps \/ plan'[v] = UpdateVm)
    BY DEF Deploy, Start
  <2>. QED
    BY <2>2, <2>3, <2>4, <2>5, <2>6, <2>7
<1>. QED
  BY <1>1, <1>2, <1>3 DEF VInv, Types

LEMMA FinishSettles ==
  ASSUME NEW v \in Machines, VInv(v), Finish
  PROVE  VInv(v)'
<1>1. TypeOK'
  BY NextTypes DEF VInv, Next
<1>2. ASSUME trouble' = {}
      PROVE  Settled(v)'
  <2>1. /\ attempt # "none" /\ plan[v] = <<>> /\ trouble = {}
        /\ last' = [type |-> attempt, ids |-> doc, failed |-> failed]
        /\ attempt = "DELETE" => failed = {}
        /\ UNCHANGED <<live, doc>>
    BY <1>2 DEF Finish, Trouble
  <2>2. Over(v)
    BY <2>1, RestOf, DeletingOf DEF VInv, Running, Deleting, Updating
  <2>3. last'.type = attempt /\ last'.ids = doc /\ last'.failed = failed
    BY <2>1
  <2>4. attempt \in {"CREATE", "UPDATE", "DELETE"}
    BY <2>1 DEF VInv, TypeOK, Types
  <2>. QED
    BY <2>1, <2>2, <2>3, <2>4 DEF Settled, Over
<1>3. attempt' = "none"
  BY DEF Finish
<1>. QED
  BY <1>1, <1>2, <1>3 DEF VInv

LEMMA OneMachineInvariant ==
  ASSUME NEW v, Machines = {v}
  PROVE  Spec => []VInv(v)
<1>1. v \in Machines
  OBVIOUS
<1>2. Init => VInv(v)
  <2>. SUFFICES ASSUME Init PROVE VInv(v)
    OBVIOUS
  <2>1. TypeOK
    BY InitTypes
  <2>. QED
    BY <1>1, <2>1 DEF VInv, Init, Settled, NoIds
<1>3. VInv(v) /\ [Next]_vars => VInv(v)'
  <2>. SUFFICES ASSUME VInv(v), [Next]_vars PROVE VInv(v)'
    OBVIOUS
  <2>1. TypeOK'
    BY NextTypes DEF VInv
  <2>2. CASE Deploy \/ Undeploy
    BY <1>1, <2>2, DeployRuns
  <2>3. CASE OpenEditor \/ EditMachine(v) \/ UNCHANGED vars
    <3>1. UNCHANGED <<live, workers, doc, last, trouble>>
      BY <2>3 DEF OpenEditor, EditMachine, vars, stored, mishaps
    <3>2. UNCHANGED <<mem, before, attempt, plan, copy, failed>>
      BY <3>1 DEF workers
    <3>3. Settled(v)' <=> Settled(v)
      BY <3>1 DEF Settled
    <3>4. Running(v) => Running(v)'
      BY <3>1, <3>2 DEF Running, Creating, Deleting, Updating, Over, Rest, RecreateSteps,
        CreateSteps, CreateVm, ConfigureVm, DeleteVm, Deleting4, Deleting3, Deleting2, Deleting1,
        UpdateVm
    <3>. QED
      BY <2>1, <3>1, <3>2, <3>3, <3>4 DEF VInv
  <2>4. CASE SaveEditor \/ Crash
    <3>1. trouble' # {}
      BY <2>4 DEF SaveEditor, Crash, Trouble
    <3>. QED
      BY <2>1, <3>1 DEF VInv
  <2>5. CASE Step(v)
    <3>1. plan[v] # <<>>
      BY <2>5 DEF Step, At, Load, ForgetOld, Forget, Serialize, Save, DatabaseFails, CreateNode,
        ConfigureNode, UpdateNode, Configure, NoIdToDelete, DeleteNode
    <3>2. TypeOK /\ (trouble = {} => Running(v))
      BY <1>1, <3>1 DEF VInv, TypeOK
    <3>. QED
      BY <1>1, <2>1, <2>5, <3>2, StepRuns DEF VInv
  <2>6. CASE Finish
    BY <1>1, <2>6, FinishSettles
  <2>. QED
    BY <2>2, <2>3, <2>4, <2>5, <2>6 DEF Next
<1>. QED
  BY <1>2, <1>3, PTL DEF Spec

-----------------------------------------------------------------------------
(* The theorems are about a document that one machine uses; two_machines    *)
(* shows what two workers can do to it.                                     *)
OneMachineOnly == \E v : Machines = {v}

LEMMA WhatIsKnown ==
  ASSUME NEW v, Machines = {v}, VInv(v)
  PROVE  KnownNodes /\ AllDeleted /\ DeployedIsTrue
<1>. SUFFICES ASSUME trouble = {} PROVE KnownNodes /\ AllDeleted /\ DeployedIsTrue
  BY DEF KnownNodes, AllDeleted, DeployedIsTrue
<1>1. CASE attempt = "none"
  <2>1. Settled(v)
    BY <1>1 DEF VInv
  <2>2. KnownNodes
    BY <1>1, <2>1 DEF KnownNodes, Settled
  <2>3. last.type = "DELETE" => live = {} /\ doc = NoIds
    BY <2>1 DEF Settled, VInv, TypeOK, Ids, NoIds
  <2>4. IsDeployed => Recorded
    BY <2>1 DEF Settled, IsDeployed, Recorded
  <2>. QED
    BY <2>2, <2>3, <2>4 DEF AllDeleted, DeployedIsTrue
<1>2. CASE attempt # "none"
  <2>1. Running(v)
    BY <1>2 DEF VInv
  <2>2. live \subseteq {doc[v], mem[v]}
    <3>1. CASE \E k \in 1 .. 13 : Creating(v, k)
      BY <3>1 DEF Creating
    <3>2. CASE Deleting(v) \/ Updating(v) \/ Over(v)
      BY <3>2 DEF Deleting, Updating, Over
    <3>. QED
      BY <2>1, <3>1, <3>2 DEF Running
  <2>. QED
    BY <1>2, <2>2 DEF KnownNodes, AllDeleted, DeployedIsTrue, IsDeployed
<1>. QED
  BY <1>1, <1>2

(* VmActions leaves no node at the provider whose id is in no document,     *)
(* whatever fails that the program recovers from.                           *)
THEOREM NodesAreKnown ==
  ASSUME OneMachineOnly
  PROVE  Spec => []KnownNodes
<1>1. PICK v : Machines = {v}
  BY DEF OneMachineOnly
<1>2. VInv(v) => KnownNodes
  BY <1>1, WhatIsKnown
<1>3. Spec => []VInv(v)
  BY <1>1, OneMachineInvariant
<1>. QED
  BY <1>2, <1>3, PTL

(* A deletion that ApplicationDeploymentService records as successful has   *)
(* deleted the node and its id.                                             *)
THEOREM DeletionsDelete ==
  ASSUME OneMachineOnly
  PROVE  Spec => []AllDeleted
<1>1. PICK v : Machines = {v}
  BY DEF OneMachineOnly
<1>2. VInv(v) => AllDeleted
  BY <1>1, WhatIsKnown
<1>3. Spec => []VInv(v)
  BY <1>1, OneMachineInvariant
<1>. QED
  BY <1>2, <1>3, PTL

(* When isDeployed says that the application is deployed its document has   *)
(* the id of an existing node.                                              *)
THEOREM DeployedHasNodes ==
  ASSUME OneMachineOnly
  PROVE  Spec => []DeployedIsTrue
<1>1. PICK v : Machines = {v}
  BY DEF OneMachineOnly
<1>2. VInv(v) => DeployedIsTrue
  BY <1>1, WhatIsKnown
<1>3. Spec => []VInv(v)
  BY <1>1, OneMachineInvariant
<1>. QED
  BY <1>2, <1>3, PTL
=============================================================================
