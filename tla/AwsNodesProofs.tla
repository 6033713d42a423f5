--------------------------- MODULE AwsNodesProofs ---------------------------
(***************************************************************************)
(* What AWSNodeAPI keeps for any number of machines and of failing calls.  *)
(***************************************************************************)
EXTENDS AwsNodes, TLAPS

(* The instance of a machine whose deployment has not begun to delete it.   *)
Own(m) ==
  /\ Tags(m).state = "running" /\ Tags(m).for = m
  /\ Tags(m).group \in groups \cap NamesOf[m]

(* What the operation that runs has established about its own machine.      *)
Sound(m) ==
  /\ named[m] \in NamesOf[m]
  /\ pc[m] \in Creating => known[m] = None
  /\ known[m] # None => Tags(m).state # "none"
  /\ pc[m] = "confirm" => Tags(m).state # "running"
  /\ Kept(m) => Own(m)

(* No two deployments know of the same instance.                            *)
Apart == \A m, k \in Machines : known[m] # None /\ known[m] = known[k] => m = k

IInv == TypeOK /\ Apart /\ \A m \in Machines : Sound(m)

(* What must hold where the operation of a machine goes next.               *)
MayGo(m, call) ==
  /\ call \in Creating => known[m] = None
  /\ call \in Configuring \cup Deleting => known[m] # None
  /\ pc[m] \in Deleting => call \in Deleting
-----------------------------------------------------------------------------
(* What Go, End, Retag and the mishaps do to the types.                     *)

LEMMA GoEffect ==
  ASSUME TypeOK, NEW m \in Machines, NEW call \in Calls, Go(m, call)
  PROVE  /\ pc' \in [Machines -> Calls]
         /\ pc'[m] = call
         /\ \A k \in Machines \ {m} : pc'[k] = pc[k]
         /\ known' = known /\ outcome' = outcome /\ failed' = failed
BY DEF TypeOK, Go

LEMMA BeginEffect ==
  ASSUME TypeOK, NEW m \in Machines, NEW call \in Calls, NEW how \in Outcomes,
         Begin(m, call, how)
  PROVE  /\ pc' \in [Machines -> Calls] /\ outcome' \in [Machines -> Outcomes]
         /\ pc'[m] = call /\ outcome'[m] = how
         /\ \A k \in Machines \ {m} : pc'[k] = pc[k] /\ outcome'[k] = outcome[k]
         /\ known' = known /\ failed' = failed
BY DEF TypeOK, Begin

LEMMA EndEffect ==
  ASSUME TypeOK, NEW m \in Machines, NEW how \in Outcomes, End(m, how)
  PROVE  /\ pc' \in [Machines -> Calls]
         /\ outcome' \in [Machines -> Outcomes]
         /\ seen' \in [Machines -> WhatIsRead]
         /\ failed' \in [Machines -> SUBSET {"configureNode", "deleteNode"}]
         /\ pc'[m] = "idle" /\ outcome'[m] = how
         /\ how \notin {"none", "made"} => failed[m] \subseteq failed'[m]
         /\ how = "undeleted" => "deleteNode" \in failed'[m]
         /\ \A k \in Machines \ {m} :
              pc'[k] = pc[k] /\ outcome'[k] = outcome[k] /\ failed'[k] = failed[k]
<1>1. "idle" \in Calls /\ NothingSeen \in WhatIsRead
  BY DEF Calls, NothingSeen, WhatIsRead
<1>2. HalfDone(m, how) \subseteq {"configureNode", "deleteNode"}
  BY DEF HalfDone
<1>3. how = "undeleted" => "deleteNode" \in HalfDone(m, how)
  BY DEF HalfDone
<1>4. failed' = [failed EXCEPT ![m] =
                   IF how \in {"none", "made"} THEN {} ELSE failed[m] \cup HalfDone(m, how)]
  BY DEF End
<1>. QED
  BY <1>1, <1>2, <1>3, <1>4 DEF TypeOK, End

LEMMA RetagEffect ==
  ASSUME TypeOK, NEW n \in Instances, NEW t \in InstanceTags, Retag(n, t)
  PROVE  /\ inst' \in [Instances -> InstanceTags]
         /\ inst'[n] = t
         /\ \A i \in Instances \ {n} : inst'[i] = inst[i]
BY DEF TypeOK, Retag

LEMMA FaultsCounted ==
  ASSUME TypeOK, Fault \/ UNCHANGED faults
  PROVE  faults' \in 0 .. MaxFaults
BY AwsAssumption DEF TypeOK, Fault

(* A step that leaves a machine, its instance and its group alone.          *)
LEMMA OtherMachine ==
  ASSUME NEW k \in Machines, Sound(k),
         named'[k] = named[k], pc'[k] = pc[k],
         known'[k] = known[k], failed'[k] = failed[k],
         known[k] # None => inst'[known[k]] = inst[known[k]],
         Kept(k) => Tags(k).group \in groups',
         pc[k] = "confirm" => known[k] # None
  PROVE  Sound(k)'
BY DEF Sound, Own, Kept, Tags

(* The group of an instance that is kept is in use.                         *)
LEMMA KeptInUse ==
  ASSUME IInv, NEW k \in Machines, Kept(k)
  PROVE  InUse(Tags(k).group)
BY DEF IInv, TypeOK, Sound, Own, Kept, InUse, Tags

-----------------------------------------------------------------------------
(* Steps of one machine's operation that change nothing at AWS but records. *)

LEMMA QuietKeeps ==
  ASSUME IInv, NEW m \in Machines, TypeOK', Sound(m)',
         UNCHANGED <<groups, inst, known>>,
         \A k \in Machines \ {m} :
           named'[k] = named[k] /\ pc'[k] = pc[k] /\ failed'[k] = failed[k]
  PROVE  IInv'
<1>1. ASSUME NEW k \in Machines, k # m
      PROVE  Sound(k)'
  <2>1. Sound(k) /\ named'[k] = named[k] /\ pc'[k] = pc[k] /\ failed'[k] = failed[k]
    BY <1>1 DEF IInv
  <2>2. Kept(k) => Tags(k).group \in groups'
    BY <2>1 DEF Sound, Own
  <2>3. pc[k] = "confirm" => known[k] # None
    BY DEF IInv, TypeOK, Deleting
  <2>. QED
    BY <2>1, <2>2, <2>3, OtherMachine
<1>2. Apart'
  BY DEF IInv, Apart
<1>. QED
  BY <1>1, <1>2 DEF IInv

LEMMA QuietGo ==
  ASSUME IInv, NEW m \in Machines, NEW call \in Calls,
         Go(m, call), MayGo(m, call),
         call = "confirm" => Tags(m).state # "running",
         UNCHANGED <<groups, inst, named>>,
         records' \in [Names -> Instances \cup {None}],
         seen' \in [Machines -> WhatIsRead],
         Fault \/ UNCHANGED faults
  PROVE  IInv'
<1>1. /\ pc' \in [Machines -> Calls] /\ pc'[m] = call
      /\ \A k \in Machines \ {m} : pc'[k] = pc[k]
      /\ known' = known /\ outcome' = outcome /\ failed' = failed
  BY GoEffect DEF IInv
<1>2. faults' \in 0 .. MaxFaults
  BY FaultsCounted DEF IInv
<1>3. TypeOK'
  BY <1>1, <1>2 DEF IInv, TypeOK, MayGo
<1>4. Sound(m)'
  BY <1>1 DEF IInv, Sound, MayGo, Kept, Own, Tags
<1>. QED
  BY <1>1, <1>3, <1>4, QuietKeeps

LEMMA QuietBegin ==
  ASSUME IInv, NEW m \in Machines, NEW call \in Calls, NEW how \in Outcomes \ {"none"},
         Begin(m, call, how), MayGo(m, call), known[m] # None,
         call = "confirm" => Tags(m).state # "running",
         UNCHANGED <<groups, inst, named, records, faults>>,
         seen' \in [Machines -> WhatIsRead]
  PROVE  IInv'
<1>1. /\ pc' \in [Machines -> Calls] /\ outcome' \in [Machines -> Outcomes]
      /\ pc'[m] = call /\ outcome'[m] = how
      /\ \A k \in Machines \ {m} : pc'[k] = pc[k] /\ outcome'[k] = outcome[k]
      /\ known' = known /\ failed' = failed
  BY BeginEffect DEF IInv
<1>2. TypeOK'
  BY <1>1 DEF IInv, TypeOK, MayGo
<1>3. Sound(m)'
  BY <1>1 DEF IInv, Sound, MayGo, Kept, Own, Tags
<1>. QED
  BY <1>1, <1>2, <1>3, QuietKeeps

LEMMA QuietEnd ==
  ASSUME IInv, NEW m \in Machines, NEW how \in Outcomes \ {"none", "made"}, End(m, how),
         known[m] # None,
         pc[m] \in Deleting => how = "undeleted",
         UNCHANGED <<groups, inst, known, named>>,
         records' \in [Names -> Instances \cup {None}],
         Fault \/ UNCHANGED faults
  PROVE  IInv'
<1>1. /\ pc' \in [Machines -> Calls] /\ outcome' \in [Machines -> Outcomes]
      /\ seen' \in [Machines -> WhatIsRead]
      /\ failed' \in [Machines -> SUBSET {"configureNode", "deleteNode"}]
      /\ pc'[m] = "idle" /\ outcome'[m] = how
      /\ failed[m] \subseteq failed'[m]
      /\ how = "undeleted" => "deleteNode" \in failed'[m]
      /\ \A k \in Machines \ {m} :
           pc'[k] = pc[k] /\ outcome'[k] = outcome[k] /\ failed'[k] = failed[k]
  BY EndEffect DEF IInv
<1>2. faults' \in 0 .. MaxFaults
  BY FaultsCounted DEF IInv
<1>3. "idle" \notin Creating \cup Configuring \cup Deleting
  BY DEF Creating, Configuring, Deleting
<1>4. TypeOK'
  BY <1>1, <1>2, <1>3 DEF IInv, TypeOK
<1>5. Kept(m)' => Kept(m)
  BY <1>1 DEF Kept
<1>6. Sound(m)'
  BY <1>1, <1>3, <1>5 DEF IInv, Sound, Own, Tags
<1>. QED
  BY <1>1, <1>4, <1>6, QuietKeeps

(* The calls, apart.                                                        *)
LEMMA Phases ==
  /\ Creating \cup Configuring \cup Deleting \subseteq Calls
  /\ Creating \cap (Configuring \cup Deleting) = {}
  /\ Configuring \cap Deleting = {}
  /\ "idle" \notin Creating \cup Configuring \cup Deleting
  /\ {"allowSsh", "runInstance", "rollback"} \subseteq Creating
  /\ {"nameTag", "zoneTag", "dropRecord", "makeRecord", "reply"} \subseteq Configuring
  /\ {"unregister", "findGroup", "move", "dropGroup", "terminate", "confirm"}
       \subseteq Deleting
  /\ Outcomes = {"none", "made", "configured", "unconfigured", "undeleted"}
BY DEF Creating, Configuring, Deleting, Calls, Outcomes

(* An operation on an instance has one, createNode has none.                *)
LEMMA Working ==
  ASSUME IInv, NEW m \in Machines
  PROVE  /\ pc[m] \in Configuring \cup Deleting => known[m] # None
         /\ pc[m] \in Creating => known[m] = None
BY Phases DEF IInv, TypeOK, Sound

(* DNS records keep their type.                                             *)
LEMMA RecordsTyped ==
  ASSUME IInv, NEW m \in Machines,
         \/ UNCHANGED records
         \/ Unregistered(m)
         \/ known[m] # None /\ records' = [records EXCEPT ![named[m]] = known[m]]
  PROVE  records' \in [Names -> Instances \cup {None}]
BY DEF IInv, TypeOK, Unregistered

(* What an operation reads keeps its type.                                  *)
LEMMA ReadTyped ==
  ASSUME TypeOK, NEW m \in Machines, NEW x \in Names \cup {None}, NEW z \in BOOLEAN,
         NEW g \in Names \cup {Default}, NEW h \in Names \cup {Default}
  PROVE  /\ [seen EXCEPT ![m].name = x] \in [Machines -> WhatIsRead]
         /\ [seen EXCEPT ![m].name = x, ![m].zone = z] \in [Machines -> WhatIsRead]
         /\ [seen EXCEPT ![m].group = g, ![m].other = h] \in [Machines -> WhatIsRead]
<1>1. seen \in [Machines -> WhatIsRead] /\ seen[m] \in WhatIsRead
  BY DEF TypeOK
<1>2. /\ [seen[m] EXCEPT !.name = x] \in WhatIsRead
      /\ [[seen[m] EXCEPT !.name = x] EXCEPT !.zone = z] \in WhatIsRead
      /\ [[seen[m] EXCEPT !.group = g] EXCEPT !.other = h] \in WhatIsRead
  BY <1>1 DEF WhatIsRead
<1>. QED
  BY <1>1, <1>2

LEMMA RenameKeeps ==
  ASSUME IInv, NEW m \in Machines, Rename(m)
  PROVE  IInv'
<1>1. PICK x \in NamesOf[m] : named' = [named EXCEPT ![m] = x]
  BY DEF Rename
<1>2. x \in Names
  BY AwsAssumption
<1>3. TypeOK'
  BY <1>1, <1>2 DEF IInv, TypeOK, Rename, cloud, mishaps
<1>4. Sound(m)'
  BY <1>1 DEF IInv, TypeOK, Sound, Rename, Kept, Own, Tags, cloud
<1>5. \A k \in Machines \ {m} :
        named'[k] = named[k] /\ pc'[k] = pc[k] /\ failed'[k] = failed[k]
  BY <1>1 DEF Rename, IInv, TypeOK
<1>. QED
  BY <1>3, <1>4, <1>5, QuietKeeps DEF Rename, cloud

LEMMA AllowSshKeeps ==
  ASSUME IInv, NEW m \in Machines, AllowSsh(m)
  PROVE  IInv'
<1>1. PICK call \in {"runInstance", "rollback"} : Go(m, call)
  BY DEF AllowSsh
<1>2. call \in Calls /\ MayGo(m, call) /\ call # "confirm"
  BY <1>1, Phases, Working DEF AllowSsh, At, MayGo
<1>3. Fault \/ UNCHANGED faults
  BY DEF AllowSsh, Smoothly, Harmless, mishaps
<1>. QED
  BY <1>1, <1>2, <1>3, QuietGo DEF AllowSsh, cloud, IInv, TypeOK

LEMMA BeginConfigureKeeps ==
  ASSUME IInv, NEW m \in Machines, BeginConfigure(m)
  PROVE  IInv'
<1>1. known[m] # None /\ pc[m] = "idle"
  BY DEF BeginConfigure, At
<1>2. "nameTag" \in Calls /\ MayGo(m, "nameTag") /\ "unconfigured" \in Outcomes \ {"none"}
  BY <1>1, Phases DEF MayGo
<1>3. Tags(m) \in InstanceTags
  BY <1>1 DEF IInv, TypeOK, Tags
<1>4. seen' \in [Machines -> WhatIsRead]
  BY <1>3, ReadTyped DEF BeginConfigure, IInv, InstanceTags
<1>5. Begin(m, "nameTag", "unconfigured") /\ UNCHANGED <<groups, inst, named, records, faults>>
  BY DEF BeginConfigure, Smoothly, mishaps, cloud
<1>. QED
  BY <1>1, <1>2, <1>4, <1>5, QuietBegin

LEMMA DropRecordKeeps ==
  ASSUME IInv, NEW m \in Machines, DropRecord(m)
  PROVE  IInv'
<1>1. "makeRecord" \in Calls /\ MayGo(m, "makeRecord")
  BY Phases, Working DEF DropRecord, At, MayGo
<1>2. records' \in [Names -> Instances \cup {None}]
  BY RecordsTyped DEF DropRecord
<1>. QED
  BY <1>1, <1>2, QuietGo DEF DropRecord, Smoothly, mishaps, IInv, TypeOK

LEMMA MakeRecordKeeps ==
  ASSUME IInv, NEW m \in Machines, MakeRecord(m)
  PROVE  IInv'
<1>1. known[m] # None /\ pc[m] = "makeRecord" /\ pc[m] \notin Deleting
  BY Phases, Working DEF MakeRecord, At
<1>2. UNCHANGED <<groups, inst, named>> /\ UNCHANGED faults
  BY DEF MakeRecord, Smoothly, LeftIf, mishaps
<1>3. CASE Go(m, "reply") /\ UNCHANGED seen
           /\ records' = [records EXCEPT ![named[m]] = known[m]]
  <2>1. "reply" \in Calls /\ MayGo(m, "reply")
    BY <1>1, Phases DEF MayGo, MakeRecord, At
  <2>2. records' \in [Names -> Instances \cup {None}]
    BY <1>1, <1>3, RecordsTyped
  <2>. QED
    BY <1>2, <1>3, <2>1, <2>2, QuietGo DEF IInv, TypeOK
<1>4. CASE End(m, "unconfigured") /\ UNCHANGED <<records, known>>
  <2>1. "unconfigured" \in Outcomes \ {"none", "made"}
    BY DEF Outcomes
  <2>. QED
    BY <1>1, <1>2, <1>4, <2>1, QuietEnd DEF IInv, TypeOK
<1>. QED
  BY <1>3, <1>4 DEF MakeRecord

LEMMA ReplyKeeps ==
  ASSUME IInv, NEW m \in Machines, Reply(m)
  PROVE  IInv'
<1>1. known[m] # None /\ pc[m] \notin Deleting
  BY Phases, Working DEF Reply, At
<1>2. "configured" \in Outcomes \ {"none", "made"}
  BY DEF Outcomes
<1>. QED
  BY <1>1, <1>2, QuietEnd DEF Reply, cloud, Smoothly, mishaps, IInv, TypeOK

LEMMA BeginDeleteKeeps ==
  ASSUME IInv, NEW m \in Machines, BeginDelete(m)
  PROVE  IInv'
<1>1. PICK call \in {"confirm", "unregister", "findGroup"} :
        Begin(m, call, "undeleted") /\ (call = "confirm" => Tags(m).state = "gone")
  BY DEF BeginDelete, Found
<1>2. known[m] # None /\ pc[m] = "idle"
  BY DEF BeginDelete, At
<1>3. call \in Calls /\ MayGo(m, call) /\ "undeleted" \in Outcomes \ {"none"}
  BY <1>1, <1>2, Phases DEF MayGo
<1>4. Tags(m) \in InstanceTags
  BY <1>2 DEF IInv, TypeOK, Tags
<1>5. seen' \in [Machines -> WhatIsRead]
  BY <1>4, ReadTyped DEF BeginDelete, IInv, InstanceTags
<1>6. UNCHANGED <<groups, inst, named, records, faults>>
  BY DEF BeginDelete, LeftIf, cloud
<1>. QED
  BY <1>1, <1>2, <1>3, <1>5, <1>6, QuietBegin

LEMMA UnregisterKeeps ==
  ASSUME IInv, NEW m \in Machines, Unregister(m)
  PROVE  IInv'
<1>1. "findGroup" \in Calls /\ MayGo(m, "findGroup")
  BY Phases, Working DEF Unregister, At, MayGo
<1>2. records' \in [Names -> Instances \cup {None}]
  BY RecordsTyped DEF Unregister
<1>3. Fault \/ UNCHANGED faults
  BY DEF Unregister, Smoothly, Leaving, mishaps
<1>. QED
  BY <1>1, <1>2, <1>3, QuietGo DEF Unregister, IInv, TypeOK

LEMMA FindGroupKeeps ==
  ASSUME IInv, NEW m \in Machines, FindGroup(m)
  PROVE  IInv'
<1>1. PICK call \in {"move", "terminate"} : Go(m, call)
  BY DEF FindGroup, WithoutGroup
<1>2. call \in Calls /\ MayGo(m, call)
  BY <1>1, Phases, Working DEF FindGroup, At, MayGo
<1>3. Tags(m) \in InstanceTags
  BY Phases, Working DEF FindGroup, At, IInv, TypeOK, Tags
<1>4. seen' \in [Machines -> WhatIsRead]
  <2>1. TypeOK /\ Tags(m).group \in Names \cup {Default} /\ groups \subseteq Names
    BY <1>3 DEF IInv, TypeOK, InstanceTags
  <2>2. \/ UNCHANGED seen
        \/ \E g \in groups \cup {Default} :
             seen' = [seen EXCEPT ![m].group = Tags(m).group, ![m].other = g]
    BY DEF FindGroup
  <2>3. CASE UNCHANGED seen
    BY <2>1, <2>3 DEF TypeOK
  <2>4. ASSUME NEW g \in groups \cup {Default},
               seen' = [seen EXCEPT ![m].group = Tags(m).group, ![m].other = g]
        PROVE  seen' \in [Machines -> WhatIsRead]
    <3>1. g \in Names \cup {Default}
      BY <2>1
    <3>2. [seen EXCEPT ![m].group = Tags(m).group, ![m].other = g]
            \in [Machines -> WhatIsRead]
      BY <2>1, <3>1, ReadTyped
    <3>. QED
      BY <2>4, <3>2
  <2>. QED
    BY <2>2, <2>3, <2>4
<1>. QED
  BY <1>1, <1>2, <1>4, QuietGo DEF FindGroup, cloud, Smoothly, mishaps, IInv, TypeOK

LEMMA CallFailsKeeps ==
  ASSUME IInv, NEW m \in Machines, CallFails(m)
  PROVE  IInv'
<1>1. Fault /\ UNCHANGED <<cloud, known, named>>
  BY DEF CallFails, Leaving, Harmless
<1>2. CASE pc[m] \in Configuring /\ End(m, "unconfigured")
  <2>. pc[m] \notin Deleting
    BY <1>2, Phases
  <2>1. "unconfigured" \in Outcomes \ {"none", "made"}
    BY DEF Outcomes
  <2>. QED
    BY <1>1, <1>2, <2>1, Working, QuietEnd DEF cloud, IInv, TypeOK
<1>3. CASE pc[m] \in Deleting /\ End(m, "undeleted")
  <2>1. "undeleted" \in Outcomes \ {"none", "made"}
    BY Phases
  <2>. QED
    BY <1>1, <1>3, <2>1, Working, QuietEnd DEF cloud, IInv, TypeOK
<1>. QED
  BY <1>2, <1>3 DEF CallFails

LEMMA NotFoundKeeps ==
  ASSUME IInv, NEW m \in Machines, NotFound(m)
  PROVE  IInv'
<1>1. UNCHANGED <<cloud, known, named, faults>> /\ known[m] # None
  BY DEF NotFound, Smoothly, mishaps
<1>2. PICK how \in {"unconfigured", "undeleted"} :
        End(m, how) /\ (pc[m] \in Deleting => how = "undeleted")
  BY Phases DEF NotFound
<1>3. how \in Outcomes \ {"none", "made"}
  BY Phases
<1>. QED
  BY <1>1, <1>2, <1>3, QuietEnd DEF cloud, IInv, TypeOK

-----------------------------------------------------------------------------
(* Steps that change the tags, the group or the state of m's instance.      *)

LEMMA TagGo ==
  ASSUME IInv, NEW m \in Machines, NEW call \in Calls, NEW t \in InstanceTags,
         known[m] # None, Retag(known[m], t), Go(m, call), MayGo(m, call),
         t.state # "none",
         call = "confirm" => t.state # "running",
         pc[m] \notin Deleting =>
           t.state = Tags(m).state /\ t.for = Tags(m).for /\ t.group = Tags(m).group,
         UNCHANGED <<groups, records, named, seen>>,
         Fault \/ UNCHANGED faults
  PROVE  IInv'
<1>1. known[m] \in Instances
  BY DEF IInv, TypeOK
<1>2. /\ inst' \in [Instances -> InstanceTags]
      /\ inst'[known[m]] = t
      /\ \A i \in Instances \ {known[m]} : inst'[i] = inst[i]
  BY <1>1, RetagEffect DEF IInv
<1>3. /\ pc' \in [Machines -> Calls] /\ pc'[m] = call
      /\ \A k \in Machines \ {m} : pc'[k] = pc[k]
      /\ known' = known /\ outcome' = outcome /\ failed' = failed
  BY GoEffect DEF IInv
<1>4. faults' \in 0 .. MaxFaults
  BY FaultsCounted DEF IInv
<1>5. TypeOK'
  BY <1>2, <1>3, <1>4 DEF IInv, TypeOK, MayGo
<1>6. Sound(m)'
  BY <1>2, <1>3 DEF IInv, Sound, MayGo, Kept, Own, Tags
<1>7. ASSUME NEW k \in Machines, k # m
      PROVE  Sound(k)'
  <2>1. known[k] # None => known[k] \in Instances \ {known[m]}
    BY <1>7 DEF IInv, Apart, TypeOK
  <2>2. known[k] # None => inst'[known[k]] = inst[known[k]]
    BY <2>1, <1>2
  <2>3. Kept(k) => Tags(k).group \in groups'
    BY DEF IInv, Sound, Own
  <2>4. pc[k] = "confirm" => known[k] # None
    BY Phases, Working
  <2>. QED
    BY <1>3, <1>7, <2>2, <2>3, <2>4, OtherMachine DEF IInv
<1>8. Apart'
  BY <1>3 DEF IInv, Apart
<1>. QED
  BY <1>5, <1>6, <1>7, <1>8 DEF IInv

LEMMA Tagged ==
  ASSUME IInv, NEW m \in Machines, known[m] # None
  PROVE  /\ Tags(m) \in InstanceTags /\ Tags(m).state # "none"
         /\ \A x \in Names : [Tags(m) EXCEPT !.name = x] \in InstanceTags
         /\ [Tags(m) EXCEPT !.zone = TRUE] \in InstanceTags
         /\ \A g \in Names \cup {Default} : [Tags(m) EXCEPT !.group = g] \in InstanceTags
         /\ [Tags(m) EXCEPT !.state = "stopping"] \in InstanceTags
<1>1. Tags(m) \in InstanceTags /\ Tags(m).state # "none"
  BY DEF IInv, TypeOK, Sound, Tags
<1>. QED
  BY <1>1 DEF InstanceTags

LEMMA NameTagKeeps ==
  ASSUME IInv, NEW m \in Machines, NameTag(m)
  PROVE  IInv'
<1>. DEFINE t == [Tags(m) EXCEPT !.name = named[m]]
<1>1. known[m] # None /\ pc[m] = "nameTag"
  BY Phases, Working DEF NameTag, At
<1>2. "zoneTag" \in Calls /\ MayGo(m, "zoneTag")
  BY <1>1, Phases DEF MayGo
<1>3. Tags(m) \in InstanceTags /\ t \in InstanceTags
  BY <1>1, Tagged DEF IInv, TypeOK
<1>4. t.state = Tags(m).state /\ t.for = Tags(m).for /\ t.group = Tags(m).group
  BY <1>3 DEF InstanceTags
<1>. QED
  BY <1>1, <1>2, <1>3, <1>4, Tagged, TagGo DEF NameTag, LeftIf

LEMMA ZoneTagKeeps ==
  ASSUME IInv, NEW m \in Machines, ZoneTag(m)
  PROVE  IInv'
<1>. DEFINE t == [Tags(m) EXCEPT !.zone = TRUE]
<1>1. known[m] # None /\ pc[m] = "zoneTag"
  BY Phases, Working DEF ZoneTag, At
<1>2. PICK call \in {"reply", "dropRecord", "makeRecord"} : Go(m, call)
  BY DEF ZoneTag, AfterZoneTag
<1>3. call \in Calls /\ MayGo(m, call) /\ call # "confirm"
  BY <1>1, <1>2, Phases DEF MayGo
<1>4. Tags(m) \in InstanceTags /\ t \in InstanceTags
  BY <1>1, Tagged
<1>5. t.state = Tags(m).state /\ t.for = Tags(m).for /\ t.group = Tags(m).group
  BY <1>4 DEF InstanceTags
<1>. QED
  BY <1>1, <1>2, <1>3, <1>4, <1>5, Tagged, TagGo DEF ZoneTag, Smoothly, mishaps

LEMMA MoveKeeps ==
  ASSUME IInv, NEW m \in Machines, Move(m)
  PROVE  IInv'
<1>. DEFINE t == [Tags(m) EXCEPT !.group = seen[m].other]
<1>1. known[m] # None /\ pc[m] = "move" /\ pc[m] \in Deleting
  BY Phases, Working DEF Move, At
<1>2. UNCHANGED <<groups, records, named>> /\ UNCHANGED faults
  BY DEF Move, Smoothly, mishaps
<1>3. CASE Retag(known[m], t) /\ Go(m, "dropGroup") /\ UNCHANGED seen
  <2>1. "dropGroup" \in Calls /\ MayGo(m, "dropGroup")
    BY <1>1, Phases DEF MayGo
  <2>2. seen[m].other \in Names \cup {Default}
    BY DEF IInv, TypeOK, WhatIsRead
  <2>3. Tags(m) \in InstanceTags /\ t \in InstanceTags
    BY <1>1, <2>2, Tagged
  <2>4. t.state = Tags(m).state
    BY <2>3 DEF InstanceTags
  <2>. QED
    BY <1>1, <1>2, <1>3, <2>1, <2>3, <2>4, Tagged, TagGo
<1>4. CASE End(m, "undeleted") /\ UNCHANGED <<inst, known>>
  <2>1. "undeleted" \in Outcomes \ {"none", "made"}
    BY Phases
  <2>. QED
    BY <1>1, <1>2, <1>4, <2>1, QuietEnd DEF IInv, TypeOK
<1>. QED
  BY <1>3, <1>4 DEF Move

LEMMA TerminateKeeps ==
  ASSUME IInv, NEW m \in Machines, Terminate(m)
  PROVE  IInv'
<1>. DEFINE t == [Tags(m) EXCEPT !.state = "stopping"]
<1>1. known[m] # None /\ pc[m] = "terminate" /\ pc[m] \in Deleting
  BY Phases, Working DEF Terminate, At
<1>2. "confirm" \in Calls /\ MayGo(m, "confirm")
  BY <1>1, Phases DEF MayGo
<1>3. Tags(m) \in InstanceTags
  BY <1>1, Tagged
<1>4. t \in InstanceTags /\ t.state = "stopping"
  BY <1>3 DEF InstanceTags
<1>. QED
  BY <1>1, <1>2, <1>4, TagGo DEF Terminate, Smoothly, mishaps

-----------------------------------------------------------------------------
(* Steps that make or remove security groups.                               *)

LEMMA GroupsKeep ==
  ASSUME IInv, NEW m \in Machines, TypeOK', Sound(m)', UNCHANGED <<inst, known>>,
         \A k \in Machines \ {m} : Kept(k) => Tags(k).group \in groups',
         \A k \in Machines \ {m} :
           named'[k] = named[k] /\ pc'[k] = pc[k] /\ failed'[k] = failed[k]
  PROVE  IInv'
<1>1. ASSUME NEW k \in Machines, k # m
      PROVE  Sound(k)'
  <2>1. Sound(k) /\ named'[k] = named[k] /\ pc'[k] = pc[k] /\ failed'[k] = failed[k]
    BY <1>1 DEF IInv
  <2>2. pc[k] = "confirm" => known[k] # None
    BY Phases, Working
  <2>3. Kept(k) => Tags(k).group \in groups'
    BY <1>1
  <2>. QED
    BY <2>1, <2>2, <2>3, OtherMachine
<1>2. Apart'
  BY DEF IInv, Apart
<1>. QED
  BY <1>1, <1>2 DEF IInv

LEMMA CreateGroupKeeps ==
  ASSUME IInv, NEW m \in Machines, CreateGroup(m)
  PROVE  IInv'
<1>1. /\ known[m] = None /\ pc[m] = "idle" /\ named[m] \in Names
      /\ groups' = groups \cup {named[m]}
      /\ UNCHANGED <<inst, records, named, seen>>
  BY DEF CreateGroup, At, IInv, TypeOK
<1>2. /\ pc' \in [Machines -> Calls] /\ pc'[m] \in {"idle", "allowSsh"}
      /\ \A k \in Machines \ {m} : pc'[k] = pc[k]
      /\ known' = known /\ outcome' = outcome /\ failed' = failed
  <2>1. CASE Go(m, "allowSsh")
    <3>1. "allowSsh" \in Calls
      BY Phases
    <3>. QED
      BY <2>1, <3>1, GoEffect DEF IInv
  <2>2. CASE UNCHANGED <<known, pc, outcome, failed>>
    BY <1>1, <2>2 DEF IInv, TypeOK
  <2>. QED
    BY <2>1, <2>2 DEF CreateGroup
<1>3. faults' \in 0 .. MaxFaults
  <2>1. Fault \/ UNCHANGED faults
    BY DEF CreateGroup, Smoothly, Leaving, mishaps
  <2>. QED
    BY <2>1, FaultsCounted DEF IInv
<1>4. pc'[m] \notin Configuring \cup Deleting /\ pc'[m] # "confirm"
  BY <1>2, Phases
<1>5. TypeOK'
  BY <1>1, <1>2, <1>3, <1>4 DEF IInv, TypeOK
<1>6. Sound(m)'
  BY <1>1, <1>2, <1>4 DEF IInv, Sound, Kept
<1>7. \A k \in Machines \ {m} : Kept(k) => Tags(k).group \in groups'
  BY <1>1 DEF IInv, Sound, Own
<1>. QED
  BY <1>1, <1>2, <1>5, <1>6, <1>7, GroupsKeep

LEMMA RollbackKeeps ==
  ASSUME IInv, NEW m \in Machines, Rollback(m)
  PROVE  IInv'
<1>1. known[m] = None /\ outcome[m] = "none" /\ named[m] \in Names
  BY Phases, Working DEF Rollback, At, IInv, TypeOK
<1>2. /\ End(m, "none") /\ UNCHANGED <<inst, records, known, named>>
      /\ Fault \/ UNCHANGED faults
      /\ groups' = groups \/ (~ InUse(named[m]) /\ groups' = groups \ {named[m]})
  BY DEF Rollback, Leaving, LeftIf
<1>3. /\ pc' \in [Machines -> Calls] /\ outcome' \in [Machines -> Outcomes]
      /\ seen' \in [Machines -> WhatIsRead]
      /\ failed' \in [Machines -> SUBSET {"configureNode", "deleteNode"}]
      /\ pc'[m] = "idle" /\ outcome'[m] = "none"
      /\ \A k \in Machines \ {m} :
           pc'[k] = pc[k] /\ outcome'[k] = outcome[k] /\ failed'[k] = failed[k]
  <2>1. "none" \in Outcomes
    BY DEF Outcomes
  <2>. QED
    BY <1>2, <2>1, EndEffect DEF IInv
<1>4. faults' \in 0 .. MaxFaults
  BY <1>2, FaultsCounted DEF IInv
<1>5. TypeOK'
  BY <1>1, <1>2, <1>3, <1>4, Phases DEF IInv, TypeOK
<1>6. Sound(m)'
  BY <1>1, <1>2, <1>3, Phases DEF IInv, Sound, Kept
<1>7. \A k \in Machines \ {m} : Kept(k) => Tags(k).group \in groups'
  <2>1. \A k \in Machines : Kept(k) => Tags(k).group \in groups /\ InUse(Tags(k).group)
    BY KeptInUse DEF IInv, Sound, Own
  <2>. QED
    BY <1>2, <2>1
<1>. QED
  BY <1>2, <1>3, <1>5, <1>6, <1>7, GroupsKeep

LEMMA DropGroupKeeps ==
  ASSUME IInv, NEW m \in Machines, DropGroup(m)
  PROVE  IInv'
<1>1. known[m] # None /\ pc[m] = "dropGroup" /\ pc[m] \in Deleting
  BY Phases, Working DEF DropGroup, At
<1>2. UNCHANGED <<inst, records, named>> /\ UNCHANGED faults
  BY DEF DropGroup, LeftIf
<1>3. CASE End(m, "undeleted") /\ UNCHANGED <<groups, known>>
  <2>1. "undeleted" \in Outcomes \ {"none", "made"}
    BY Phases
  <2>. QED
    BY <1>1, <1>2, <1>3, <2>1, QuietEnd DEF IInv, TypeOK
<1>4. CASE /\ ~ InUse(seen[m].group) /\ groups' = groups \ {seen[m].group}
           /\ Go(m, "terminate") /\ UNCHANGED seen
  <2>1. "terminate" \in Calls \cap Deleting /\ "terminate" # "confirm"
    BY Phases
  <2>2. /\ pc' \in [Machines -> Calls] /\ pc'[m] = "terminate"
        /\ \A k \in Machines \ {m} : pc'[k] = pc[k]
        /\ known' = known /\ outcome' = outcome /\ failed' = failed
    BY <1>4, <2>1, GoEffect DEF IInv
  <2>3. TypeOK'
    BY <1>1, <1>2, <1>4, <2>2 DEF IInv, TypeOK
  <2>4. Sound(m)'
    BY <1>1, <1>2, <2>1, <2>2, Phases DEF IInv, Sound, Kept, Tags
  <2>5. \A k \in Machines \ {m} : Kept(k) => Tags(k).group \in groups'
    <3>1. \A k \in Machines : Kept(k) => Tags(k).group \in groups /\ InUse(Tags(k).group)
      BY KeptInUse DEF IInv, Sound, Own
    <3>. QED
      BY <1>4, <3>1
  <2>. QED
    BY <1>2, <2>2, <2>3, <2>4, <2>5, GroupsKeep
<1>. QED
  BY <1>3, <1>4 DEF DropGroup

-----------------------------------------------------------------------------
(* Steps that make an instance, let go of one or end one.                   *)

(* The instance that is made is known to no deployment.                     *)
LEMMA NewIdIsNew ==
  ASSUME IInv, Fresh # {}
  PROVE  /\ NewId \in Instances /\ inst[NewId].state = "none"
         /\ \A k \in Machines : known[k] # NewId
<1>1. NewId \in Fresh
  BY DEF NewId
<1>2. NewId \in Instances /\ inst[NewId].state = "none"
  BY <1>1 DEF Fresh
<1>3. NewId # None
  BY <1>2, AwsAssumption
<1>. QED
  BY <1>2, <1>3 DEF IInv, Sound, Tags

LEMMA RunInstanceKeeps ==
  ASSUME IInv, NEW m \in Machines, RunInstance(m)
  PROVE  IInv'
<1>1. /\ known[m] = None /\ outcome[m] = "none" /\ pc[m] = "runInstance"
      /\ named[m] \in NamesOf[m] \cap Names
  BY Phases, Working DEF RunInstance, At, IInv, TypeOK, Sound
<1>2. UNCHANGED <<groups, records, named>>
  BY DEF RunInstance
<1>3. Fault \/ UNCHANGED faults
  BY DEF RunInstance, Smoothly, Leaving, Harmless, mishaps
<1>4. faults' \in 0 .. MaxFaults
  BY <1>3, FaultsCounted DEF IInv
<1>5. "rollback" \in Calls /\ MayGo(m, "rollback")
  BY <1>1, Phases DEF MayGo
<1>6. CASE Go(m, "rollback") /\ UNCHANGED <<inst, seen>>
  BY <1>2, <1>3, <1>5, <1>6, QuietGo DEF IInv, TypeOK
<1>7. ASSUME named[m] \in groups, Fresh # {}, Retag(NewId, Started(m))
      PROVE  /\ inst' \in [Instances -> InstanceTags]
             /\ inst'[NewId] = Started(m)
             /\ \A k \in Machines : known[k] # None => inst'[known[k]] = inst[known[k]]
  <2>1. NewId \in Instances /\ \A k \in Machines : known[k] # NewId
    BY <1>7, NewIdIsNew
  <2>2. Started(m) \in InstanceTags
    BY <1>1 DEF Started, InstanceTags
  <2>. QED
    BY <1>7, <2>1, <2>2, RetagEffect DEF IInv, TypeOK
<1>8. CASE /\ named[m] \in groups /\ Fresh # {} /\ Retag(NewId, Started(m))
           /\ Go(m, "rollback") /\ UNCHANGED seen
  <2>1. /\ pc' \in [Machines -> Calls] /\ pc'[m] = "rollback"
        /\ \A k \in Machines \ {m} : pc'[k] = pc[k]
        /\ known' = known /\ outcome' = outcome /\ failed' = failed
    BY <1>5, <1>8, GoEffect DEF IInv
  <2>2. TypeOK'
    BY <1>1, <1>2, <1>4, <1>5, <1>7, <1>8, <2>1, Phases DEF IInv, TypeOK
  <2>3. Sound(m)'
    BY <1>1, <1>2, <2>1, Phases DEF IInv, Sound, Kept
  <2>4. ASSUME NEW k \in Machines, k # m
        PROVE  Sound(k)'
    <3>1. Kept(k) => Tags(k).group \in groups'
      BY <1>2 DEF IInv, Sound, Own
    <3>2. pc[k] = "confirm" => known[k] # None
      BY Phases, Working
    <3>. QED
      BY <1>2, <1>7, <1>8, <2>1, <2>4, <3>1, <3>2, OtherMachine DEF IInv
  <2>. QED
    BY <2>1, <2>2, <2>3, <2>4 DEF IInv, Apart
<1>9. CASE /\ named[m] \in groups /\ Fresh # {} /\ Retag(NewId, Started(m))
           /\ known' = [known EXCEPT ![m] = NewId] /\ End(m, "made")
  <2>1. /\ pc' \in [Machines -> Calls] /\ outcome' \in [Machines -> Outcomes]
        /\ seen' \in [Machines -> WhatIsRead]
        /\ failed' \in [Machines -> SUBSET {"configureNode", "deleteNode"}]
        /\ pc'[m] = "idle" /\ outcome'[m] = "made"
        /\ \A k \in Machines \ {m} :
             pc'[k] = pc[k] /\ outcome'[k] = outcome[k] /\ failed'[k] = failed[k]
    <3>1. "made" \in Outcomes
      BY DEF Outcomes
    <3>. QED
      BY <1>9, <3>1, EndEffect DEF IInv
  <2>2. NewId \in Instances /\ NewId # None /\ \A k \in Machines : known[k] # NewId
    BY <1>9, NewIdIsNew, AwsAssumption
  <2>3. /\ known' \in [Machines -> Instances \cup {None}] /\ known'[m] = NewId
        /\ \A k \in Machines \ {m} : known'[k] = known[k]
    BY <1>9, <2>2 DEF IInv, TypeOK
  <2>4. TypeOK'
    BY <1>2, <1>4, <1>7, <1>9, <2>1, <2>2, <2>3, Phases DEF IInv, TypeOK
  <2>5. Sound(m)'
    BY <1>1, <1>2, <1>7, <1>9, <2>1, <2>2, <2>3, Phases
       DEF IInv, Sound, Kept, Own, Tags, Started
  <2>6. ASSUME NEW k \in Machines, k # m
        PROVE  Sound(k)'
    <3>1. Kept(k) => Tags(k).group \in groups'
      BY <1>2 DEF IInv, Sound, Own
    <3>2. pc[k] = "confirm" => known[k] # None
      BY Phases, Working
    <3>. QED
      BY <1>2, <1>7, <1>9, <2>1, <2>3, <2>6, <3>1, <3>2, OtherMachine DEF IInv
  <2>7. Apart'
    BY <2>2, <2>3 DEF IInv, Apart
  <2>. QED
    BY <2>4, <2>5, <2>6, <2>7 DEF IInv
<1>. QED
  BY <1>6, <1>8, <1>9 DEF RunInstance

LEMMA ConfirmKeeps ==
  ASSUME IInv, NEW m \in Machines, Confirm(m)
  PROVE  IInv'
<1>1. /\ known' = [known EXCEPT ![m] = None] /\ End(m, "none")
      /\ UNCHANGED <<groups, inst, records, named, faults>>
  BY DEF Confirm, Smoothly, mishaps, cloud
<1>2. /\ pc' \in [Machines -> Calls] /\ outcome' \in [Machines -> Outcomes]
      /\ seen' \in [Machines -> WhatIsRead]
      /\ failed' \in [Machines -> SUBSET {"configureNode", "deleteNode"}]
      /\ pc'[m] = "idle" /\ outcome'[m] = "none"
      /\ \A k \in Machines \ {m} :
           pc'[k] = pc[k] /\ outcome'[k] = outcome[k] /\ failed'[k] = failed[k]
  <2>1. "none" \in Outcomes
    BY DEF Outcomes
  <2>. QED
    BY <1>1, <2>1, EndEffect DEF IInv
<1>3. /\ known' \in [Machines -> Instances \cup {None}] /\ known'[m] = None
      /\ \A k \in Machines \ {m} : known'[k] = known[k]
  BY <1>1 DEF IInv, TypeOK
<1>4. TypeOK'
  BY <1>1, <1>2, <1>3, Phases DEF IInv, TypeOK
<1>5. Sound(m)'
  BY <1>1, <1>2, <1>3, Phases DEF IInv, Sound, Kept
<1>6. ASSUME NEW k \in Machines, k # m
      PROVE  Sound(k)'
  <2>1. Kept(k) => Tags(k).group \in groups'
    BY <1>1 DEF IInv, Sound, Own
  <2>2. pc[k] = "confirm" => known[k] # None
    BY Phases, Working
  <2>. QED
    BY <1>1, <1>2, <1>3, <1>6, <2>1, <2>2, OtherMachine DEF IInv
<1>7. Apart'
  BY <1>3 DEF IInv, Apart
<1>. QED
  BY <1>4, <1>5, <1>6, <1>7 DEF IInv

LEMMA StoppedKeeps ==
  ASSUME IInv, NEW n \in Instances, Stopped(n)
  PROVE  IInv'
<1>. DEFINE t == [NoInstance EXCEPT !.state = "gone"]
<1>1. inst[n].state = "stopping" /\ Retag(n, t)
  BY DEF Stopped
<1>2. t \in InstanceTags /\ t.state = "gone"
  BY DEF NoInstance, InstanceTags
<1>3. /\ inst' \in [Instances -> InstanceTags] /\ inst'[n] = t
      /\ \A i \in Instances \ {n} : inst'[i] = inst[i]
  <2>. HIDE DEF t
  <2>. QED
    BY <1>1, <1>2, RetagEffect DEF IInv
<1>4. UNCHANGED <<groups, records, known, named, pc, seen, outcome, failed, faults>>
  BY DEF Stopped, callers, mishaps
<1>5. TypeOK'
  BY <1>3, <1>4 DEF IInv, TypeOK
<1>6. ASSUME NEW k \in Machines
      PROVE  Sound(k)'
  <2>1. Sound(k) /\ (pc[k] = "confirm" => known[k] # None)
    BY Phases, Working DEF IInv
  <2>2. CASE known[k] = n
    BY <1>1, <1>2, <1>3, <1>4, <2>1, <2>2 DEF Sound, Own, Kept, Tags
  <2>3. CASE known[k] # n
    <3>1. known[k] # None => inst'[known[k]] = inst[known[k]]
      BY <1>3, <2>3 DEF IInv, TypeOK
    <3>2. Kept(k) => Tags(k).group \in groups'
      BY <1>4, <2>1 DEF Sound, Own
    <3>. QED
      BY <1>4, <2>1, <3>1, <3>2, OtherMachine
  <2>. QED
    BY <2>2, <2>3
<1>7. Apart'
  BY <1>4 DEF IInv, Apart
<1>. QED
  BY <1>5, <1>6, <1>7 DEF IInv

-----------------------------------------------------------------------------
(* The invariant holds at first and every step keeps it.                    *)

LEMMA InitSound ==
  ASSUME Init
  PROVE  IInv
<1>1. NoInstance \in InstanceTags /\ NothingSeen \in WhatIsRead
  BY DEF NoInstance, InstanceTags, NothingSeen, WhatIsRead
<1>2. "idle" \in Calls /\ "none" \in Outcomes
  BY DEF Calls, Outcomes
<1>3. 0 \in 0 .. MaxFaults
  BY AwsAssumption
<1>4. TypeOK
  BY <1>1, <1>2, <1>3, Phases DEF Init, TypeOK
<1>5. \A m \in Machines : Sound(m)
  BY Phases DEF Init, Sound, Kept
<1>. QED
  BY <1>4, <1>5 DEF IInv, Init, Apart

LEMMA StepKeeps ==
  ASSUME IInv, NEW m \in Machines, Step(m)
  PROVE  IInv'
BY AllowSshKeeps, RunInstanceKeeps, RollbackKeeps, NameTagKeeps, ZoneTagKeeps,
   DropRecordKeeps, MakeRecordKeeps, ReplyKeeps, UnregisterKeeps, FindGroupKeeps,
   MoveKeeps, DropGroupKeeps, TerminateKeeps, ConfirmKeeps, NotFoundKeeps
   DEF Step

LEMMA NextKeeps ==
  ASSUME IInv, [Next]_vars
  PROVE  IInv'
<1>1. ASSUME NEW m \in Machines,
             \/ Rename(m) \/ CreateGroup(m) \/ BeginConfigure(m) \/ BeginDelete(m)
             \/ Step(m) \/ CallFails(m)
      PROVE  IInv'
  BY <1>1, RenameKeeps, CreateGroupKeeps, BeginConfigureKeeps, BeginDeleteKeeps,
     StepKeeps, CallFailsKeeps
<1>2. ASSUME NEW n \in Instances, Stopped(n)
      PROVE  IInv'
  BY <1>2, StoppedKeeps
<1>3. CASE UNCHANGED vars
  BY <1>3 DEF vars, cloud, callers, mishaps, IInv, TypeOK, Apart, Sound, Own, Kept, Tags
<1>. QED
  BY <1>1, <1>2, <1>3 DEF Next

THEOREM Invariant == Spec => []IInv
<1>1. Init => IInv
  BY InitSound
<1>2. IInv /\ [Next]_vars => IInv'
  BY NextKeeps
<1>. QED
  BY <1>1, <1>2, PTL DEF Spec

(* The variables of AWSNodeAPI's callers and of the cloud keep their types; *)
(* an operation on an instance has one.                                     *)
THEOREM TypeCorrect == Spec => []TypeOK
<1>1. IInv => TypeOK
  BY DEF IInv
<1>. QED
  BY <1>1, Invariant, PTL

(* Whatever calls of AWS fail, and however the operations on the machines   *)
(* of a VPC interleave, an instance whose deletion has not begun runs in an *)
(* existing group of its own machine.                                       *)
THEOREM OwnGroupKept == Spec => []OwnGroup
<1>1. IInv => OwnGroup
  BY DEF IInv, Sound, Own, OwnGroup
<1>. QED
  BY <1>1, Invariant, PTL

-----------------------------------------------------------------------------
(* What the deployments rely on: the steps that change which instances run, *)
(* or what the deployments know, are steps of NodeProvider.                 *)

Running == {n \in Instances : inst[n].state = "running"}

LEMMA SameRunning ==
  ASSUME IInv, NEW n \in Instances, NEW t \in InstanceTags, Retag(n, t)
  PROVE  /\ t.state = inst[n].state => Running' = Running
         /\ t.state = "running" => Running' = Running \cup {n}
         /\ t.state # "running" => Running' = Running \ {n}
<1>1. inst'[n] = t /\ \A i \in Instances \ {n} : inst'[i] = inst[i]
  BY RetagEffect DEF IInv
<1>. QED
  BY <1>1 DEF Running

(* Steps that touch neither what runs nor what is known.                    *)
LEMMA UnseenSteps ==
  ASSUME IInv, NEW m \in Machines,
         \/ Rename(m) \/ CreateGroup(m) \/ BeginConfigure(m) \/ BeginDelete(m)
         \/ AllowSsh(m) \/ Rollback(m)
         \/ NameTag(m) \/ ZoneTag(m) \/ DropRecord(m) \/ MakeRecord(m) \/ Reply(m)
         \/ Unregister(m) \/ FindGroup(m) \/ Move(m) \/ DropGroup(m) \/ CallFails(m)
         \/ NotFound(m)
  PROVE  UNCHANGED <<Running, known>>
<1>1. UNCHANGED known
  BY DEF Rename, CreateGroup, BeginConfigure, BeginDelete, AllowSsh, Rollback, NameTag,
         ZoneTag, DropRecord, MakeRecord, Reply, Unregister, FindGroup, Move, DropGroup,
         CallFails, NotFound, Go, Begin, cloud
<1>2. CASE UNCHANGED inst
  BY <1>1, <1>2 DEF Running
<1>3. CASE NameTag(m) \/ ZoneTag(m) \/ Move(m)
  <2>1. known[m] \in Instances
    BY <1>3, Phases, Working DEF NameTag, ZoneTag, Move, At, IInv, TypeOK
  <2>2. /\ Tags(m) \in InstanceTags
        /\ \A x \in Names : [Tags(m) EXCEPT !.name = x] \in InstanceTags
        /\ [Tags(m) EXCEPT !.zone = TRUE] \in InstanceTags
        /\ \A g \in Names \cup {Default} : [Tags(m) EXCEPT !.group = g] \in InstanceTags
    BY <2>1, Tagged, AwsAssumption
  <2>3. named[m] \in Names /\ seen[m].other \in Names \cup {Default}
    BY DEF IInv, TypeOK, WhatIsRead
  <2>4. PICK t \in InstanceTags :
          t.state = Tags(m).state /\ (Retag(known[m], t) \/ UNCHANGED inst)
    <3>1. CASE NameTag(m)
      <4>1. [Tags(m) EXCEPT !.name = named[m]] \in InstanceTags
        BY <2>2, <2>3
      <4>2. [Tags(m) EXCEPT !.name = named[m]].state = Tags(m).state
        BY <2>2 DEF InstanceTags
      <4>. QED
        BY <3>1, <4>1, <4>2 DEF NameTag
    <3>2. CASE ZoneTag(m)
      <4>1. [Tags(m) EXCEPT !.zone = TRUE].state = Tags(m).state
        BY <2>2 DEF InstanceTags
      <4>. QED
        BY <2>2, <3>2, <4>1 DEF ZoneTag
    <3>3. CASE Move(m)
      <4>1. [Tags(m) EXCEPT !.group = seen[m].other] \in InstanceTags
        BY <2>2, <2>3
      <4>2. [Tags(m) EXCEPT !.group = seen[m].other].state = Tags(m).state
        BY <2>2 DEF InstanceTags
      <4>. QED
        BY <2>2, <3>3, <4>1, <4>2 DEF Move
    <3>. QED
      BY <1>3, <3>1, <3>2, <3>3
  <2>. QED
    BY <1>1, <1>2, <2>1, <2>4, SameRunning DEF Tags
<1>. QED
  BY <1>1, <1>2, <1>3
     DEF Rename, CreateGroup, BeginConfigure, BeginDelete, AllowSsh, Rollback, DropRecord,
         MakeRecord, Reply, Unregister, FindGroup, DropGroup, CallFails, NotFound, cloud

(* runInstances makes an instance; its answer may be lost.                  *)
LEMMA RunInstanceMakes ==
  ASSUME IInv, NEW m \in Machines, RunInstance(m)
  PROVE  \/ \E n \in Instances : P!Make(m, n) \/ P!MakeUnanswered(n)
         \/ UNCHANGED <<Running, known>>
<1>1. CASE UNCHANGED inst /\ UNCHANGED known
  BY <1>1 DEF Running
<1>2. CASE /\ named[m] \in groups /\ Fresh # {} /\ Retag(NewId, Started(m))
           /\ known' = known \/ known' = [known EXCEPT ![m] = NewId]
  <2>1. /\ NewId \in Instances /\ inst[NewId].state = "none"
        /\ \A k \in Machines : known[k] # NewId
    BY <1>2, NewIdIsNew
  <2>2. Started(m) \in InstanceTags /\ Started(m).state = "running"
    BY DEF IInv, TypeOK, Started, InstanceTags
  <2>3. Running' = Running \cup {NewId} /\ NewId \in Instances \ Running
    BY <1>2, <2>1, <2>2, SameRunning DEF Running
  <2>4. known[m] = None
    BY Phases, Working DEF RunInstance, At
  <2>. QED
    BY <1>2, <2>1, <2>3, <2>4 DEF P!Make, P!MakeUnanswered, P!New, Running
<1>. QED
  BY <1>1, <1>2 DEF RunInstance, Go

(* terminateInstances ends the machine's own instance, once.                *)
LEMMA TerminateRemoves ==
  ASSUME IInv, NEW m \in Machines, Terminate(m)
  PROVE  P!Remove(m) \/ UNCHANGED <<Running, known>>
<1>. DEFINE t == [Tags(m) EXCEPT !.state = "stopping"]
<1>1. known[m] \in Instances /\ Tags(m) \in InstanceTags
  BY Phases, Working, Tagged DEF Terminate, At, IInv, TypeOK
<1>2. t \in InstanceTags /\ t.state # "running"
  BY <1>1 DEF InstanceTags
<1>3. Retag(known[m], t) /\ known' = known
  BY DEF Terminate, Go
<1>4. Running' = Running \ {known[m]}
  <2>. HIDE DEF t
  <2>. QED
    BY <1>1, <1>2, <1>3, SameRunning
<1>. QED
  BY <1>3, <1>4 DEF P!Remove, Running

(* deleteNode returns for an instance that no longer runs.                  *)
LEMMA ConfirmConfirms ==
  ASSUME IInv, NEW m \in Machines, Confirm(m)
  PROVE  P!Confirm(m)
<1>1. known[m] \in Instances /\ Tags(m).state # "running"
  BY Phases, Working DEF Confirm, At, IInv, TypeOK, Sound
<1>. QED
  BY <1>1 DEF Confirm, P!Confirm, Running, Tags, cloud

LEMMA StoppedUnseen ==
  ASSUME IInv, NEW n \in Instances, Stopped(n)
  PROVE  UNCHANGED <<Running, known>>
<1>. DEFINE t == [NoInstance EXCEPT !.state = "gone"]
<1>1. t \in InstanceTags /\ t.state # "running" /\ inst[n].state # "running"
  BY DEF NoInstance, InstanceTags, Stopped
<1>2. Retag(n, t) /\ known' = known
  BY DEF Stopped, callers
<1>3. Running' = Running \ {n}
  <2>. HIDE DEF t
  <2>. QED
    BY <1>1, <1>2, SameRunning
<1>. QED
  BY <1>1, <1>2, <1>3 DEF Running

LEMMA StepsProvide ==
  ASSUME IInv, [Next]_vars
  PROVE  [P!Next]_(P!vars)
<1>1. SUFFICES ASSUME ~ UNCHANGED <<Running, known>>
               PROVE  P!Next
  BY DEF P!vars, Running
<1>2. ~ UNCHANGED vars
  BY <1>1 DEF vars, cloud, callers, Running
<1>3. ASSUME NEW n \in Instances, Stopped(n)
      PROVE  FALSE
  BY <1>1, <1>3, StoppedUnseen
<1>4. ASSUME NEW m \in Machines,
             \/ Rename(m) \/ CreateGroup(m) \/ BeginConfigure(m) \/ BeginDelete(m)
             \/ Step(m) \/ CallFails(m)
      PROVE  RunInstance(m) \/ Terminate(m) \/ Confirm(m)
  BY <1>1, <1>4, UnseenSteps DEF Step
<1>5. PICK m \in Machines : RunInstance(m) \/ Terminate(m) \/ Confirm(m)
  BY <1>2, <1>3, <1>4 DEF Next
<1>. QED
  BY <1>1, <1>5, RunInstanceMakes, TerminateRemoves, ConfirmConfirms DEF P!Next

(* createNode and deleteNode of AWSNodeAPI implement what the deployments   *)
(* rely on: the node they are told of is new and their own, runs until      *)
(* their own deleteNode, and no longer runs when that returns.              *)
THEOREM ProviderKept == Spec => KeepsProvider
<1>1. Init => P!Init
  BY DEF Init, NoInstance, P!Init
<1>2. IInv /\ [Next]_vars => [P!Next]_(P!vars)
  BY StepsProvide
<1>. QED
  BY <1>1, <1>2, Invariant, PTL DEF Spec, KeepsProvider, P!Spec

-----------------------------------------------------------------------------
(* What the tags of the instance say while it is configured.                *)
Follows(m) ==
  /\ known[m] # None => Tags(m).name \in NamesOf[m] \cup {None}
  /\ seen[m].name \in NamesOf[m] \cup {None}
  /\ known[m] # None /\ Found(m) =>
       /\ pc[m] = "nameTag" => seen[m].name = Tags(m).name
       /\ pc[m] \in {"nameTag", "zoneTag"} => seen[m].zone = Tags(m).zone
       /\ pc[m] \in Configuring \ {"nameTag"} => Tags(m).name = named[m]
       /\ pc[m] \in {"dropRecord", "makeRecord", "reply"} => Tags(m).zone
  /\ pc[m] = "dropRecord" => seen[m].zone /\ seen[m].name # named[m]
  /\ outcome[m] = "made" /\ pc[m] = "idle" => Tags(m).name = None /\ ~Tags(m).zone

(* The groups and records of a machine, by all its names.                   *)
Groups(m) == groups \cap NamesOf[m]
Records(m) == {x \in NamesOf[m] : records[x] # None}

(* A group that can be found by the tags.                                   *)
GroupFound(m) ==
  Groups(m) = {} \/ (Groups(m) \subseteq {Tags(m).group} /\ <<Tags(m).group, Tags(m).name>> \in StartsWith)
Untagged(m) ==
  /\ Groups(m) \subseteq {Tags(m).group} /\ Tags(m).name = None
  /\ \/ outcome[m] = "made" /\ pc[m] = "idle"
     \/ pc[m] = "nameTag"
GroupsTidy(m) ==
  /\ known[m] = None => Groups(m) \subseteq IF pc[m] = "idle" THEN {} ELSE {named[m]}
  /\ known[m] # None /\ pc[m] \notin {"dropGroup", "terminate", "confirm"} => GroupFound(m) \/ Untagged(m)
  /\ pc[m] \in {"move", "dropGroup"} => Groups(m) \subseteq {seen[m].group}
  /\ pc[m] \in {"terminate", "confirm"} => Groups(m) = {}
  /\ known[m] # None /\ Tags(m).state # "running" => Groups(m) = {}
RecordsTidy(m) ==
  /\ known[m] = None => Records(m) = {}
  /\ known[m] # None /\ pc[m] \in {"idle", "nameTag", "reply"} =>
       Records(m) \subseteq IF Tags(m).zone THEN {Tags(m).name} ELSE {}
  /\ pc[m] = "zoneTag" => Records(m) \subseteq IF seen[m].zone THEN {seen[m].name} ELSE {}
  /\ pc[m] \in {"dropRecord", "unregister"} => Records(m) \subseteq {seen[m].name}
  /\ pc[m] \in (Deleting \cup {"makeRecord"}) \ {"unregister"} => Records(m) = {}
  /\ known[m] # None /\ Tags(m).state # "running" => Records(m) = {}
Tidy(m) == "left" \notin trouble => GroupsTidy(m) /\ RecordsTidy(m)

(* No instance is forgotten before it has been told to end.                 *)
Accounted(n) ==
  /\ inst[n].state \in {"none", "gone"} => inst[n].for = None
  /\ "left" \notin trouble /\ inst[n].for # None /\ inst[n].state # "stopping" =>
       known[inst[n].for] = n

(* What the tags say is so in the DNS, unless an operation ended half-way.  *)
Registered(m) == failed[m] = {} =>
  /\ known[m] # None /\ pc[m] = "idle" /\ Tags(m).zone =>
       Tags(m).name \in NamesOf[m] /\ records[Tags(m).name] = known[m]
  /\ outcome[m] = "configured" /\ pc[m] = "idle" => Tags(m).zone
  /\ pc[m] \in {"nameTag", "zoneTag"} /\ seen[m].zone =>
       seen[m].name \in NamesOf[m] /\ records[seen[m].name] = known[m]
  /\ pc[m] = "reply" => records[named[m]] = known[m]

(* The names of a machine lead to its own instance or nowhere.              *)
Led(m) == "left" \notin trouble => \A x \in NamesOf[m] : records[x] \in {None, known[m]}

TidyInv ==
  /\ IInv
  /\ \A m \in Machines : Follows(m) /\ Tidy(m) /\ Registered(m) /\ Led(m)
  /\ \A n \in Instances : Accounted(n)

(* What a step of m's operation leaves alone.                               *)
Beside(m) ==
  /\ \A k \in Machines \ {m} :
       /\ named'[k] = named[k] /\ pc'[k] = pc[k] /\ known'[k] = known[k]
       /\ outcome'[k] = outcome[k] /\ seen'[k] = seen[k] /\ failed'[k] = failed[k]
       /\ known[k] # None => inst'[known[k]] = inst[known[k]]
       /\ \A x \in NamesOf[k] : records'[x] = records[x] /\ (x \in groups' => x \in groups)
  /\ trouble \subseteq trouble'

LEMMA OthersTidy ==
  ASSUME TidyInv, NEW m \in Machines, Beside(m), NEW k \in Machines \ {m}
  PROVE  Follows(k)' /\ Tidy(k)' /\ Registered(k)' /\ Led(k)'
<1>1. /\ named'[k] = named[k] /\ pc'[k] = pc[k] /\ known'[k] = known[k]
      /\ outcome'[k] = outcome[k] /\ seen'[k] = seen[k] /\ failed'[k] = failed[k]
      /\ known[k] # None => Tags(k)' = Tags(k)
      /\ \A x \in NamesOf[k] : records'[x] = records[x] /\ (x \in groups' => x \in groups)
      /\ trouble \subseteq trouble'
  BY DEF Beside, Tags
<1>2. Records(k)' = Records(k) /\ Groups(k)' \subseteq Groups(k)
  BY <1>1 DEF Records, Groups
<1>3. /\ Follows(k) /\ Tidy(k) /\ Registered(k) /\ Led(k) /\ named[k] \in NamesOf[k]
      /\ pc[k] \in Configuring \cup Deleting => known[k] # None
      /\ outcome[k] # "none" => known[k] # None
  BY Phases DEF TidyInv, IInv, TypeOK, Sound
<1>4. Follows(k)'
  BY <1>1, <1>3, Phases DEF Follows, Found
<1>5. Tidy(k)'
  BY <1>1, <1>2, <1>3 DEF Tidy, GroupsTidy, RecordsTidy, GroupFound, Untagged
<1>6. Registered(k)'
  BY <1>1, <1>3, Phases DEF Registered
<1>7. Led(k)'
  BY <1>1, <1>3 DEF Led
<1>. QED
  BY <1>4, <1>5, <1>6, <1>7

(* One name belongs to one machine.                                         *)
LEMMA NamesApart ==
  ASSUME NEW m \in Machines, NEW k \in Machines \ {m}
  PROVE  NamesOf[m] \cap NamesOf[k] = {} /\ None \notin NamesOf[k] /\ NamesOf[k] \subseteq Names
BY AwsAssumption

Moves(m) ==
  \/ Rename(m) \/ CreateGroup(m) \/ BeginConfigure(m) \/ BeginDelete(m)
  \/ Step(m) \/ CallFails(m)

LEMMA TroubleGrows ==
  ASSUME NEW m \in Machines, Moves(m)
  PROVE  trouble \subseteq trouble'
BY DEF Moves, Step, Rename, CreateGroup, BeginConfigure, BeginDelete, AllowSsh, RunInstance,
       Rollback, NameTag, ZoneTag, DropRecord, MakeRecord, Reply, Unregister, FindGroup, Move,
       DropGroup, Terminate, Confirm, CallFails, NotFound, Smoothly, mishaps, Harmless,
       Leaving, LeftIf

LEMMA CallersApart ==
  ASSUME TidyInv, NEW m \in Machines, Moves(m), NEW k \in Machines \ {m}
  PROVE  /\ named'[k] = named[k] /\ pc'[k] = pc[k] /\ known'[k] = known[k]
         /\ outcome'[k] = outcome[k] /\ seen'[k] = seen[k] /\ failed'[k] = failed[k]
<1>1. /\ named \in [Machines -> Names] /\ pc \in [Machines -> Calls]
      /\ known \in [Machines -> Instances \cup {None}]
      /\ outcome \in [Machines -> Outcomes] /\ seen \in [Machines -> WhatIsRead]
      /\ failed \in [Machines -> SUBSET {"configureNode", "deleteNode"}]
  BY DEF TidyInv, IInv, TypeOK
<1>2. UNCHANGED pc \/ \E call : pc' = [pc EXCEPT ![m] = call]
  BY DEF Moves, Step, Rename, CreateGroup, BeginConfigure, BeginDelete, AllowSsh, RunInstance,
       Rollback, NameTag, ZoneTag, DropRecord, MakeRecord, Reply, Unregister, FindGroup, Move,
       DropGroup, Terminate, Confirm, CallFails, NotFound, Go, Begin, End
<1>3. UNCHANGED known \/ \E n : known' = [known EXCEPT ![m] = n]
  BY DEF Moves, Step, Rename, CreateGroup, BeginConfigure, BeginDelete, AllowSsh, RunInstance,
       Rollback, NameTag, ZoneTag, DropRecord, MakeRecord, Reply, Unregister, FindGroup, Move,
       DropGroup, Terminate, Confirm, CallFails, NotFound, Go, Begin
<1>4. UNCHANGED outcome \/ \E how : outcome' = [outcome EXCEPT ![m] = how]
  BY DEF Moves, Step, Rename, CreateGroup, BeginConfigure, BeginDelete, AllowSsh, RunInstance,
       Rollback, NameTag, ZoneTag, DropRecord, MakeRecord, Reply, Unregister, FindGroup, Move,
       DropGroup, Terminate, Confirm, CallFails, NotFound, Go, Begin, End
<1>5. UNCHANGED named \/ \E x : named' = [named EXCEPT ![m] = x]
  BY DEF Moves, Step, Rename, CreateGroup, BeginConfigure, BeginDelete, AllowSsh, RunInstance,
       Rollback, NameTag, ZoneTag, DropRecord, MakeRecord, Reply, Unregister, FindGroup, Move,
       DropGroup, Terminate, Confirm, CallFails, NotFound
<1>6. seen'[k] = seen[k]
  BY <1>1 DEF Moves, Step, Rename, CreateGroup, BeginConfigure, BeginDelete, AllowSsh, RunInstance,
       Rollback, NameTag, ZoneTag, DropRecord, MakeRecord, Reply, Unregister, FindGroup, Move,
       DropGroup, Terminate, Confirm, CallFails, NotFound, End
<1>7. UNCHANGED failed \/ \E s : failed' = [failed EXCEPT ![m] = s]
  BY DEF Moves, Step, Rename, CreateGroup, BeginConfigure, BeginDelete, AllowSsh, RunInstance,
       Rollback, NameTag, ZoneTag, DropRecord, MakeRecord, Reply, Unregister, FindGroup, Move,
       DropGroup, Terminate, Confirm, CallFails, NotFound, Go, Begin, End
<1>. QED
  BY <1>1, <1>2, <1>3, <1>4, <1>5, <1>6, <1>7

LEMMA CloudApart ==
  ASSUME TidyInv, NEW m \in Machines, Moves(m), NEW k \in Machines \ {m}
  PROVE  /\ known[k] # None => inst'[known[k]] = inst[known[k]]
         /\ \A x \in NamesOf[k] : records'[x] = records[x] /\ (x \in groups' => x \in groups)
<1>1. known[k] # None => inst'[known[k]] = inst[known[k]]
  <2>1. \/ UNCHANGED inst
        \/ \E t : Retag(known[m], t)
        \/ Fresh # {} /\ \E t : Retag(NewId, t)
    BY DEF Moves, Step, Rename, CreateGroup, BeginConfigure, BeginDelete, AllowSsh, RunInstance,
       Rollback, NameTag, ZoneTag, DropRecord, MakeRecord, Reply, Unregister, FindGroup, Move,
       DropGroup, Terminate, Confirm, CallFails, NotFound, cloud
  <2>2. known[k] # None => known[k] \in Instances /\ known[k] # known[m]
    BY DEF TidyInv, IInv, TypeOK, Apart
  <2>3. Fresh # {} => known[k] # NewId
    BY NewIdIsNew DEF TidyInv
  <2>4. inst \in [Instances -> InstanceTags]
    BY DEF TidyInv, IInv, TypeOK
  <2>. QED
    BY <2>1, <2>2, <2>3, <2>4 DEF Retag
<1>2. NamesOf[m] \cap NamesOf[k] = {} /\ None \notin NamesOf[k] /\ NamesOf[k] \subseteq Names
  BY NamesApart
<1>3. named[m] \in NamesOf[m] /\ seen[m].name \in NamesOf[m] \cup {None}
  BY DEF TidyInv, IInv, Sound, Follows
<1>4. \A x \in NamesOf[k] : records'[x] = records[x]
  <2>1. UNCHANGED records \/ Unregistered(m) \/ records' = [records EXCEPT ![named[m]] = known[m]]
    BY DEF Moves, Step, Rename, CreateGroup, BeginConfigure, BeginDelete, AllowSsh, RunInstance,
       Rollback, NameTag, ZoneTag, DropRecord, MakeRecord, Reply, Unregister, FindGroup, Move,
       DropGroup, Terminate, Confirm, CallFails, NotFound, cloud
  <2>2. records \in [Names -> Instances \cup {None}]
    BY DEF TidyInv, IInv, TypeOK
  <2>. QED
    BY <1>2, <1>3, <2>1, <2>2 DEF Unregistered
<1>5. groups' \subseteq groups \cup {named[m]}
  BY DEF Moves, Step, Rename, CreateGroup, BeginConfigure, BeginDelete, AllowSsh, RunInstance,
       Rollback, NameTag, ZoneTag, DropRecord, MakeRecord, Reply, Unregister, FindGroup, Move,
       DropGroup, Terminate, Confirm, CallFails, NotFound, cloud
<1>. QED
  BY <1>1, <1>2, <1>3, <1>4, <1>5

LEMMA MovesBeside ==
  ASSUME TidyInv, NEW m \in Machines, Moves(m)
  PROVE  Beside(m)
BY CallersApart, CloudApart, TroubleGrows DEF Beside

-----------------------------------------------------------------------------
(* What an operation does to its own machine.                               *)

LEMMA Facts ==
  ASSUME TidyInv, NEW m \in Machines
  PROVE  /\ Follows(m) /\ Tidy(m) /\ Registered(m) /\ Led(m)
         /\ named[m] \in NamesOf[m] /\ NamesOf[m] \subseteq Names /\ None \notin Names
         /\ known[m] = None <=> outcome[m] = "none"
         /\ pc[m] \in Configuring \cup Deleting => known[m] # None
         /\ pc[m] \in Creating => known[m] = None
         /\ Kept(m) =>
              Tags(m).state = "running" /\ Tags(m).for = m /\ Tags(m).group \in NamesOf[m]
         /\ known[m] # None => Tags(m) \in InstanceTags
         /\ pc[m] \in Calls /\ seen[m] \in WhatIsRead /\ outcome[m] \in Outcomes
<1>1. IInv /\ Follows(m) /\ Tidy(m) /\ Registered(m) /\ Led(m)
  BY DEF TidyInv
<1>. QED
  BY <1>1, AwsAssumption, Phases DEF IInv, TypeOK, Sound, Own, Tags

(* What a configuration can rely on, unless its instance is gone.           *)
LEMMA StillFollows ==
  ASSUME TidyInv, NEW m \in Machines, pc[m] \in Configuring
  PROVE  /\ Tags(m).name \in NamesOf[m] \cup {None}
         /\ Found(m) =>
              /\ pc[m] = "nameTag" => seen[m].name = Tags(m).name
              /\ pc[m] \in {"nameTag", "zoneTag"} => seen[m].zone = Tags(m).zone
              /\ pc[m] # "nameTag" => Tags(m).name = named[m]
              /\ pc[m] \in {"dropRecord", "makeRecord", "reply"} => Tags(m).zone
         /\ ~Found(m) /\ "left" \notin trouble => Groups(m) = {} /\ Records(m) = {}
         /\ failed[m] = {} => Kept(m) /\ Found(m)
<1>1. known[m] # None /\ pc[m] \notin Deleting
  BY Facts, Phases
<1>2. Follows(m) /\ Tidy(m)
  BY Facts
<1>3. failed[m] = {} => Kept(m) /\ Found(m)
  BY <1>1, Facts DEF Kept, Found
<1>4. ~Found(m) /\ "left" \notin trouble => Groups(m) = {} /\ Records(m) = {}
  BY <1>1, <1>2 DEF Found, Tidy, GroupsTidy, RecordsTidy
<1>. QED
  BY <1>1, <1>2, <1>3, <1>4 DEF Follows

LEMMA RenameTidy ==
  ASSUME TidyInv, NEW m \in Machines, Rename(m)
  PROVE  Follows(m)' /\ Tidy(m)' /\ Registered(m)'
<1>1. /\ pc[m] = "idle"
      /\ UNCHANGED <<groups, inst, records, known, pc, seen, outcome, failed, trouble>>
  BY DEF Rename, At, cloud, mishaps
<1>2. Tags(m)' = Tags(m) /\ Groups(m)' = Groups(m) /\ Records(m)' = Records(m)
  BY <1>1 DEF Tags, Groups, Records
<1>. QED
  BY <1>1, <1>2, Facts, Phases
     DEF Follows, Found, Tidy, GroupsTidy, RecordsTidy, GroupFound, Untagged, Registered

(* While no instance is known there are at most the group that is being     *)
(* made and no record.                                                      *)
LEMMA NoneKnown ==
  ASSUME NEW m \in Machines,
         known'[m] = None, outcome'[m] = "none", pc'[m] \in Creating \cup {"idle"},
         seen'[m].name \in NamesOf[m] \cup {None},
         "left" \notin trouble' =>
           /\ Groups(m)' \subseteq IF pc'[m] = "idle" THEN {} ELSE {named'[m]}
           /\ Records(m)' = {}
  PROVE  Follows(m)' /\ Tidy(m)' /\ Registered(m)'
<1>1. /\ pc'[m] \notin Configuring \cup Deleting
      /\ pc'[m] \notin {"nameTag", "zoneTag", "dropRecord", "makeRecord", "reply", "unregister",
                        "move", "dropGroup", "terminate", "confirm"}
  BY Phases
<1>2. Follows(m)'
  BY <1>1 DEF Follows
<1>3. "left" \notin trouble' => GroupsTidy(m)' /\ RecordsTidy(m)'
  BY <1>1 DEF GroupsTidy, RecordsTidy
<1>4. Registered(m)'
  BY <1>1 DEF Registered
<1>. QED
  BY <1>2, <1>3, <1>4 DEF Tidy

LEMMA NoneBefore ==
  ASSUME TidyInv, NEW m \in Machines, known[m] = None, trouble \subseteq trouble'
  PROVE  /\ "left" \notin trouble' =>
              /\ Groups(m) \subseteq IF pc[m] = "idle" THEN {} ELSE {named[m]}
              /\ Records(m) = {}
         /\ outcome[m] = "none" /\ seen[m].name \in NamesOf[m] \cup {None}
BY Facts DEF Tidy, GroupsTidy, RecordsTidy, Follows

LEMMA CreateGroupTidy ==
  ASSUME TidyInv, NEW m \in Machines, CreateGroup(m)
  PROVE  Follows(m)' /\ Tidy(m)' /\ Registered(m)'
<1>1. /\ pc[m] = "idle" /\ known[m] = None /\ groups' = groups \cup {named[m]}
      /\ UNCHANGED <<inst, records, known, named, seen, outcome>>
      /\ \/ pc' = [pc EXCEPT ![m] = "allowSsh"] /\ UNCHANGED trouble
         \/ UNCHANGED pc /\ "left" \in trouble'
      /\ trouble \subseteq trouble'
  BY DEF CreateGroup, At, Go, Smoothly, mishaps, Leaving
<1>2. /\ Records(m)' = Records(m)
      /\ Groups(m)' \subseteq Groups(m) \cup {named[m]}
  BY <1>1 DEF Groups, Records
<1>3. /\ pc'[m] \in Creating \cup {"idle"}
      /\ "left" \notin trouble' => pc'[m] = "allowSsh"
  BY <1>1, Phases DEF TidyInv, IInv, TypeOK
<1>. QED
  BY <1>1, <1>2, <1>3, NoneBefore, NoneKnown

LEMMA AllowSshTidy ==
  ASSUME TidyInv, NEW m \in Machines, AllowSsh(m)
  PROVE  Follows(m)' /\ Tidy(m)' /\ Registered(m)'
<1>1. /\ pc[m] = "allowSsh" /\ UNCHANGED <<groups, inst, records, known, named, seen, outcome, trouble>>
      /\ \E call \in {"runInstance", "rollback"} : pc' = [pc EXCEPT ![m] = call]
  BY DEF AllowSsh, At, Go, Smoothly, mishaps, Harmless, cloud
<1>2. Groups(m)' = Groups(m) /\ Records(m)' = Records(m)
  BY <1>1 DEF Groups, Records
<1>3. pc'[m] \in {"runInstance", "rollback"} /\ pc'[m] \in Creating /\ known[m] = None
  BY <1>1, Facts, Phases DEF TidyInv, IInv, TypeOK
<1>. QED
  BY <1>1, <1>2, <1>3, NoneBefore, NoneKnown

LEMMA RunInstanceTidy ==
  ASSUME TidyInv, NEW m \in Machines, RunInstance(m)
  PROVE  Follows(m)' /\ Tidy(m)' /\ Registered(m)'
<1>1. /\ pc[m] = "runInstance" /\ known[m] = None /\ outcome[m] = "none"
      /\ UNCHANGED <<groups, records, named>> /\ trouble \subseteq trouble'
  BY Facts, Phases, TroubleGrows DEF RunInstance, At, Moves, Step
<1>2. Groups(m)' = Groups(m) /\ Records(m)' = Records(m)
  BY <1>1 DEF Groups, Records
<1>3. CASE Go(m, "rollback") /\ UNCHANGED seen
  <2>1. pc'[m] = "rollback" /\ pc'[m] \in Creating /\ known' = known /\ outcome' = outcome
    BY <1>3, Phases DEF Go, TidyInv, IInv, TypeOK
  <2>. QED
    BY <1>1, <1>2, <1>3, <2>1, NoneBefore, NoneKnown
<1>4. CASE /\ Fresh # {} /\ Retag(NewId, Started(m))
           /\ known' = [known EXCEPT ![m] = NewId] /\ End(m, "made")
  <2>1. NewId \in Instances /\ NewId # None
    BY <1>4, NewIdIsNew, AwsAssumption DEF TidyInv
  <2>2. known'[m] = NewId /\ inst'[NewId] = Started(m)
    BY <1>4, <2>1 DEF Retag, TidyInv, IInv, TypeOK
  <2>3. pc'[m] = "idle" /\ seen'[m] = NothingSeen /\ outcome'[m] = "made"
    BY <1>4 DEF End, TidyInv, IInv, TypeOK
  <2>4. /\ Tags(m)'.name = None /\ Tags(m)'.zone = FALSE /\ Tags(m)'.group = named[m]
        /\ Tags(m)'.state = "running"
    BY <2>2 DEF Tags, Started
  <2>5. "left" \notin trouble' => Groups(m)' \subseteq {named[m]} /\ Records(m)' = {}
    BY <1>1, <1>2, NoneBefore
  <2>6. Follows(m)'
    BY <2>3, <2>4, Phases DEF Follows, Found, NothingSeen
  <2>7. "left" \notin trouble' => Untagged(m)'
    BY <2>3, <2>4, <2>5 DEF Untagged
  <2>8. Tidy(m)'
    BY <2>1, <2>2, <2>3, <2>4, <2>5, <2>7, Phases DEF Tidy, GroupsTidy, RecordsTidy
  <2>9. Registered(m)'
    BY <2>3, <2>4 DEF Registered
  <2>. QED
    BY <2>6, <2>8, <2>9
<1>. QED
  BY <1>3, <1>4 DEF RunInstance

LEMMA RollbackTidy ==
  ASSUME TidyInv, NEW m \in Machines, Rollback(m)
  PROVE  Follows(m)' /\ Tidy(m)' /\ Registered(m)'
<1>1. /\ pc[m] = "rollback" /\ known[m] = None
      /\ UNCHANGED <<inst, records, known, named>> /\ trouble \subseteq trouble'
      /\ "left" \notin trouble' => groups' = groups \ {named[m]}
  BY Facts, Phases, TroubleGrows DEF Rollback, At, LeftIf, Leaving, Moves, Step
<1>2. pc'[m] = "idle" /\ seen'[m].name = None /\ outcome'[m] = "none"
  BY DEF Rollback, End, TidyInv, IInv, TypeOK, NothingSeen
<1>3. Records(m)' = Records(m)
  BY <1>1 DEF Records
<1>4. "left" \notin trouble' => Groups(m)' = {}
  <2>1. "left" \notin trouble' => Groups(m) \subseteq {named[m]}
    BY <1>1, NoneBefore
  <2>. QED
    BY <1>1, <2>1 DEF Groups
<1>. QED
  BY <1>1, <1>2, <1>3, <1>4, NoneBefore, NoneKnown

(* deleteNode has returned.                                                 *)
LEMMA ConfirmTidy ==
  ASSUME TidyInv, NEW m \in Machines, Confirm(m)
  PROVE  Follows(m)' /\ Tidy(m)' /\ Registered(m)'
<1>1. pc[m] = "confirm" /\ UNCHANGED <<groups, inst, records, named, trouble>>
  BY DEF Confirm, At, Smoothly, mishaps, cloud
<1>2. known'[m] = None /\ pc'[m] = "idle" /\ seen'[m].name = None /\ outcome'[m] = "none"
  BY DEF Confirm, End, TidyInv, IInv, TypeOK, NothingSeen
<1>3. Groups(m)' = Groups(m) /\ Records(m)' = Records(m)
  BY <1>1 DEF Groups, Records
<1>4. "left" \notin trouble => Groups(m) = {} /\ Records(m) = {}
  BY <1>1, Facts, Phases DEF Tidy, GroupsTidy, RecordsTidy
<1>. QED
  BY <1>1, <1>2, <1>3, <1>4, NoneKnown

-----------------------------------------------------------------------------
LEMMA Retagged ==
  ASSUME TidyInv, NEW m \in Machines, known[m] # None, NEW t, Retag(known[m], t), known' = known
  PROVE  Tags(m)' = t
BY DEF TidyInv, IInv, TypeOK, Retag, Tags

LEMMA Went ==
  ASSUME TidyInv, NEW m \in Machines, NEW call, Go(m, call)
  PROVE  pc'[m] = call /\ known' = known /\ outcome' = outcome /\ failed' = failed
BY DEF TidyInv, IInv, TypeOK, Go

LEMMA Began ==
  ASSUME TidyInv, NEW m \in Machines, NEW call, NEW how, Begin(m, call, how)
  PROVE  pc'[m] = call /\ outcome'[m] = how /\ known' = known /\ failed' = failed
BY DEF TidyInv, IInv, TypeOK, Begin

LEMMA Ended ==
  ASSUME TidyInv, NEW m \in Machines, NEW how, End(m, how)
  PROVE  /\ pc'[m] = "idle" /\ outcome'[m] = how /\ seen'[m] = NothingSeen
         /\ failed'[m] = IF how \in {"none", "made"} THEN {} ELSE failed[m] \cup HalfDone(m, how)
BY DEF TidyInv, IInv, TypeOK, End

(* The operation on an instance that is known reaches its next call.        *)
LEMMA BeginConfigureTidy ==
  ASSUME TidyInv, NEW m \in Machines, BeginConfigure(m)
  PROVE  Follows(m)' /\ Tidy(m)' /\ Registered(m)'
<1>1. /\ pc[m] = "idle" /\ known[m] # None
      /\ UNCHANGED <<groups, inst, records, named, trouble>>
  BY DEF BeginConfigure, At, cloud, Smoothly, mishaps
<1>2. pc'[m] = "nameTag" /\ outcome'[m] = "unconfigured" /\ known' = known /\ failed' = failed
  BY Began DEF BeginConfigure
<1>3. seen'[m].name = Tags(m).name /\ seen'[m].zone = Tags(m).zone
  BY Facts DEF BeginConfigure, TidyInv, IInv, TypeOK, WhatIsRead
<1>4. Tags(m)' = Tags(m) /\ Groups(m)' = Groups(m) /\ Records(m)' = Records(m)
  BY <1>1, <1>2 DEF Tags, Groups, Records
<1>5. Follows(m)'
  BY <1>1, <1>2, <1>3, <1>4, Facts, Phases DEF Follows
<1>6. "left" \notin trouble => GroupsTidy(m) /\ RecordsTidy(m)
  BY Facts DEF Tidy
<1>7. "left" \notin trouble => GroupsTidy(m)' /\ RecordsTidy(m)'
  BY <1>1, <1>2, <1>3, <1>4, <1>6, Phases DEF GroupsTidy, RecordsTidy, GroupFound, Untagged
<1>8. Registered(m)'
  BY <1>1, <1>2, <1>3, <1>4, Facts DEF Registered
<1>. QED
  BY <1>1, <1>5, <1>7, <1>8 DEF Tidy

LEMMA NameTagTidy ==
  ASSUME TidyInv, NEW m \in Machines, NameTag(m)
  PROVE  Follows(m)' /\ Tidy(m)' /\ Registered(m)'
<1>1. /\ pc[m] = "nameTag" /\ UNCHANGED <<groups, records, named, seen>>
      /\ known[m] # None /\ Found(m) /\ outcome[m] # "none"
      /\ trouble \subseteq trouble'
  BY Facts, Phases, TroubleGrows DEF NameTag, At, Moves, Step
<1>2. pc'[m] = "zoneTag" /\ known' = known /\ outcome' = outcome /\ failed' = failed
  BY Went DEF NameTag
<1>3. Tags(m)' = [Tags(m) EXCEPT !.name = named[m]]
  BY <1>1, <1>2, Retagged DEF NameTag
<1>4. /\ Tags(m)'.name = named[m] /\ Tags(m)'.zone = Tags(m).zone
      /\ Tags(m)'.group = Tags(m).group /\ Tags(m)'.state = Tags(m).state
  BY <1>1, <1>3, Facts DEF InstanceTags
<1>5. Groups(m)' = Groups(m) /\ Records(m)' = Records(m)
  BY <1>1 DEF Groups, Records
<1>6. Follows(m)'
  BY <1>1, <1>2, <1>4, Facts, Phases DEF Follows, Found
<1>7. "left" \notin trouble' =>
        /\ "left" \notin trouble
        /\ Tags(m).group \in NamesOf[m] => <<Tags(m).group, named[m]>> \in StartsWith
  BY <1>1 DEF NameTag, LeftIf
<1>8. "left" \notin trouble' => Groups(m) \subseteq {Tags(m).group}
  BY <1>1, <1>7, Facts DEF Tidy, GroupsTidy, GroupFound, Untagged
<1>9. "left" \notin trouble' => GroupFound(m)'
  BY <1>4, <1>5, <1>7, <1>8 DEF GroupFound, Groups
<1>10. "left" \notin trouble' => GroupsTidy(m)'
  BY <1>1, <1>2, <1>4, <1>5, <1>7, <1>9, Facts, Phases DEF GroupsTidy, Tidy
<1>11. "left" \notin trouble' => RecordsTidy(m)'
  BY <1>1, <1>2, <1>4, <1>5, <1>7, Facts, Phases DEF Tidy, RecordsTidy, Follows
<1>12. Registered(m)'
  BY <1>1, <1>2, Facts DEF Registered
<1>. QED
  BY <1>6, <1>10, <1>11, <1>12 DEF Tidy

LEMMA ZoneTagTidy ==
  ASSUME TidyInv, NEW m \in Machines, ZoneTag(m)
  PROVE  Follows(m)' /\ Tidy(m)' /\ Registered(m)'
<1>1. /\ pc[m] = "zoneTag" /\ UNCHANGED <<groups, records, named, seen, trouble>>
      /\ known[m] # None /\ Found(m) /\ outcome[m] # "none"
  BY Facts, Phases DEF ZoneTag, At, Smoothly, mishaps
<1>2. pc'[m] = AfterZoneTag(m) /\ known' = known /\ outcome' = outcome /\ failed' = failed
  BY Went DEF ZoneTag
<1>3. Tags(m)' = [Tags(m) EXCEPT !.zone = TRUE]
  BY <1>1, <1>2, Retagged DEF ZoneTag
<1>4. /\ Tags(m)'.name = named[m] /\ Tags(m)'.zone = TRUE
      /\ Tags(m)'.group = Tags(m).group /\ Tags(m)'.state = Tags(m).state
      /\ Tags(m).name = named[m]
  BY <1>1, <1>3, Facts, Phases DEF InstanceTags, Follows
<1>5. Groups(m)' = Groups(m) /\ Records(m)' = Records(m)
  BY <1>1 DEF Groups, Records
<1>6. Follows(m)'
  BY <1>1, <1>2, <1>4, Facts, Phases DEF Follows, Found, AfterZoneTag
<1>7. "left" \notin trouble => GroupFound(m)'
  BY <1>1, <1>4, <1>5, Facts DEF Tidy, GroupsTidy, GroupFound, Untagged
<1>8. "left" \notin trouble => GroupsTidy(m)'
  BY <1>1, <1>2, <1>4, <1>5, <1>7, Facts, Phases DEF Tidy, GroupsTidy, AfterZoneTag
<1>9. "left" \notin trouble => RecordsTidy(m)'
  BY <1>1, <1>2, <1>4, <1>5, Facts, Phases DEF Tidy, RecordsTidy, AfterZoneTag
<1>10. Registered(m)'
  BY <1>1, <1>2, Facts DEF Registered, AfterZoneTag
<1>. QED
  BY <1>1, <1>6, <1>8, <1>9, <1>10 DEF Tidy

(* The record of the old name goes.                                         *)
LEMMA Unrecorded ==
  ASSUME NEW m \in Machines, NamesOf[m] \subseteq Names, Unregistered(m),
         Records(m) \subseteq {seen[m].name}
  PROVE  Records(m)' = {}
BY DEF Unregistered, Records

LEMMA DropRecordTidy ==
  ASSUME TidyInv, NEW m \in Machines, DropRecord(m)
  PROVE  Follows(m)' /\ Tidy(m)' /\ Registered(m)'
<1>1. /\ pc[m] = "dropRecord" /\ UNCHANGED <<groups, inst, named, seen, trouble>>
      /\ known[m] # None /\ outcome[m] # "none"
  BY Facts, Phases DEF DropRecord, At, Smoothly, mishaps
<1>2. pc'[m] = "makeRecord" /\ known' = known /\ outcome' = outcome /\ failed' = failed
  BY Went DEF DropRecord
<1>3. Tags(m)' = Tags(m) /\ Groups(m)' = Groups(m)
  BY <1>1, <1>2 DEF Tags, Groups
<1>4. "left" \notin trouble => Records(m)' = {}
  BY <1>1, Facts, Unrecorded DEF DropRecord, Tidy, RecordsTidy
<1>5. Follows(m)'
  BY <1>1, <1>2, <1>3, Facts, Phases DEF Follows, Found
<1>6. "left" \notin trouble => GroupsTidy(m)'
  BY <1>1, <1>2, <1>3, Facts, Phases DEF Tidy, GroupsTidy, GroupFound, Untagged
<1>7. "left" \notin trouble => RecordsTidy(m)'
  BY <1>2, <1>4, Phases DEF RecordsTidy
<1>8. Registered(m)'
  BY <1>2 DEF Registered
<1>. QED
  BY <1>1, <1>5, <1>6, <1>7, <1>8 DEF Tidy

LEMMA MakeRecordTidy ==
  ASSUME TidyInv, NEW m \in Machines, MakeRecord(m)
  PROVE  Follows(m)' /\ Tidy(m)' /\ Registered(m)'
<1>1. /\ pc[m] = "makeRecord" /\ UNCHANGED <<groups, inst, named>>
      /\ known[m] # None /\ outcome[m] # "none" /\ trouble \subseteq trouble'
      /\ Found(m) => Tags(m).name = named[m] /\ Tags(m).zone
  BY Facts, Phases, TroubleGrows DEF MakeRecord, At, Moves, Step, Follows
<1>2. "left" \notin trouble => Records(m) = {}
  BY <1>1, Facts, Phases DEF Tidy, RecordsTidy
<1>3. CASE Go(m, "reply") /\ UNCHANGED seen /\ LeftIf(Tags(m).state # "running")
           /\ records' = [records EXCEPT ![named[m]] = known[m]]
  <2>1. pc'[m] = "reply" /\ known' = known /\ outcome' = outcome /\ failed' = failed
    BY <1>3, Went
  <2>. "left" \notin trouble' => "left" \notin trouble /\ Tags(m).state = "running" /\ Found(m)
    BY <1>3 DEF LeftIf, Found
  <2>2. Tags(m)' = Tags(m) /\ Groups(m)' = Groups(m)
    BY <1>1, <2>1 DEF Tags, Groups
  <2>3. records'[named[m]] = known[m] /\ ("left" \notin trouble => Records(m)' \subseteq {named[m]})
    BY <1>2, <1>3, Facts DEF Records, TidyInv, IInv, TypeOK
  <2>4. Follows(m)'
    BY <1>1, <1>3, <2>1, <2>2, Facts, Phases DEF Follows, Found
  <2>5. "left" \notin trouble' => GroupsTidy(m)'
    BY <1>1, <2>1, <2>2, Facts, Phases DEF Tidy, GroupsTidy, GroupFound, Untagged
  <2>6. "left" \notin trouble' => RecordsTidy(m)'
    BY <1>1, <2>1, <2>2, <2>3, Phases DEF RecordsTidy
  <2>7. Registered(m)'
    BY <1>1, <2>1, <2>3 DEF Registered
  <2>. QED
    BY <1>1, <2>4, <2>5, <2>6, <2>7 DEF Tidy
<1>4. CASE End(m, "unconfigured") /\ UNCHANGED <<records, known, trouble>>
  <2>1. /\ pc'[m] = "idle" /\ outcome'[m] = "unconfigured" /\ seen'[m] = NothingSeen
        /\ failed'[m] # {}
    <3>1. "configureNode" \in HalfDone(m, "unconfigured")
      BY <1>1 DEF HalfDone, Unfinished, At
    <3>2. /\ pc'[m] = "idle" /\ outcome'[m] = "unconfigured" /\ seen'[m] = NothingSeen
          /\ failed'[m] = failed[m] \cup HalfDone(m, "unconfigured")
      BY <1>4, Ended
    <3>. QED
      BY <3>1, <3>2
  <2>2. Tags(m)' = Tags(m) /\ Groups(m)' = Groups(m) /\ Records(m)' = Records(m)
    BY <1>1, <1>4 DEF Tags, Groups, Records
  <2>3. Follows(m)'
    BY <1>1, <1>4, <2>1, <2>2, Facts, Phases DEF Follows, NothingSeen
  <2>4. "left" \notin trouble => GroupsTidy(m)'
    BY <1>1, <1>4, <2>1, <2>2, Facts, Phases DEF Tidy, GroupsTidy, GroupFound, Untagged
  <2>5. "left" \notin trouble => RecordsTidy(m)'
    BY <1>1, <1>2, <1>4, <2>1, <2>2, Phases DEF RecordsTidy
  <2>6. Registered(m)'
    BY <2>1 DEF Registered
  <2>. QED
    BY <1>4, <2>3, <2>4, <2>5, <2>6 DEF Tidy
<1>. QED
  BY <1>3, <1>4 DEF MakeRecord, Smoothly, mishaps

LEMMA ReplyTidy ==
  ASSUME TidyInv, NEW m \in Machines, Reply(m)
  PROVE  Follows(m)' /\ Tidy(m)' /\ Registered(m)'
<1>1. /\ pc[m] = "reply" /\ UNCHANGED <<groups, inst, records, known, named, trouble>>
      /\ known[m] # None /\ outcome[m] # "none"
      /\ Tags(m).name = named[m] /\ Tags(m).zone
  BY Facts, Phases DEF Reply, At, Smoothly, mishaps, cloud, Follows
<1>2. /\ pc'[m] = "idle" /\ outcome'[m] = "configured" /\ seen'[m] = NothingSeen
      /\ failed'[m] = {} => failed[m] = {}
  BY Ended DEF Reply
<1>3. Tags(m)' = Tags(m) /\ Groups(m)' = Groups(m) /\ Records(m)' = Records(m)
  BY <1>1 DEF Tags, Groups, Records
<1>4. Follows(m)'
  BY <1>1, <1>2, <1>3, Facts, Phases DEF Follows, NothingSeen
<1>5. "left" \notin trouble => GroupsTidy(m)'
  BY <1>1, <1>2, <1>3, Facts, Phases DEF Tidy, GroupsTidy, GroupFound, Untagged
<1>6. "left" \notin trouble => RecordsTidy(m)'
  BY <1>1, <1>2, <1>3, Facts, Phases DEF Tidy, RecordsTidy
<1>7. Registered(m)'
  BY <1>1, <1>2, <1>3, Facts DEF Registered
<1>. QED
  BY <1>1, <1>4, <1>5, <1>6, <1>7 DEF Tidy

-----------------------------------------------------------------------------
(* In a deletion nothing is said of tags and the configuration.             *)
LEMMA WhileDeleting ==
  ASSUME NEW m \in Machines, pc'[m] \in Deleting,
         Tags(m)'.name \in NamesOf[m] \cup {None}, seen'[m].name \in NamesOf[m] \cup {None}
  PROVE  Follows(m)' /\ Registered(m)'
<1>1. pc'[m] \notin {"idle", "nameTag", "zoneTag", "dropRecord", "makeRecord", "reply"}
      /\ pc'[m] \notin Configuring
  BY Phases
<1>2. pc'[m] # "idle"
  BY Phases
<1>. QED
  BY <1>1, <1>2 DEF Follows, Registered

(* After a failed deletion.                                                 *)
LEMMA Undeleted ==
  ASSUME TidyInv, NEW m \in Machines, End(m, "undeleted"), known'[m] # None,
         Tags(m)'.name \in NamesOf[m] \cup {None},
         "left" \notin trouble' =>
           /\ GroupFound(m)' /\ Records(m)' = {}
           /\ Tags(m)'.state # "running" => Groups(m)' = {}
  PROVE  Follows(m)' /\ Tidy(m)' /\ Registered(m)'
<1>1. /\ pc'[m] = "idle" /\ outcome'[m] = "undeleted" /\ seen'[m] = NothingSeen
      /\ failed'[m] # {}
  BY Ended DEF HalfDone
<1>2. Follows(m)'
  BY <1>1, Phases DEF Follows, NothingSeen
<1>3. "left" \notin trouble' => GroupsTidy(m)' /\ RecordsTidy(m)'
  BY <1>1, Phases DEF GroupsTidy, RecordsTidy
<1>4. Registered(m)'
  BY <1>1 DEF Registered
<1>. QED
  BY <1>2, <1>3, <1>4 DEF Tidy

LEMMA BeginDeleteTidy ==
  ASSUME TidyInv, NEW m \in Machines, BeginDelete(m)
  PROVE  Follows(m)' /\ Tidy(m)' /\ Registered(m)'
<1>1. /\ pc[m] = "idle" /\ known[m] # None /\ UNCHANGED <<groups, inst, records, named>>
      /\ "left" \notin trouble' => "left" \notin trouble /\ outcome[m] # "made"
  BY DEF BeginDelete, At, cloud, LeftIf
<1>2. /\ pc'[m] = IF Tags(m).state = "gone" THEN "confirm"
                  ELSE IF Tags(m).zone THEN "unregister" ELSE "findGroup"
      /\ known' = known
  BY Began DEF BeginDelete, Found
<1>3. seen'[m].name = Tags(m).name
  BY Facts DEF BeginDelete, TidyInv, IInv, TypeOK, WhatIsRead
<1>4. Tags(m)' = Tags(m) /\ Groups(m)' = Groups(m) /\ Records(m)' = Records(m)
  BY <1>1, <1>2 DEF Tags, Groups, Records
<1>5. "left" \notin trouble' => GroupsTidy(m) /\ RecordsTidy(m)
  BY <1>1, Facts DEF Tidy
<1>6. "left" \notin trouble' => GroupsTidy(m)'
  BY <1>1, <1>2, <1>4, <1>5 DEF GroupsTidy, GroupFound, Untagged
<1>7. "left" \notin trouble' => RecordsTidy(m)'
  BY <1>1, <1>2, <1>3, <1>4, <1>5 DEF RecordsTidy
<1>8. pc'[m] \in Deleting
  BY <1>2, Phases
<1>9. Tags(m).name \in NamesOf[m] \cup {None}
  BY <1>1, Facts DEF Follows
<1>. QED
  BY <1>3, <1>4, <1>6, <1>7, <1>8, <1>9, WhileDeleting DEF Tidy

LEMMA UnregisterTidy ==
  ASSUME TidyInv, NEW m \in Machines, Unregister(m)
  PROVE  Follows(m)' /\ Tidy(m)' /\ Registered(m)'
<1>1. /\ pc[m] = "unregister" /\ known[m] # None /\ UNCHANGED <<groups, inst, named, seen>>
      /\ "left" \notin trouble' => "left" \notin trouble /\ Unregistered(m)
  BY Facts, Phases DEF Unregister, At, Leaving, Smoothly, mishaps
<1>2. pc'[m] = "findGroup" /\ pc'[m] \in Deleting /\ known' = known
  BY Went, Phases DEF Unregister
<1>3. Tags(m)' = Tags(m) /\ Groups(m)' = Groups(m)
  BY <1>1, <1>2 DEF Tags, Groups
<1>4. "left" \notin trouble' => GroupsTidy(m) /\ RecordsTidy(m)
  BY <1>1, Facts DEF Tidy
<1>5. "left" \notin trouble' => Records(m)' = {}
  BY <1>1, <1>4, Facts, Unrecorded DEF RecordsTidy
<1>6. "left" \notin trouble' => GroupsTidy(m)'
  BY <1>1, <1>2, <1>3, <1>4 DEF GroupsTidy, GroupFound, Untagged
<1>7. "left" \notin trouble' => RecordsTidy(m)'
  BY <1>2, <1>5 DEF RecordsTidy
<1>8. Tags(m).name \in NamesOf[m] \cup {None} /\ seen[m].name \in NamesOf[m] \cup {None}
  BY <1>1, Facts DEF Follows
<1>. QED
  BY <1>1, <1>2, <1>3, <1>6, <1>7, <1>8, WhileDeleting DEF Tidy

LEMMA FindGroupTidy ==
  ASSUME TidyInv, NEW m \in Machines, FindGroup(m)
  PROVE  Follows(m)' /\ Tidy(m)' /\ Registered(m)'
<1>1. /\ pc[m] = "findGroup" /\ known[m] # None
      /\ UNCHANGED <<groups, inst, records, named, trouble>>
  BY Facts, Phases DEF FindGroup, At, Smoothly, mishaps, cloud
<1>2. /\ known' = known
      /\ IF <<Tags(m).group, Tags(m).name>> \in StartsWith
         THEN pc'[m] = "move" ELSE pc'[m] = "terminate"
  BY Went DEF FindGroup, WithoutGroup
<1>3. /\ seen'[m].name = seen[m].name
      /\ pc'[m] = "move" => seen'[m].group = Tags(m).group
  BY <1>2, Facts DEF FindGroup, TidyInv, IInv, TypeOK, WhatIsRead
<1>4. Tags(m)' = Tags(m) /\ Groups(m)' = Groups(m) /\ Records(m)' = Records(m)
  BY <1>1, <1>2 DEF Tags, Groups, Records
<1>5. "left" \notin trouble => GroupsTidy(m) /\ RecordsTidy(m)
  BY Facts DEF Tidy
<1>6. "left" \notin trouble =>
        GroupFound(m) /\ (pc'[m] = "move" => Groups(m) \subseteq {Tags(m).group})
        /\ (pc'[m] # "move" => Groups(m) = {})
  BY <1>1, <1>2, <1>5 DEF GroupsTidy, GroupFound, Untagged
<1>7. "left" \notin trouble => GroupsTidy(m)'
  BY <1>1, <1>2, <1>3, <1>4, <1>5, <1>6 DEF GroupsTidy, GroupFound
<1>8. "left" \notin trouble => RecordsTidy(m)'
  BY <1>1, <1>2, <1>4, <1>5, Phases DEF RecordsTidy
<1>9. Tags(m).name \in NamesOf[m] \cup {None} /\ seen[m].name \in NamesOf[m] \cup {None}
  BY <1>1, Facts DEF Follows
<1>. QED
  BY <1>1, <1>2, <1>3, <1>4, <1>7, <1>8, <1>9, Phases, WhileDeleting DEF Tidy

LEMMA MoveTidy ==
  ASSUME TidyInv, NEW m \in Machines, Move(m)
  PROVE  Follows(m)' /\ Tidy(m)' /\ Registered(m)'
<1>1. /\ pc[m] = "move" /\ known[m] # None
      /\ UNCHANGED <<groups, records, named, trouble>>
      /\ Tags(m).name \in NamesOf[m] \cup {None} /\ seen[m].name \in NamesOf[m] \cup {None}
  BY Facts, Phases DEF Move, At, Smoothly, mishaps, Follows
<1>2. Groups(m)' = Groups(m) /\ Records(m)' = Records(m)
  BY <1>1 DEF Groups, Records
<1>3. "left" \notin trouble =>
        /\ GroupFound(m) /\ Groups(m) \subseteq {seen[m].group} /\ Records(m) = {}
        /\ Tags(m).state # "running" => Groups(m) = {}
  BY <1>1, Facts, Phases DEF Tidy, GroupsTidy, RecordsTidy, Untagged
<1>4. CASE /\ Retag(known[m], [Tags(m) EXCEPT !.group = seen[m].other])
           /\ Go(m, "dropGroup") /\ UNCHANGED seen
  <2>1. pc'[m] = "dropGroup" /\ pc'[m] \in Deleting /\ known' = known
    BY <1>4, Went, Phases
  <2>2. Tags(m)' = [Tags(m) EXCEPT !.group = seen[m].other]
    BY <1>1, <1>4, <2>1, Retagged
  <2>3. Tags(m)'.name = Tags(m).name /\ Tags(m)'.state = Tags(m).state
    BY <1>1, <2>2, Facts DEF InstanceTags
  <2>4. "left" \notin trouble => GroupsTidy(m)'
    BY <1>1, <1>2, <1>3, <1>4, <2>1, <2>3 DEF GroupsTidy
  <2>5. "left" \notin trouble => RecordsTidy(m)'
    BY <1>1, <1>2, <1>3, <2>1 DEF RecordsTidy
  <2>. QED
    BY <1>1, <1>4, <2>1, <2>3, <2>4, <2>5, WhileDeleting DEF Tidy
<1>5. CASE End(m, "undeleted") /\ UNCHANGED <<inst, known>>
  <2>1. Tags(m)' = Tags(m) /\ GroupFound(m)' = GroupFound(m)
    BY <1>2, <1>5 DEF Tags, GroupFound
  <2>. QED
    BY <1>1, <1>2, <1>3, <1>5, <2>1, Undeleted
<1>. QED
  BY <1>4, <1>5 DEF Move

LEMMA DropGroupTidy ==
  ASSUME TidyInv, NEW m \in Machines, DropGroup(m)
  PROVE  Follows(m)' /\ Tidy(m)' /\ Registered(m)'
<1>1. /\ pc[m] = "dropGroup" /\ known[m] # None /\ UNCHANGED <<inst, records, named>>
      /\ Tags(m).name \in NamesOf[m] \cup {None} /\ seen[m].name \in NamesOf[m] \cup {None}
      /\ "left" \notin trouble' => "left" \notin trouble /\ ~InUse(seen[m].group)
  BY Facts, Phases DEF DropGroup, At, LeftIf, Follows
<1>2. Records(m)' = Records(m)
  BY <1>1 DEF Records
<1>3. "left" \notin trouble =>
        Groups(m) \subseteq {seen[m].group} /\ Records(m) = {}
  BY <1>1, Facts, Phases DEF Tidy, GroupsTidy, RecordsTidy
<1>4. CASE /\ groups' = groups \ {seen[m].group}
           /\ Go(m, "terminate") /\ UNCHANGED seen
  <2>1. pc'[m] = "terminate" /\ pc'[m] \in Deleting /\ known' = known
    BY <1>4, Went, Phases
  <2>2. Tags(m)' = Tags(m)
    BY <1>1, <2>1 DEF Tags
  <2>3. "left" \notin trouble => Groups(m)' = {}
    BY <1>3, <1>4 DEF Groups
  <2>4. "left" \notin trouble' => GroupsTidy(m)' /\ RecordsTidy(m)'
    BY <1>1, <1>2, <1>3, <2>1, <2>3 DEF GroupsTidy, RecordsTidy
  <2>. QED
    BY <1>1, <1>4, <2>1, <2>2, <2>4, WhileDeleting DEF Tidy
<1>5. CASE /\ InUse(seen[m].group)
           /\ End(m, "undeleted") /\ UNCHANGED known
  <2>1. "left" \in trouble'
    BY <1>1, <1>5
  <2>2. Tags(m)' = Tags(m)
    BY <1>1, <1>5 DEF Tags
  <2>. QED
    BY <1>1, <1>5, <2>1, <2>2, Undeleted
<1>. QED
  BY <1>4, <1>5 DEF DropGroup

LEMMA TerminateTidy ==
  ASSUME TidyInv, NEW m \in Machines, Terminate(m)
  PROVE  Follows(m)' /\ Tidy(m)' /\ Registered(m)'
<1>. DEFINE t == [Tags(m) EXCEPT !.state = "stopping"]
<1>1. /\ pc[m] = "terminate" /\ known[m] # None
      /\ UNCHANGED <<groups, records, named, seen, trouble>>
      /\ Tags(m).name \in NamesOf[m] \cup {None} /\ seen[m].name \in NamesOf[m] \cup {None}
  BY Facts, Phases DEF Terminate, At, Smoothly, mishaps, Follows
<1>2. pc'[m] = "confirm" /\ pc'[m] \in Deleting /\ known' = known
  BY Went, Phases DEF Terminate
<1>3. Groups(m)' = Groups(m) /\ Records(m)' = Records(m)
  BY <1>1 DEF Groups, Records
<1>4. "left" \notin trouble => Groups(m) = {} /\ Records(m) = {}
  BY <1>1, Facts, Phases DEF Tidy, GroupsTidy, RecordsTidy
<1>5. Tags(m)' = t
  BY <1>1, <1>2, Retagged DEF Terminate
<1>6. t.name = Tags(m).name
  BY <1>1, Facts DEF InstanceTags
<1>7. "left" \notin trouble => GroupsTidy(m)' /\ RecordsTidy(m)'
  BY <1>2, <1>3, <1>4 DEF GroupsTidy, RecordsTidy
<1>. QED
  BY <1>1, <1>2, <1>5, <1>6, <1>7, WhileDeleting DEF Tidy

(* A configuration ends where the tags say what can be found.               *)
LEMMA Unconfigured ==
  ASSUME TidyInv, NEW m \in Machines, pc[m] \in Configuring, End(m, "unconfigured"),
         UNCHANGED <<groups, inst, records, known, named>>,
         "left" \notin trouble' => "left" \notin trouble /\ (Found(m) => ~Loses(m))
  PROVE  Follows(m)' /\ Tidy(m)' /\ Registered(m)'
<1>1. /\ Tags(m)' = Tags(m) /\ Groups(m)' = Groups(m) /\ Records(m)' = Records(m)
      /\ known[m] # None
  BY Facts DEF Tags, Groups, Records
<1>2. /\ pc'[m] = "idle" /\ outcome'[m] = "unconfigured" /\ seen'[m] = NothingSeen
      /\ failed'[m] = {} => failed[m] = {} /\ ~Unfinished(m)
  BY Ended DEF HalfDone
<1>3. Follows(m)'
  BY <1>1, <1>2, StillFollows, Phases DEF Follows, NothingSeen
<1>4. "left" \notin trouble' => GroupsTidy(m) /\ RecordsTidy(m)
  BY Facts DEF Tidy
<1>5. "left" \notin trouble' => GroupFound(m)
  <2>1. CASE ~Found(m)
    BY <2>1, StillFollows DEF GroupFound
  <2>2. CASE Found(m)
    BY <1>1, <1>4, <2>2, Phases DEF GroupsTidy, Loses, Untagged, At, Configuring
  <2>. QED
    BY <2>1, <2>2
<1>6. "left" \notin trouble' => GroupsTidy(m)'
  BY <1>1, <1>2, <1>4, <1>5, Phases DEF GroupsTidy, GroupFound
<1>7. "left" \notin trouble' => Records(m) \subseteq IF Tags(m).zone THEN {Tags(m).name} ELSE {}
  <2>1. CASE ~Found(m)
    BY <2>1, StillFollows
  <2>2. CASE Found(m)
    BY <1>1, <1>4, <2>2, Facts, StillFollows, Phases
       DEF RecordsTidy, Loses, At, Follows, Configuring
  <2>. QED
    BY <2>1, <2>2
<1>8. "left" \notin trouble' => RecordsTidy(m)'
  BY <1>1, <1>2, <1>4, <1>7, Phases DEF RecordsTidy
<1>9. Registered(m)'
  <2>1. SUFFICES ASSUME failed'[m] = {}, Tags(m).zone
                 PROVE  Tags(m).name \in NamesOf[m] /\ records[Tags(m).name] = known[m]
    BY <1>1, <1>2 DEF Registered
  <2>2. failed[m] = {} /\ ~Unfinished(m) /\ Found(m) /\ Registered(m)
    BY <1>2, <2>1, Facts, StillFollows
  <2>3. pc[m] \in {"nameTag", "zoneTag", "reply"}
    BY <2>2, Facts DEF Configuring, Unfinished, At, Follows
  <2>. QED
    BY <2>1, <2>2, <2>3, Facts, StillFollows DEF Registered, Unfinished
<1>. QED
  BY <1>3, <1>6, <1>8, <1>9 DEF Tidy

LEMMA CallFailsTidy ==
  ASSUME TidyInv, NEW m \in Machines, CallFails(m)
  PROVE  Follows(m)' /\ Tidy(m)' /\ Registered(m)'
<1>1. /\ UNCHANGED <<groups, inst, records, known, named>>
      /\ known[m] # None
      /\ "left" \notin trouble' => "left" \notin trouble /\ ~Loses(m)
      /\ Tags(m).name \in NamesOf[m] \cup {None}
  BY Facts DEF CallFails, cloud, Harmless, Leaving, Follows
<1>2. CASE pc[m] \in Configuring /\ End(m, "unconfigured")
  BY <1>1, <1>2, Unconfigured
<1>3. CASE pc[m] \in Deleting \ {"unregister"} /\ End(m, "undeleted")
  <2>1. Tags(m)' = Tags(m) /\ Groups(m)' = Groups(m) /\ Records(m)' = Records(m)
    BY <1>1 DEF Tags, Groups, Records
  <2>2. "left" \notin trouble' => GroupsTidy(m) /\ RecordsTidy(m) /\ ~Loses(m)
    BY <1>1, Facts DEF Tidy
  <2>3. "left" \notin trouble' =>
          /\ GroupFound(m) /\ Records(m) = {}
          /\ Tags(m).state # "running" => Groups(m) = {}
    BY <1>1, <1>3, <2>2, Phases
       DEF GroupsTidy, RecordsTidy, GroupFound, Untagged, Loses, At, Deleting
  <2>4. GroupFound(m)' = GroupFound(m)
    BY <2>1 DEF GroupFound
  <2>. QED
    BY <1>1, <1>3, <2>1, <2>3, <2>4, Undeleted
<1>. QED
  BY <1>2, <1>3 DEF CallFails

LEMMA NotFoundTidy ==
  ASSUME TidyInv, NEW m \in Machines, NotFound(m)
  PROVE  Follows(m)' /\ Tidy(m)' /\ Registered(m)'
<1>1. /\ UNCHANGED <<groups, inst, records, known, named, trouble>>
      /\ known[m] # None /\ ~Found(m)
      /\ Tags(m).name \in NamesOf[m] \cup {None}
  BY Facts DEF NotFound, cloud, Smoothly, mishaps, Follows
<1>2. CASE pc[m] \in {"nameTag", "zoneTag", "reply"} /\ End(m, "unconfigured")
  BY <1>1, <1>2, Unconfigured, Phases
<1>3. CASE pc[m] \in {"findGroup", "move", "terminate"} /\ End(m, "undeleted")
  <2>1. Tags(m)' = Tags(m) /\ Groups(m)' = Groups(m) /\ Records(m)' = Records(m)
    BY <1>1 DEF Tags, Groups, Records
  <2>2. "left" \notin trouble => Groups(m) = {} /\ Records(m) = {}
    BY <1>1, Facts DEF Tidy, GroupsTidy, RecordsTidy, Found
  <2>. QED
    BY <1>1, <1>3, <2>1, <2>2, Undeleted DEF GroupFound
<1>. QED
  BY <1>2, <1>3 DEF NotFound

(* The names of a machine lead to the instance that is known, also when     *)
(* that changes.                                                            *)
LEMMA StillLed ==
  ASSUME TidyInv, NEW m \in Machines, Moves(m)
  PROVE  Led(m)'
<1>. SUFFICES ASSUME "left" \notin trouble'
              PROVE  \A x \in NamesOf[m] : records'[x] \in {None, known'[m]}
  BY DEF Led
<1>1. /\ "left" \notin trouble
      /\ \A x \in NamesOf[m] : records[x] \in {None, known[m]}
      /\ records \in [Names -> Instances \cup {None}] /\ NamesOf[m] \subseteq Names
      /\ Tidy(m)
  BY TroubleGrows, Facts DEF Led, TidyInv, IInv, TypeOK
<1>2. CASE UNCHANGED records /\ known' # known
  <2>1. pc[m] = "confirm" \/ known[m] = None
    BY <1>2, Facts, Phases
       DEF Moves, Step, Rename, CreateGroup, BeginConfigure, BeginDelete, AllowSsh, RunInstance,
       Rollback, NameTag, ZoneTag, DropRecord, MakeRecord, Reply, Unregister, FindGroup, Move,
       DropGroup, Terminate, Confirm, CallFails, NotFound, Go, Begin, At
  <2>2. Records(m) = {}
    BY <1>1, <2>1, Facts, Phases DEF Tidy, RecordsTidy
  <2>. QED
    BY <1>2, <2>2 DEF Records
<1>3. CASE /\ known' = known
           /\ UNCHANGED records \/ Unregistered(m) \/ records' = [records EXCEPT ![named[m]] = known[m]]
  BY <1>1, <1>3 DEF Unregistered
<1>4. \/ UNCHANGED records
      \/ /\ known' = known
         /\ Unregistered(m) \/ records' = [records EXCEPT ![named[m]] = known[m]]
  BY DEF Moves, Step, Rename, CreateGroup, BeginConfigure, BeginDelete, AllowSsh, RunInstance,
       Rollback, NameTag, ZoneTag, DropRecord, MakeRecord, Reply, Unregister, FindGroup, Move,
       DropGroup, Terminate, Confirm, CallFails, NotFound, Go, Begin, cloud
<1>. QED
  BY <1>2, <1>3, <1>4

-----------------------------------------------------------------------------
(* No operation forgets an instance, and AWS ends only those it was told to.*)

LEMMA StillAccounted ==
  ASSUME TidyInv, NEW n \in Instances, known' = known, trouble \subseteq trouble',
         inst'[n].for = inst[n].for,
         inst'[n].state = inst[n].state \/ inst'[n].state = "stopping"
  PROVE  Accounted(n)'
BY DEF TidyInv, Accounted

LEMMA RetagAccounts ==
  ASSUME TidyInv, NEW m \in Machines, known[m] # None, NEW t, Retag(known[m], t),
         known' = known, trouble \subseteq trouble',
         t.for = Tags(m).for, t.state = Tags(m).state \/ t.state = "stopping",
         NEW n \in Instances
  PROVE  Accounted(n)'
<1>1. inst'[n] = IF n = known[m] THEN t ELSE inst[n]
  BY DEF Retag, TidyInv, IInv, TypeOK
<1>. QED
  BY <1>1, StillAccounted DEF Tags

LEMMA RunInstanceAccounts ==
  ASSUME TidyInv, NEW m \in Machines, RunInstance(m), NEW n \in Instances
  PROVE  Accounted(n)'
<1>1. /\ known[m] = None /\ trouble \subseteq trouble'
      /\ Accounted(n) /\ known \in [Machines -> Instances \cup {None}]
      /\ inst \in [Instances -> InstanceTags]
  BY Facts, Phases, TroubleGrows DEF RunInstance, At, Moves, Step, TidyInv, IInv, TypeOK
<1>2. CASE UNCHANGED <<inst, known>>
  BY <1>1, <1>2, StillAccounted
<1>3. CASE /\ Fresh # {} /\ Retag(NewId, Started(m))
           /\ \/ known' = [known EXCEPT ![m] = NewId]
              \/ known' = known /\ "left" \in trouble'
  <2>1. NewId \in Instances /\ inst' = [inst EXCEPT ![NewId] = Started(m)]
    BY <1>3, NewIdIsNew DEF TidyInv, Retag
  <2>2. Started(m).state = "running" /\ Started(m).for = m
    BY DEF Started
  <2>3. CASE n = NewId
    BY <1>1, <1>3, <2>1, <2>2, <2>3 DEF Accounted
  <2>4. CASE n # NewId
    <3>1. inst'[n] = inst[n]
      BY <1>1, <2>1, <2>4
    <3>2. n # None
      BY AwsAssumption
    <3>3. inst[n].for \in Machines \cup {None}
      BY <1>1 DEF InstanceTags
    <3>. QED
      BY <1>1, <1>3, <3>1, <3>2, <3>3 DEF Accounted
  <2>. QED
    BY <2>3, <2>4
<1>4. \/ UNCHANGED <<inst, known>>
      \/ /\ Fresh # {} /\ Retag(NewId, Started(m))
         /\ \/ known' = [known EXCEPT ![m] = NewId]
            \/ known' = known /\ "left" \in trouble'
  <2>1. Leaving => "left" \in trouble'
    BY DEF Leaving
  <2>. QED
    BY <2>1 DEF RunInstance, Go
<1>. QED
  BY <1>2, <1>3, <1>4

LEMMA ConfirmAccounts ==
  ASSUME TidyInv, NEW m \in Machines, Confirm(m), NEW n \in Instances
  PROVE  Accounted(n)'
<1>1. /\ known[m] \in Instances /\ Tags(m).state # "running" /\ Tags(m).state # "none"
      /\ Tags(m) \in InstanceTags
  BY Phases, Facts DEF Confirm, At, TidyInv, IInv, TypeOK, Sound
<1>2. /\ known' = [known EXCEPT ![m] = None] /\ inst' = inst /\ trouble' = trouble
      /\ Accounted(n) /\ Accounted(known[m])
      /\ known \in [Machines -> Instances \cup {None}] /\ inst[n] \in InstanceTags
  BY <1>1 DEF Confirm, Smoothly, mishaps, cloud, TidyInv, IInv, TypeOK
<1>3. Tags(m).state = "stopping" \/ Tags(m).for = None
  BY <1>1, <1>2 DEF Accounted, Tags, InstanceTags
<1>4. inst[n].for \in Machines \cup {None}
  BY <1>2 DEF InstanceTags
<1>. QED
  BY <1>2, <1>3, <1>4 DEF Accounted, Tags

LEMMA MovesAccount ==
  ASSUME TidyInv, NEW m \in Machines, Moves(m), NEW n \in Instances
  PROVE  Accounted(n)'
<1>1. trouble \subseteq trouble'
  BY TroubleGrows
<1>2. CASE \/ Rename(m) \/ CreateGroup(m) \/ BeginConfigure(m) \/ BeginDelete(m)
           \/ AllowSsh(m) \/ Rollback(m) \/ DropRecord(m) \/ MakeRecord(m) \/ Reply(m)
           \/ Unregister(m) \/ FindGroup(m) \/ DropGroup(m) \/ CallFails(m) \/ NotFound(m)
  <2>1. UNCHANGED <<inst, known>>
    BY <1>2 DEF Rename, CreateGroup, BeginConfigure, BeginDelete, AllowSsh, Rollback, DropRecord,
       MakeRecord, Reply, Unregister, FindGroup, DropGroup, CallFails, NotFound, Go, Begin, cloud
  <2>. QED
    BY <1>1, <2>1, StillAccounted
<1>3. CASE NameTag(m)
  <2>1. known[m] # None /\ Tags(m) \in InstanceTags
    BY <1>3, Facts, Phases DEF NameTag, At
  <2>2. /\ Retag(known[m], [Tags(m) EXCEPT !.name = named[m]]) /\ known' = known
        /\ [Tags(m) EXCEPT !.name = named[m]].for = Tags(m).for
        /\ [Tags(m) EXCEPT !.name = named[m]].state = Tags(m).state
    BY <1>3, <2>1 DEF NameTag, Go, InstanceTags
  <2>. QED
    BY <1>1, <2>1, <2>2, RetagAccounts
<1>4. CASE ZoneTag(m)
  <2>1. known[m] # None /\ Tags(m) \in InstanceTags
    BY <1>4, Facts, Phases DEF ZoneTag, At
  <2>2. /\ Retag(known[m], [Tags(m) EXCEPT !.zone = TRUE]) /\ known' = known
        /\ [Tags(m) EXCEPT !.zone = TRUE].for = Tags(m).for
        /\ [Tags(m) EXCEPT !.zone = TRUE].state = Tags(m).state
    BY <1>4, <2>1 DEF ZoneTag, Go, InstanceTags
  <2>. QED
    BY <1>1, <2>1, <2>2, RetagAccounts
<1>5. CASE Move(m)
  <2>1. known[m] # None /\ Tags(m) \in InstanceTags
    BY <1>5, Facts, Phases DEF Move, At
  <2>2. CASE Retag(known[m], [Tags(m) EXCEPT !.group = seen[m].other]) /\ known' = known
    <3>1. /\ [Tags(m) EXCEPT !.group = seen[m].other].for = Tags(m).for
          /\ [Tags(m) EXCEPT !.group = seen[m].other].state = Tags(m).state
      BY <2>1 DEF InstanceTags
    <3>. QED
      BY <1>1, <2>1, <2>2, <3>1, RetagAccounts
  <2>3. CASE UNCHANGED <<inst, known>>
    BY <1>1, <2>3, StillAccounted
  <2>. QED
    BY <1>5, <2>2, <2>3 DEF Move, Go
<1>6. CASE Terminate(m)
  <2>. DEFINE t == [Tags(m) EXCEPT !.state = "stopping"]
  <2>1. known[m] # None /\ Tags(m) \in InstanceTags
    BY <1>6, Facts, Phases DEF Terminate, At
  <2>2. Retag(known[m], t) /\ known' = known
    BY <1>6 DEF Terminate, Go
  <2>3. t.for = Tags(m).for /\ (t.state = Tags(m).state \/ t.state = "stopping")
    BY <2>1 DEF InstanceTags
  <2>. HIDE DEF t
  <2>. QED
    BY <1>1, <2>1, <2>2, <2>3, RetagAccounts
<1>. QED
  BY <1>2, <1>3, <1>4, <1>5, <1>6, RunInstanceAccounts, ConfirmAccounts DEF Moves, Step

LEMMA MovesTidy ==
  ASSUME TidyInv, NEW m \in Machines, Moves(m)
  PROVE  Follows(m)' /\ Tidy(m)' /\ Registered(m)' /\ Led(m)'
BY RenameTidy, CreateGroupTidy, AllowSshTidy, RunInstanceTidy, RollbackTidy, BeginConfigureTidy,
   NameTagTidy, ZoneTagTidy, DropRecordTidy, MakeRecordTidy, ReplyTidy, BeginDeleteTidy,
   UnregisterTidy, FindGroupTidy, MoveTidy, DropGroupTidy, TerminateTidy, ConfirmTidy,
   CallFailsTidy, NotFoundTidy, StillLed
   DEF Moves, Step

(* An instance that was told to end has no group and no record to find.     *)
LEMMA StoppedTidy ==
  ASSUME TidyInv, NEW n \in Instances, Stopped(n), NEW k \in Machines
  PROVE  Follows(k)' /\ Tidy(k)' /\ Registered(k)' /\ Led(k)'
<1>1. /\ inst[n].state = "stopping" /\ Retag(n, [NoInstance EXCEPT !.state = "gone"])
      /\ UNCHANGED <<groups, records, known, named, pc, seen, outcome, failed, trouble>>
      /\ inst \in [Instances -> InstanceTags]
      /\ Follows(k) /\ Tidy(k) /\ Registered(k) /\ Led(k)
  BY DEF Stopped, callers, mishaps, TidyInv, IInv, TypeOK
<1>2. Groups(k)' = Groups(k) /\ Records(k)' = Records(k)
  BY <1>1 DEF Groups, Records
<1>. Led(k)'
  BY <1>1 DEF Led
<1>3. CASE known[k] # n
  <2>1. known[k] \in Instances => Tags(k)' = Tags(k)
    BY <1>1, <1>3 DEF Retag, Tags
  <2>2. /\ known[k] = None \/ known[k] \in Instances
        /\ outcome[k] # "none" => known[k] # None
        /\ pc[k] \in Configuring \cup Deleting => known[k] # None
    BY Facts DEF TidyInv, IInv, TypeOK
  <2>3. Follows(k)'
    BY <1>1, <2>1, <2>2, Phases DEF Follows, Found
  <2>4. Tidy(k)'
    BY <1>1, <1>2, <2>1, <2>2 DEF Tidy, GroupsTidy, RecordsTidy, GroupFound, Untagged
  <2>5. Registered(k)'
    BY <1>1, <2>1, <2>2, Phases DEF Registered
  <2>. QED
    BY <2>3, <2>4, <2>5
<1>4. CASE known[k] = n
  <2>1. /\ known[k] # None /\ Tags(k).state = "stopping"
        /\ Tags(k)'.name = None /\ Tags(k)'.zone = FALSE
    BY <1>1, <1>4, AwsAssumption DEF Retag, Tags, NoInstance
  <2>2. failed[k] = {} => pc[k] \in Deleting
    BY <2>1, Facts DEF Kept
  <2>3. "left" \notin trouble => Groups(k) = {} /\ Records(k) = {}
    BY <1>1, <2>1 DEF Tidy, GroupsTidy, RecordsTidy
  <2>4. Follows(k)'
    BY <1>1, <1>4, <2>1, Phases DEF Follows, Found, Retag, Tags, NoInstance
  <2>5. Tidy(k)'
    BY <1>1, <1>2, <1>4, <2>1, <2>3 DEF Tidy, GroupsTidy, RecordsTidy, GroupFound
  <2>6. Registered(k)'
    BY <1>1, <2>2, Phases DEF Registered
  <2>. QED
    BY <2>4, <2>5, <2>6
<1>. QED
  BY <1>3, <1>4

LEMMA StoppedAccounts ==
  ASSUME TidyInv, NEW n \in Instances, Stopped(n), NEW i \in Instances
  PROVE  Accounted(i)'
<1>1. /\ inst'[i] = IF i = n THEN [NoInstance EXCEPT !.state = "gone"] ELSE inst[i]
      /\ known' = known /\ trouble' = trouble
  BY DEF Stopped, Retag, callers, mishaps, TidyInv, IInv, TypeOK
<1>2. CASE i = n
  BY <1>1, <1>2 DEF Accounted, NoInstance
<1>3. CASE i # n
  BY <1>1, <1>3, StillAccounted
<1>. QED
  BY <1>2, <1>3

LEMMA InitTidy ==
  ASSUME Init
  PROVE  TidyInv
<1>1. IInv
  BY InitSound
<1>2. ASSUME NEW m \in Machines
      PROVE  Follows(m) /\ Tidy(m) /\ Registered(m) /\ Led(m)
  <2>1. /\ known[m] = None /\ pc[m] = "idle" /\ outcome[m] = "none" /\ seen[m].name = None
        /\ groups = {} /\ \A x \in NamesOf[m] : records[x] = None
    BY AwsAssumption DEF Init, NothingSeen
  <2>2. Groups(m) = {} /\ Records(m) = {}
    BY <2>1 DEF Groups, Records
  <2>3. Follows(m)
    BY <2>1, Phases DEF Follows
  <2>4. Tidy(m)
    BY <2>1, <2>2, Phases DEF Tidy, GroupsTidy, RecordsTidy
  <2>5. Registered(m) /\ Led(m)
    BY <2>1 DEF Registered, Led
  <2>. QED
    BY <2>3, <2>4, <2>5
<1>3. \A n \in Instances : Accounted(n)
  BY DEF Init, NoInstance, Accounted
<1>. QED
  BY <1>1, <1>2, <1>3 DEF TidyInv

LEMMA NextTidy ==
  ASSUME TidyInv, [Next]_vars
  PROVE  TidyInv'
<1>1. IInv'
  BY NextKeeps DEF TidyInv
<1>2. CASE UNCHANGED vars
  <2>1. ASSUME NEW m \in Machines
        PROVE  Follows(m)' /\ Tidy(m)' /\ Registered(m)' /\ Led(m)'
    BY <1>2 DEF TidyInv, Follows, Tidy, Registered, GroupsTidy, RecordsTidy, Groups, Records,
                GroupFound, Untagged, Led, Found, Tags, vars, cloud, callers, mishaps
  <2>2. ASSUME NEW n \in Instances
        PROVE  Accounted(n)'
    BY <1>2 DEF TidyInv, Accounted, vars, cloud, callers, mishaps
  <2>. QED
    BY <1>1, <2>1, <2>2 DEF TidyInv
<1>3. ASSUME NEW m \in Machines, Moves(m)
      PROVE  TidyInv'
  <2>1. ASSUME NEW k \in Machines
        PROVE  Follows(k)' /\ Tidy(k)' /\ Registered(k)' /\ Led(k)'
    BY <1>3, MovesTidy, MovesBeside, OthersTidy
  <2>. QED
    BY <1>1, <1>3, <2>1, MovesAccount DEF TidyInv
<1>4. ASSUME NEW n \in Instances, Stopped(n)
      PROVE  TidyInv'
  BY <1>1, <1>4, StoppedTidy, StoppedAccounts DEF TidyInv
<1>. QED
  BY <1>2, <1>3, <1>4 DEF Next, Moves

(* As long as nothing was left behind for good, every group and record that *)
(* a machine has at AWS can be found by what its deployment knows, and its  *)
(* instance is known or was told to end.                                    *)
THEOREM AllIsFound == Spec => []TidyInv
<1>1. Init => TidyInv
  BY InitTidy
<1>2. TidyInv /\ [Next]_vars => TidyInv'
  BY NextTidy
<1>. QED
  BY <1>1, <1>2, PTL DEF Spec

(* Whichever calls of createNode, configureNode and deleteNode fail and are *)
(* repeated, a machine that is undeployed has no group, no record and no    *)
(* running instance at AWS, unless one of the failures that no repetition   *)
(* repairs happened.                                                        *)
THEOREM NothingIsLeft == Spec => []NothingLeft
<1>1. ASSUME TidyInv
      PROVE  NothingLeft
  <2>1. SUFFICES ASSUME "left" \notin trouble, NEW m \in Machines, known[m] = None, pc[m] = "idle"
                 PROVE  /\ groups \cap NamesOf[m] = {}
                        /\ \A x \in NamesOf[m] : records[x] = None
                        /\ \A n \in Instances : inst[n].for = m => inst[n].state = "stopping"
    BY DEF NothingLeft
  <2>2. Groups(m) = {} /\ Records(m) = {}
    BY <1>1, <2>1 DEF TidyInv, Tidy, GroupsTidy, RecordsTidy
  <2>3. ASSUME NEW n \in Instances, inst[n].for = m
        PROVE  inst[n].state = "stopping"
    BY <1>1, <2>1, <2>3, AwsAssumption DEF TidyInv, Accounted
  <2>. QED
    BY <2>2, <2>3 DEF Groups, Records
<1>. QED
  BY <1>1, AllIsFound, PTL

(* Whatever calls fail, and whatever is done to the other machines and      *)
(* their names, the name of a configured machine leads to its instance,     *)
(* unless a configuration of that instance ended before between the tags    *)
(* and the record, or a deletion of it half-way; and no name leads to an    *)
(* instance that is not its machine's, unless something was left for good.  *)
THEOREM RecordsAreRight == Spec => []RecordsRight
<1>1. ASSUME TidyInv
      PROVE  RecordsRight
  <2>1. \A m \in Machines : Registered(m) /\ Led(m) /\ (known[m] = None <=> outcome[m] = "none")
    BY <1>1, Facts
  <2>. QED
    BY <2>1 DEF Registered, Led, RecordsRight
<1>. QED
  BY <1>1, AllIsFound, PTL
=============================================================================
