--------------------------- MODULE MCActionEngine ---------------------------
(* Plans as the deployers build them, for TLC.                              *)
EXTENDS ActionEngine, MCDeployers, SequencesExt

(* The closures of a tree and of a chain, computed.                         *)
PathTo(acts, kids) ==
  LET path[a \in acts] ==
        {a} \cup UNION {path[g] : g \in {h \in DOMAIN kids : a \in ToSet(kids[h])}}
  IN  [a \in acts |-> path[a]]
Dependants(acts, req) ==
  LET down[a \in acts] ==
        LET next == {x \in acts : a \in req[x]} IN next \cup UNION {down[x] : x \in next}
  IN  [a \in acts |-> down[a]]

(* Is this what the deployers build, its actions under shorter names?       *)
IsBuilt(plan, long, groups, children, requires, awaits) ==
  LET Long(S) == {long[a] : a \in S}
  IN  /\ ActionsOf(plan) = Long(DOMAIN long)
      /\ GroupsOf(plan) = Long(groups)
      /\ \A g \in groups :
           ChildrenOf(plan)[long[g]] = [i \in DOMAIN children[g] |-> long[children[g][i]]]
      /\ \A a \in DOMAIN long :
           /\ RequiresOf(plan)[long[a]] = Long(requires[a])
           /\ AwaitsOf(plan, {})[long[a]] = Long(awaits[a])

-----------------------------------------------------------------------------
(* Updating an application of one machine, which is recreated, and an       *)
(* environment of the Chef server, which is replaced and which the          *)
(* machine's provisioning awaits.                                           *)
UpdateNames == [
  app         |-> <<"Update", "app">>,
  environment |-> <<"Update Chef Environment", "chef">>,
  deleteEnv   |-> <<"Delete Chef Environment", "chef">>,
  createEnv   |-> <<"Create Chef Environment", "chef">>,
  machine     |-> <<"Recreate", "m1">>,
  old         |-> <<"Delete", "m1">>,
  forget      |-> <<"Delete Chef Node and Client", "m1">>,
  delete      |-> <<"Delete VM", "m1">>,
  new         |-> <<"Create", "m1">>,
  create      |-> <<"Create VM", "m1">>,
  provision   |-> <<"Provision VM", "m1">>]
UpdateActions == DOMAIN UpdateNames
UpdateGroups == {"app", "environment", "machine", "old", "new"}
UpdateChildren == [g \in UpdateGroups |->
  CASE g = "app"         -> <<"environment", "machine">>
    [] g = "environment" -> <<"deleteEnv", "createEnv">>
    [] g = "machine"     -> <<"old", "new">>
    [] g = "old"         -> <<"forget", "delete">>
    [] g = "new"         -> <<"create", "provision">>]
UpdateRequires == [a \in UpdateActions |->
  CASE a = "createEnv" -> {"deleteEnv"}
    [] a = "new"       -> {"old"}
    [] a = "delete"    -> {"forget"}
    [] a = "provision" -> {"create"}
    [] OTHER -> {}]
UpdateAwaits == [a \in UpdateActions |->
  IF a = "provision" THEN {"createEnv"} ELSE {}]
UpdateAbove == PathTo(UpdateActions, UpdateChildren)
UpdateDownstream == Dependants(UpdateActions, UpdateRequires)

OneMachine == Application(<<Chef, Machine("m1", "plain")>>)
ASSUME UpdateIsBuilt ==
  IsBuilt(GetUpdateAction(OneMachine, OneMachine,
            [replaced |-> {"m1"}, provisioned |-> {}, outdated |-> {"chef"}]),
          UpdateNames, UpdateGroups, UpdateChildren, UpdateRequires, UpdateAwaits)

-----------------------------------------------------------------------------
(* Updating an application of two machines that both have to be recreated,  *)
(* without what does not matter here: the Chef server, the creation of the  *)
(* first machine, and the groups that are left with one leaf.               *)
RecreateGroups == {"app", "vm1", "new1", "vm2", "new2"}
RecreateActions == RecreateGroups \cup
  {"delete1", "config1", "firewall1", "delete2", "create2", "config2"}
RecreateChildren == [g \in RecreateGroups |->
  CASE g = "app"  -> <<"vm1", "vm2">>
    [] g = "vm1"  -> <<"delete1", "new1">>
    [] g = "new1" -> <<"config1", "firewall1">>
    [] g = "vm2"  -> <<"delete2", "new2">>
    [] g = "new2" -> <<"create2", "config2">>]
RecreateRequires == [a \in RecreateActions |->
  CASE a = "new1"      -> {"delete1"}
    [] a = "firewall1" -> {"config1"}
    [] a = "new2"      -> {"delete2"}
    [] a = "config2"   -> {"create2"}
    [] OTHER -> {}]
RecreateAwaits == [a \in RecreateActions |->
  IF a = "firewall1" THEN {"config2"} ELSE {}]
RecreateAbove == PathTo(RecreateActions, RecreateChildren)
RecreateDownstream == Dependants(RecreateActions, RecreateRequires)

-----------------------------------------------------------------------------
(* Deleting an application of one machine.                                  *)
DeleteNames == [
  app     |-> <<"Delete", "app">>,
  machine |-> <<"Delete", "m1">>,
  forget  |-> <<"Delete Chef Node and Client", "m1">>,
  delete  |-> <<"Delete VM", "m1">>]
DeleteActions == DOMAIN DeleteNames
DeleteGroups == {"app", "machine"}
DeleteChildren == [g \in DeleteGroups |->
  IF g = "app" THEN <<"machine">> ELSE <<"forget", "delete">>]
DeleteRequires == [a \in DeleteActions |-> IF a = "delete" THEN {"forget"} ELSE {}]
DeleteAwaits == [a \in DeleteActions |-> {}]
DeleteAbove == PathTo(DeleteActions, DeleteChildren)
DeleteDownstream == Dependants(DeleteActions, DeleteRequires)

ASSUME DeleteIsBuilt ==
  IsBuilt(GetDeleteAction(Application(<<Machine("m1", "plain")>>)),
          DeleteNames, DeleteGroups, DeleteChildren, DeleteRequires, DeleteAwaits)

-----------------------------------------------------------------------------
ASSUME LeavesHaveAnOrder == TurnsCome
=============================================================================
