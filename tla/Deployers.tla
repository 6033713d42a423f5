----------------------------- MODULE Deployers -----------------------------
(***************************************************************************)
(* The plans that the deployers build: getCreateAction, getDeleteAction    *)
(* and getUpdateAction of AbstractDeployer (applications, gateways,        *)
(* component groups and produced services), VMDeployer and                 *)
(* ChefEnvironmentDeployer, as functions of what is described.             *)
(*                                                                         *)
(* A part of an application is a record: its kind, name and parts, of a    *)
(* machine and of a service also what the cloud's API is like.  changes is *)
(* what else decides, all sets of names: machines with a leaf of the last  *)
(* attempt that did not succeed or with a parameter that requires a new    *)
(* node ("replaced"), with provisioning that has changed ("provisioned"),  *)
(* and environments that differ from what the Chef server has              *)
(* ("outdated").  Lists that come out of a HashMap may be in any order;    *)
(* here it is that of the parts.                                           *)
(***************************************************************************)
EXTENDS Naturals, Sequences, FiniteSets

(* An action: what it is called, the part it is for, and of a group its     *)
(* members.  A deployer that has nothing to do returns null.                *)
Null == [what |-> "null", of |-> "null", form |-> "null", actions |-> <<>>]
Single(what, part) == [what |-> what, of |-> part.name, form |-> "single", actions |-> <<>>]

NotNull(actions) == SelectSeq(actions, LAMBDA a : a # Null)
ActionSequence(what, part, actions) ==
  [what |-> what, of |-> part.name, form |-> "sequence", actions |-> NotNull(actions)]
ActionGroup(what, part, actions) ==
  [what |-> what, of |-> part.name, form |-> "group", actions |-> NotNull(actions)]

(* generateCompositeAction: nulls among the actions count as members.       *)
CompositeAction(what, children, part, actions, after) ==
  LET several == Len(actions) > 1
  IN IF several /\ after # Null
     THEN ActionSequence(what, part, <<ActionGroup(children, part, actions), after>>)
     ELSE IF several THEN ActionGroup(what, part, actions)
     ELSE IF Len(actions) = 1 \/ after # Null
     THEN ActionSequence(what, part, Append(actions, after))
     ELSE Null

-----------------------------------------------------------------------------
(* Machines.                                                                *)
CreateNodeAction(vm) ==
  IF ~ vm.firewalled /\ ~ vm.configureOnCreate THEN Single("Create VM", vm)
  ELSE ActionSequence("Create and Start VM", vm,
         <<Single("Create VM", vm),
           IF vm.configureOnCreate THEN Single("Configure VM", vm) ELSE Null,
           IF vm.firewalled THEN Single("Create Firewall Rules", vm) ELSE Null>>)

CreateVm(vm) ==
  ActionSequence("Create", vm, <<CreateNodeAction(vm), Single("Provision VM", vm)>>)
DeleteVm(vm) ==
  ActionSequence("Delete", vm,
    <<Single("Delete Chef Node and Client", vm), Single("Delete VM", vm)>>)
UpdateVm(before, after, changes) ==
  IF after.name \in changes.replaced
  THEN ActionSequence("Recreate", after, <<DeleteVm(before), CreateVm(after)>>)
  ELSE ActionSequence("Update", after,
         <<Single("Update VM", after),
           IF changes.outdated # {} \/ after.name \in changes.provisioned
           THEN Single("Provision VM", after) ELSE Null>>)

(* The Chef environment.                                                    *)
CreateEnvironment(env) == Single("Create Chef Environment", env)
DeleteEnvironment(env) == Single("Delete Chef Environment", env)
UpdateEnvironment(before, after, changes) ==
  IF after.name \in changes.outdated
  THEN ActionSequence("Update Chef Environment", after,
         <<DeleteEnvironment(before), CreateEnvironment(after)>>)
  ELSE Null

(* HAProxy of a service, behind a gateway that may be firewalled.           *)
ConfigureHAProxy(service) ==
  ActionGroup("Configure HAProxy", service,
    <<Single("Configure HAProxy frontend/backend", service),
      IF service.firewalled THEN Single("Create Public Firewall Rules", service) ELSE Null>>)
DeleteHAProxy(service) ==
  ActionGroup("Delete HAProxy Configuration", service,
    <<Single("Delete HAProxy frontend/backend", service),
      IF service.firewalled THEN Single("Delete Public Firewall Rules", service) ELSE Null>>)
UpdateHAProxy(before, after) ==
  ActionSequence("Update HAProxy Configuration", after,
    <<DeleteHAProxy(before), ConfigureHAProxy(after)>>)

(* What comes after the children; nothing but a service has such actions,   *)
(* and no part has one that comes before them.                              *)
After(part, action) == IF part.kind = "service" THEN action ELSE Null

-----------------------------------------------------------------------------
RECURSIVE GetCreateAction(_), GetDeleteAction(_), GetUpdateAction(_, _, _)

GetCreateAction(part) ==
  CASE part.kind = "vm" -> CreateVm(part)
    [] part.kind = "environment" -> CreateEnvironment(part)
    [] OTHER ->
       CompositeAction("Create", "Create children", part,
         [i \in DOMAIN part.parts |-> GetCreateAction(part.parts[i])],
         After(part, ConfigureHAProxy(part)))

GetDeleteAction(part) ==
  CASE part.kind = "vm" -> DeleteVm(part)
    [] part.kind = "environment" -> DeleteEnvironment(part)
    [] OTHER ->
       CompositeAction("Delete", "Delete children", part,
         [i \in DOMAIN part.parts |-> GetDeleteAction(part.parts[i])],
         After(part, DeleteHAProxy(part)))

(* Children are recognised by their names.                                  *)
ChildByName(part, name) ==
  part.parts[CHOOSE i \in DOMAIN part.parts : part.parts[i].name = name]
HasChild(part, name) == \E i \in DOMAIN part.parts : part.parts[i].name = name
InBoth(part, other) == SelectSeq(part.parts, LAMBDA c : HasChild(other, c.name))
Missing(part, other) == SelectSeq(part.parts, LAMBDA c : ~ HasChild(other, c.name))

OneOrGroup(what, part, actions) ==
  IF Len(actions) > 1 THEN ActionGroup(what, part, actions) ELSE actions[1]

(* What is deleted comes before what is created and updated.                *)
ChildrenActions(after, updates, creates, deletes) ==
  IF deletes # <<>> /\ creates \o updates # <<>>
  THEN <<ActionSequence("Delete and update children", after,
           <<OneOrGroup("Delete children", after, deletes),
             OneOrGroup("Create or update children", after, creates \o updates)>>)>>
  ELSE updates \o creates \o deletes

GetUpdateAction(before, after, changes) ==
  CASE after.kind = "vm" -> UpdateVm(before, after, changes)
    [] after.kind = "environment" -> UpdateEnvironment(before, after, changes)
    [] OTHER ->
       LET kept == InBoth(after, before)
           new == Missing(after, before)
           old == Missing(before, after)
       IN CompositeAction("Update", "Update children", after,
            ChildrenActions(after,
              NotNull([i \in DOMAIN kept |->
                GetUpdateAction(ChildByName(before, kept[i].name), kept[i], changes)]),
              NotNull([i \in DOMAIN new |-> GetCreateAction(new[i])]),
              NotNull([i \in DOMAIN old |-> GetDeleteAction(old[i])])),
            After(after, UpdateHAProxy(before, after)))

-----------------------------------------------------------------------------
(* A plan as the engine reads it, its actions known by what they do and the *)
(* part they are for.                                                       *)
RECURSIVE Within(_)
Within(action) ==
  {action} \cup UNION {Within(action.actions[i]) : i \in DOMAIN action.actions}

Id(action) == <<action.what, action.of>>
ActionsOf(plan) == {Id(a) : a \in Within(plan)}
GroupsOf(plan) == {Id(a) : a \in {b \in Within(plan) : b.form # "single"}}

(* ActionGroup.actions and Action.depends                                   *)
ChildrenOf(plan) ==
  LET all == Within(plan)
      members(g) == (CHOOSE a \in all : Id(a) = g).actions
  IN [g \in GroupsOf(plan) |-> [i \in DOMAIN members(g) |-> Id(members(g)[i])] \o <<>>]
RequiresOf(plan) ==
  LET links == UNION {{<<Id(s.actions[i]), Id(s.actions[i - 1])>> : i \in 2 .. Len(s.actions)} :
                      s \in {a \in Within(plan) : a.form = "sequence"}}
  IN [x \in ActionsOf(plan) |-> {l[2] : l \in {k \in links : k[1] = x}}]

(* getDependencies of CreateFirewallRulesAction, for the <<consumer,        *)
(* supplier>> pairs of linked machines, and of ProvisionVmAction.           *)
Awaited(id, links) ==
  CASE id[1] = "Create Firewall Rules" ->
         {<<"Configure VM", l[2]>> : l \in {k \in links : k[1] = id[2]}}
    [] id[1] = "Provision VM" -> {<<"Create Chef Environment", "chef">>}
    [] OTHER -> {}
AwaitsOf(plan, links) ==
  LET all == ActionsOf(plan) IN [x \in all |-> Awaited(x, links) \cap all]
=============================================================================
