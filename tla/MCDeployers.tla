---------------------------- MODULE MCDeployers ----------------------------
(* The deployers on all pairs of small applications, against what is to be  *)
(* done stated machine by machine.                                          *)
EXTENDS Deployers

LOCAL INSTANCE Functions

Machine(name, api) ==
  [kind |-> "vm", name |-> name, parts |-> <<>>,
   firewalled |-> api = "cloud", configureOnCreate |-> api # "plain"]
Chef == [kind |-> "environment", name |-> "chef", parts |-> <<>>]
Parts(kind, name, parts) == [kind |-> kind, name |-> name, parts |-> parts]
Service(firewalled, groups) ==
  [kind |-> "service", name |-> "service", parts |-> groups, firewalled |-> firewalled]
Application(parts) == Parts("application", "app", parts)

(* Two component groups without machines; two of one machine each.          *)
Services == {
  Service(FALSE, <<Parts("group", "g1", <<>>), Parts("group", "g2", <<>>)>>),
  Service(TRUE, <<Parts("group", "g1", <<Machine("m2", "cloud")>>),
                  Parts("group", "g2", <<Machine("m3", "plain")>>)>>)}
Applications ==
  {Application(e \o m \o s) :
     e \in {<<>>, <<Chef>>},
     m \in {<<>>, <<Machine("m1", "cloud")>>,
            <<Machine("m1", "cloud"), Machine("m4", "hardware")>>},
     s \in {<<>>} \cup {<<service>> : service \in Services}}
Changes == {
  [replaced |-> {}, provisioned |-> {"m2", "m4"}, outdated |-> {}],
  [replaced |-> {"m1", "m2"}, provisioned |-> {}, outdated |-> {"chef"}]}
Links == {<<"m1", "m4">>, <<"m2", "m1">>, <<"m1", "m2">>}

-----------------------------------------------------------------------------
RECURSIVE PartsIn(_)
PartsIn(part) == {part} \cup UNION {PartsIn(part.parts[i]) : i \in DOMAIN part.parts}
NamesIn(part, kind) == {p.name : p \in {q \in PartsIn(part) : q.kind = kind}}
PartNamed(part, name) == CHOOSE p \in PartsIn(part) : p.name = name

LeavesIn(action) == {Id(a) : a \in {b \in Within(action) : b.form = "single"}}

(* What has to succeed before each action starts, directly.                 *)
DependenciesOf(plan, links) ==
  LET requires == RequiresOf(plan)
      awaits == AwaitsOf(plan, links)
  IN [x \in ActionsOf(plan) |-> requires[x] \cup awaits[x]]
Before(plan, links) ==
  LET depends == DependenciesOf(plan, links)
      all == Within(plan)
      below == [x \in DOMAIN depends |-> LeavesIn(CHOOSE a \in all : Id(a) = x)]
      behind == [x \in DOMAIN depends |-> UNION {below[d] : d \in depends[x]}]
  IN [y \in LeavesIn(plan) |->
       UNION {behind[b] : b \in {g \in DOMAIN below : y \in below[g]}}]

(* Every leaf has its turn when all succeed.                                *)
RECURSIVE Turns(_, _)
Turns(before, had) ==
  LET next == {x \in DOMAIN before : before[x] \subseteq had}
  IN IF next = had THEN had ELSE Turns(before, next)

-----------------------------------------------------------------------------
CreateLeaves(vm) ==
  {<<"Create VM", vm.name>>, <<"Provision VM", vm.name>>}
    \cup (IF vm.configureOnCreate THEN {<<"Configure VM", vm.name>>} ELSE {})
    \cup (IF vm.firewalled THEN {<<"Create Firewall Rules", vm.name>>} ELSE {})
DeleteLeaves(m) == {<<"Delete Chef Node and Client", m>>, <<"Delete VM", m>>}
(* What is created and deleted of a kind: what is new or removed, and what  *)
(* has to be replaced.                                                      *)
Created(old, new, replaced) == (new \ old) \cup (old \cap new \cap replaced)

RightLeaves(before, after, changes) ==
  LET old == NamesIn(before, "vm")
      new == NamesIn(after, "vm")
      updated == (old \cap new) \ changes.replaced
      oldEnv == NamesIn(before, "environment")
      newEnv == NamesIn(after, "environment")
  IN UNION {CreateLeaves(PartNamed(after, m)) : m \in Created(old, new, changes.replaced)}
     \cup UNION {DeleteLeaves(m) : m \in Created(new, old, changes.replaced)}
     \cup {<<"Update VM", m>> : m \in updated}
     \cup {<<"Provision VM", m>> :
             m \in {u \in updated : changes.outdated # {} \/ u \in changes.provisioned}}
     \cup {<<"Create Chef Environment", e>> : e \in Created(oldEnv, newEnv, changes.outdated)}
     \cup {<<"Delete Chef Environment", e>> : e \in Created(newEnv, oldEnv, changes.outdated)}
     \cup {<<"Configure HAProxy frontend/backend", s>> : s \in NamesIn(after, "service")}
     \cup {<<"Delete HAProxy frontend/backend", s>> : s \in NamesIn(before, "service")}
     \cup {<<"Create Public Firewall Rules", s>> :
             s \in {t \in NamesIn(after, "service") : PartNamed(after, t).firewalled}}
     \cup {<<"Delete Public Firewall Rules", s>> :
             s \in {t \in NamesIn(before, "service") : PartNamed(before, t).firewalled}}

(* What is done first of one part.                                          *)
OneByOne == {
  <<"Delete Chef Node and Client", "Delete VM">>, <<"Delete VM", "Create VM">>,
  <<"Create VM", "Configure VM">>, <<"Configure VM", "Create Firewall Rules">>,
  <<"Create Firewall Rules", "Provision VM">>, <<"Create VM", "Provision VM">>,
  <<"Delete Chef Environment", "Create Chef Environment">>,
  <<"Delete HAProxy frontend/backend", "Configure HAProxy frontend/backend">>}
RightOrder(order, before, after) ==
  LET served == IF NamesIn(after, "service") = {} THEN {}
                ELSE NamesIn(PartNamed(after, "service"), "vm")
      stays == {p.name : p \in PartsIn(after)}
      goes == {p.name : p \in PartsIn(before)} \ stays
      atTop == {c.name : c \in Range(before.parts) \cup Range(after.parts)}
  IN /\ Turns(order, {}) = DOMAIN order
     /\ \A x, y \in DOMAIN order :
          \/ x[2] = y[2] /\ <<x[1], y[1]>> \in OneByOne
          \/ x[1] = "Create Chef Environment" /\ y[1] = "Provision VM"
          \/ y[1] = "Configure HAProxy frontend/backend" /\ x[2] \in served
          \/ x[2] \in goes \cap atTop /\ y[2] \in stays \cap atTop
          => x \in order[y]

(* What ActionEngine assumes of a plan.                                     *)
WellFormed(plan) ==
  LET children == ChildrenOf(plan)
      requires == RequiresOf(plan)
      groups == GroupsOf(plan)
      kids == [g \in groups |-> {children[g][i] : i \in DOMAIN children[g]}]
  IN /\ Cardinality(ActionsOf(plan)) = Cardinality(Within(plan))
     /\ \A g \in groups : Cardinality(kids[g]) = Len(children[g]) /\ Id(plan) \notin kids[g]
     /\ \A g, h \in groups : g # h => kids[g] \cap kids[h] = {}
     /\ \A g \in groups : kids[g] = {} =>
          requires[g] = {} \/ \A x \in ActionsOf(plan) : g \notin requires[x]
(* A plan has each leaf that is to be run once and in the order it has to,  *)
(* however the described applications differ, and the engine can run it to  *)
(* its end.                                                                 *)
RightPlan(plan, before, after, changes) ==
  /\ plan = Null <=> RightLeaves(before, after, changes) = {}
  /\ plan # Null =>
       /\ WellFormed(plan)
       /\ LeavesIn(plan) = RightLeaves(before, after, changes)
       /\ RightOrder(Before(plan, Links), before, after)

ASSUME PlansAreRight ==
  \A before, after \in Applications : \A changes \in Changes :
    RightPlan(GetUpdateAction(before, after, changes), before, after, changes)
=============================================================================
