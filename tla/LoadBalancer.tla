---------------------------- MODULE LoadBalancer ----------------------------
(***************************************************************************)
(* The configuration of HAProxy for a produced service: keys in etcd that  *)
(* HAProxyDeployer writes through HAProxyConfigurator when an application  *)
(* is deployed, replaces when it is updated and removes when it is         *)
(* undeployed.  An update removes what the description said that is kept   *)
(* with the last attempt, the application as it was when that attempt      *)
(* ended, and writes what it says now; nothing reads back what etcd holds. *)
(* The gateway, whose etcd it is, is part of the description: an update    *)
(* works on the one that was described before.                             *)
(***************************************************************************)
EXTENDS Integers, Sequences

CONSTANTS
  Descriptions,  \* what the user may describe: [gateway, weights, entries]
  Gateways,      \* the gateways, each with HAProxy and its part of etcd
  Keys,          \* keys of backends and servers
  Frontend,      \* the key of the service
  None,          \* no value
  MaxFaults      \* bound: failures, crashes and edits at a bad time

(* The weights are <<backend, weight>> pairs of the A/B test, the entries   *)
(* <<key, value>> pairs, each backend followed by its servers.              *)
ASSUME LoadBalancerAssumption ==
  /\ Frontend \notin Keys
  /\ MaxFaults \in Nat
  /\ \A d \in Descriptions :
       /\ d.gateway \in Gateways
       /\ d.entries \in Seq({d.entries[i] : i \in DOMAIN d.entries})
       /\ d.weights \in Seq({d.weights[i] : i \in DOMAIN d.weights})
       /\ \A i \in DOMAIN d.weights : d.weights[i][2] \in Nat
       /\ \A i, j \in DOMAIN d.entries :
            d.entries[i][1] \in Keys /\ (d.entries[i][1] = d.entries[j][1] => i = j)

VARIABLES
  etcd,     \* the value of each place: a key at a gateway
  wanted,   \* the description in the document
  last,     \* the last attempt in the history, with the description it kept
  attempt,  \* the type of the attempt that runs, or "none"
  gateway,  \* the gateway that its deployer has the client of
  todo,     \* the calls of etcd it has still to make
  faults,   \* what went wrong, counted
  exact,    \* whether the last attempt was made for the description it keeps
  lost      \* the places whose keys the history does not tell of any more

stored == <<wanted, last>>
work == <<attempt, gateway, todo>>
mishaps == <<faults, exact, lost>>
vars == <<etcd, stored, work, mishaps>>

-----------------------------------------------------------------------------
(* A/B testing.                                                             *)
Total == 100

(* What is left of the total for each of the weights.                       *)
Left(weights) ==
  LET left[i \in DOMAIN weights] ==
        IF i = 1 THEN Total ELSE left[i - 1] - weights[i - 1][2]
  IN left
EvenlyDrawn(weights) ==   \* a deviation: every rule draws from the total
  [i \in DOMAIN weights |->
    [backend |-> weights[i][1], draw |-> Total, below |-> weights[i][2]]]
(* generateABTestingRules: a rule takes a request for its backend if a draw *)
(* of so many is below the weight, else the next rule draws.                *)
Rules(weights) ==
  [i \in DOMAIN weights |->
    [backend |-> weights[i][1], draw |-> Left(weights)[i], below |-> weights[i][2]]]

(* The requests out of Total that reach each rule, and that it takes.       *)
Taken(rule, reach) == (reach * rule.below) \div rule.draw
Reach(rules) ==
  LET reach[i \in DOMAIN rules] ==
        IF i = 1 THEN Total ELSE reach[i - 1] - Taken(rules[i - 1], reach[i - 1])
  IN reach
Percent(weights) ==
  weights # <<>> /\ \A i \in DOMAIN weights : weights[i][2] > 0
  /\ Left(weights)[Len(weights)] = weights[Len(weights)][2]

(* setAbTestingEnabled: equal weights, the first takes the remainder.       *)
Enabled(backends) ==
  LET n == Len(backends)
  IN [i \in 1 .. n |->
       <<backends[i], IF i = 1 THEN Total - (n - 1) * (Total \div n) ELSE Total \div n>>]

-----------------------------------------------------------------------------
Config(d) == <<<<Frontend, Rules(d.weights)>>>> \o d.entries
KeysOf(d) == {Config(d)[i][1] : i \in DOMAIN Config(d)}
Places(d) == {d.gateway} \X KeysOf(d)

Put(entry) == [op |-> "put", key |-> entry[1], value |-> entry[2]]
Delete(entry) == [op |-> "delete", key |-> entry[1], value |-> None]

(* configure and deleteConfiguration.                                       *)
Configure(d) == [i \in DOMAIN Config(d) |-> Put(Config(d)[i])]
DeleteConfiguration(d) == [i \in DOMAIN Config(d) |-> Delete(Config(d)[i])]

(* getAfterChildrenUpdatedAction: everything is removed and written again,  *)
(* whether it has changed or not.                                           *)
Merge(before, after) == Configure(after)   \* a deviation: nothing is removed
ConfigureFirst(before, after) ==   \* a deviation
  Configure(after) \o DeleteConfiguration(before)
OnlyChanges(before, after) ==   \* a deviation
  IF before = after THEN <<>> ELSE DeleteConfiguration(before) \o Configure(after)
Update(before, after) == DeleteConfiguration(before) \o Configure(after)

(* getConfigurator keeps the client that it makes for the first description *)
(* an attempt's deployer asks with.                                         *)
Configurator(first) == first.gateway

Nothing == [gateway |-> None, weights |-> <<>>, entries |-> <<>>]

Init ==
  /\ etcd = [p \in Gateways \X (Keys \cup {Frontend}) |-> None]
  /\ wanted \in Descriptions
  /\ last = [type |-> "none", kept |-> Nothing, failed |-> FALSE]
  /\ attempt = "none" /\ gateway = None /\ todo = <<>>
  /\ faults = 0 /\ exact = TRUE /\ lost = {}

-----------------------------------------------------------------------------
Fault == faults < MaxFaults /\ faults' = faults + 1

(* The places that the attempt writes, and those it has still to remove.    *)
Writes == IF attempt = "DELETE" THEN {} ELSE {gateway} \X KeysOf(wanted)
Unremoved == {<<gateway, todo[i].key>> : i \in {j \in DOMAIN todo : todo[j].op = "delete"}}

(* The user edits the application, between attempts or while one runs,      *)
(* which keeps the description as it is when it ends.                       *)
Edit ==
  /\ \E d \in Descriptions \ {wanted} : wanted' = d
  /\ \/ attempt = "none" /\ UNCHANGED mishaps
     \/ attempt # "none" /\ Fault /\ exact' = FALSE /\ lost' = lost \cup Writes
  /\ UNCHANGED <<etcd, last, work>>

(* getDeployAction.  An update asks first with the description before.      *)
OtherGateway == last.kept.gateway # wanted.gateway
Deploy ==
  /\ attempt = "none"
  /\ \/ /\ last.type \in {"none", "DELETE"}
        /\ attempt' = "CREATE" /\ gateway' = Configurator(wanted)
        /\ todo' = Configure(wanted)
        /\ exact' = TRUE /\ UNCHANGED lost
     \/ /\ last.type \in {"CREATE", "UPDATE"}
        /\ attempt' = "UPDATE" /\ gateway' = Configurator(last.kept)
        /\ todo' = Update(last.kept, wanted)
        /\ exact' = ~OtherGateway
        /\ lost' = lost \cup
             IF OtherGateway THEN {last.kept.gateway} \X KeysOf(wanted) ELSE {}
  /\ UNCHANGED <<etcd, stored, faults>>

(* The application is undeployed as it is described now.                    *)
Undeploy ==
  /\ attempt = "none" /\ last.type \in {"CREATE", "UPDATE"}
  /\ attempt' = "DELETE" /\ gateway' = Configurator(wanted)
  /\ todo' = DeleteConfiguration(wanted)
  /\ LET untold == Places(last.kept) \ Places(wanted)
     IN \/ untold = {} /\ UNCHANGED mishaps
        \/ untold # {} /\ Fault /\ lost' = lost \cup untold /\ UNCHANGED exact
  /\ UNCHANGED <<etcd, stored>>

(* The next call.                                                           *)
Target == <<gateway, Head(todo).key>>
Call ==
  /\ todo # <<>>
  /\ etcd' = [etcd EXCEPT ![Target] = Head(todo).value]
  /\ todo' = Tail(todo)
  /\ UNCHANGED <<stored, attempt, gateway, mishaps>>

(* delete swallows what etcd answers, whatever it is.                       *)
DeleteRefused ==
  /\ todo # <<>> /\ Head(todo).op = "delete"
  /\ \/ etcd[Target] = None /\ UNCHANGED mishaps
     \/ etcd[Target] # None /\ Fault /\ lost' = lost \cup {Target} /\ UNCHANGED exact
  /\ todo' = Tail(todo)
  /\ UNCHANGED <<etcd, stored, attempt, gateway>>

(* At the end of an attempt the application is read again and kept with it  *)
(* in the history.                                                          *)
End(failed) ==
  /\ last' = [type |-> attempt, kept |-> wanted, failed |-> failed]
  /\ attempt' = "none" /\ gateway' = None /\ todo' = <<>>
  /\ UNCHANGED <<etcd, wanted>>
Finish ==
  /\ attempt # "none" /\ todo = <<>>
  /\ End(FALSE)
  /\ UNCHANGED mishaps

(* A call throws with or without effect, or another action of the attempt   *)
(* fails before or after.  What was still to be removed is not in the       *)
(* description that the history has now.                                    *)
AttemptFails ==
  /\ attempt # "none"
  /\ End(TRUE)
  /\ Fault /\ lost' = lost \cup Unremoved /\ UNCHANGED exact

CrashAndGoOn ==   \* a deviation: the calls outlive the attempt
  /\ attempt # "none"
  /\ Fault /\ exact' = FALSE /\ lost' = lost \cup Writes
  /\ attempt' = "none" /\ UNCHANGED <<gateway, todo>>
  /\ UNCHANGED <<etcd, stored>>
Crash ==
  /\ attempt # "none"
  /\ Fault /\ exact' = FALSE /\ lost' = lost \cup Writes
  /\ attempt' = "none" /\ gateway' = None /\ todo' = <<>>
  /\ UNCHANGED <<etcd, stored>>

Next ==
  \/ Edit \/ Deploy \/ Undeploy
  \/ Call \/ DeleteRefused \/ Finish \/ AttemptFails
  \/ Crash

(* Attempts come to their end, and the user tries again.                    *)
Fairness == WF_vars(Call) /\ WF_vars(Finish) /\ WF_vars(Deploy)
Spec == Init /\ [][Next]_vars
FairSpec == Spec /\ Fairness

-----------------------------------------------------------------------------
(* The types of the variables; the calls are those of an attempt.           *)
TypeOK ==
  /\ DOMAIN etcd = Gateways \X (Keys \cup {Frontend})
  /\ wanted \in Descriptions
  /\ last.kept \in Descriptions \cup {Nothing}
  /\ last.type \in {"none", "CREATE", "UPDATE", "DELETE"}
  /\ last.failed \in BOOLEAN
  /\ attempt \in {"none", "CREATE", "UPDATE", "DELETE"}
  /\ IF attempt = "none" THEN gateway = None /\ todo = <<>> ELSE gateway \in Gateways
  /\ \A i \in DOMAIN todo : todo[i].key \in Keys \cup {Frontend}
  /\ faults \in 0 .. MaxFaults /\ exact \in BOOLEAN /\ lost \subseteq DOMAIN etcd

Deployed == attempt = "none" /\ last.type \in {"CREATE", "UPDATE"} /\ ~last.failed
Holds(d) ==
  \A i \in DOMAIN Config(d) : etcd[<<d.gateway, Config(d)[i][1]>>] = Config(d)[i][2]

(* A service that is recorded as deployed is served as described: the etcd  *)
(* of its gateway has every key of its description, whatever attempts and   *)
(* deletions failed before and whichever gateways served it, unless the     *)
(* application was edited while it was deployed, an attempt since left no   *)
(* trace in the history, or this attempt was the update to the gateway from *)
(* another: that one is successful and has written to the gateway before.   *)
Served == exact /\ Deployed => Holds(last.kept)

(* HAProxy is not left with frontends, backends and servers that are not    *)
(* described any more, but for what is lost at the time: between attempts   *)
(* every other key of a gateway is one that the next update removes, and    *)
(* after a deletion there is none.  Lost are the key whose deletion etcd    *)
(* refuses, those that a failed attempt had still to remove, what an        *)
(* attempt wrote that crashed or that did not keep its description, what a  *)
(* deletion is not told of, and what an update to another gateway writes:   *)
(* no attempt removes it from where it is.                                  *)
NothingStale ==
  attempt = "none" =>
    {p \in DOMAIN etcd : etcd[p] # None} \subseteq
      lost \cup IF last.type = "DELETE" THEN {} ELSE Places(last.kept)

(* Of the requests to a service whose weights are percentages, each backend *)
(* gets its weight: what a rule draws from is what the rules before it have *)
(* left.                                                                    *)
SharesRight ==
  exact /\ Deployed /\ Percent(last.kept.weights) =>
    LET rules == etcd[<<last.kept.gateway, Frontend>>]
    IN \A i \in DOMAIN last.kept.weights :
         Taken(rules[i], Reach(rules)[i]) = last.kept.weights[i][2]

(* Whatever was lost, swallowed or edited at a bad time, and whichever      *)
(* gateway it is to have now, a user who goes on deploying an application   *)
(* that is no longer edited has it served, with all that it describes.      *)
RedeployRepairs ==
  <>[][wanted' = wanted]_wanted => []<>(Deployed /\ Holds(wanted))
=============================================================================
