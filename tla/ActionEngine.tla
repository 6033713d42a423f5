---------------------------- MODULE ActionEngine ----------------------------
(***************************************************************************)
(* The action execution engine of ecloudmanager: the classes Action,       *)
(* ActionGroup, SingleAction and ActionExecutor of the package             *)
(* org.ecloudmanager.service.execution.                                    *)
(*                                                                         *)
(* A plan is a tree.  Its leaves (SingleAction) call a cloud provider, a   *)
(* Chef server or a machine; its inner nodes (ActionGroup) only gather     *)
(* their children.  A coordinator task walks the tree again and again,     *)
(* marks one available leaf RUNNING and submits it to the thread pool; the *)
(* worker that runs the leaf sets its final status.  The stored status of  *)
(* a group is brought up to date by whoever calls getStatus on it: the     *)
(* coordinator, and every page that shows the plan.                        *)
(***************************************************************************)
EXTENDS Naturals, Sequences, FiniteSets

CONSTANTS
  Actions,      \* every Action of the plan
  Groups,       \* the ActionGroups among them; the rest are SingleActions
  Top,          \* the action handed to ActionExecutor.execute
  Children,     \* the "actions" list of each group
  Requires,     \* Action.depends: what an action depends on
  Awaits,       \* what getDependencies adds when it is asked (fixed by the plan)
  Above,        \* the path of each action: itself and the groups it lies in
  Downstream,   \* what setStatus reaches by following requiredBy recursively
  Coordinators  \* one for every call of ActionExecutor.execute on this plan

Singles == Actions \ Groups
Kids(g) == {Children[g][i] : i \in DOMAIN Children[g]}

(* getDependencies: CreateFirewallRulesAction and ProvisionVmAction look up *)
(* further actions in the whole plan, the others return Action.depends.     *)
Dependencies(a) == Awaits[a] \cup Requires[a]

ASSUME PlanAssumption ==
  /\ Groups \subseteq Actions
  /\ Top \in Actions
  /\ Children \in [Groups -> Seq(Actions)]
  /\ Requires \in [Actions -> SUBSET Actions]
  /\ Awaits \in [Actions -> SUBSET Singles]
  /\ \A g \in Groups : Awaits[g] = {}

UpClosed(S) == \A g \in Groups : Kids(g) \cap S # {} => g \in S

DownClosed(a, S) ==
  \A x \in Actions : Requires[x] \cap (S \cup {a}) # {} => x \in S

(* Paths and downstream sets are closures: the intersections of all closed  *)
(* sets, so that facts about them need no induction.                        *)
ASSUME ClosureAssumption ==
  /\ Above = [a \in Actions |->
       {b \in Actions : \A S \in SUBSET Actions :
          a \in S /\ UpClosed(S) => b \in S}]
  /\ Downstream = [a \in Actions |->
       {b \in Actions : \A S \in SUBSET Actions :
          DownClosed(a, S) => b \in S}]

(* A plan is a tree below Top.                                             *)
ASSUME TreeAssumption ==
  /\ \A g, h \in Groups : Kids(g) \cap Kids(h) # {} => g = h
  /\ \A g \in Groups : Top \notin Kids(g)
  /\ \A a \in Actions : Top \in Above[a]

(* Only actionSequence adds dependencies, between members of one sequence.  *)
ASSUME SequenceAssumption ==
  \A a \in Actions : \A d \in Requires[a] :
    \E g \in Groups : {a, d} \subseteq Kids(g)

(* A deployer may build a group without children, but never inside a chain: *)
(* it is the first or the last member of its sequence.                      *)
ASSUME EmptyGroupAssumption ==
  \A g \in Groups : Kids(g) = {} =>
    Requires[g] = {} \/ \A a \in Actions : g \notin Requires[a]

-----------------------------------------------------------------------------
VARIABLES
  status,   \* Action.status of every action
  pc,       \* where each coordinator is in the loop of ActionExecutor.execute
  todo,     \* what its getAvailableAction has still to visit, in visiting order
  job,      \* for every coordinator and leaf: the task it submitted for the leaf
  runs      \* how often the callable of a leaf was called (history)

vars == <<status, pc, todo, job, runs>>

Statuses == {"PENDING", "RUNNING", "SUCCESSFUL", "FAILED", "NOT_RUN"}
Broken == {"FAILED", "NOT_RUN"}
Done == {"FAILED", "SUCCESSFUL"}
Final == Done \cup Broken

Init ==
  /\ status = [a \in Actions |-> "PENDING"]
  /\ pc = [c \in Coordinators |-> "idle"]
  /\ todo = [c \in Coordinators |-> <<>>]
  /\ job = [c \in Coordinators |-> [a \in Singles |-> "none"]]
  /\ runs = [a \in Singles |-> 0]

(* setStatus: a FAILED or NOT_RUN action makes all that require it NOT_RUN. *)
SetStatus(a, s) ==
  status' = [x \in Actions |->
    IF s \in Broken /\ x \in Downstream[a] THEN "NOT_RUN"
    ELSE IF x = a THEN s ELSE status[x]]

(* Deviations of getStatus that the properties must notice: a group that is *)
(* FAILED as soon as one child is; one that forgets that it was given up;   *)
(* one that waits for children that were given up.                          *)
GroupStatusFailingFast(old, seen) ==
  IF old = "NOT_RUN" THEN "NOT_RUN"
  ELSE IF seen \cap Broken # {} THEN "FAILED"
  ELSE IF seen \subseteq {"SUCCESSFUL"} THEN "SUCCESSFUL"
  ELSE IF "RUNNING" \in seen \/ old = "RUNNING" THEN "RUNNING" ELSE "PENDING"
GroupStatusReviving(old, seen) ==
  IF "RUNNING" \in seen THEN "RUNNING"
  ELSE IF "PENDING" \in seen THEN "PENDING"
  ELSE IF seen \cap Broken # {} THEN "FAILED" ELSE "SUCCESSFUL"
GroupStatusWaiting(old, seen) ==
  IF old = "NOT_RUN" THEN "NOT_RUN"
  ELSE IF seen \subseteq Done
       THEN IF "FAILED" \in seen THEN "FAILED" ELSE "SUCCESSFUL"
  ELSE IF "RUNNING" \in seen \/ old = "RUNNING" THEN "RUNNING" ELSE "PENDING"

(* What ActionGroup.getStatus computes from the old status of the group and *)
(* the statuses of its children.                                            *)
GroupStatus(old, seen) ==
  IF old = "NOT_RUN" THEN "NOT_RUN"
  ELSE IF "RUNNING" \in seen THEN "RUNNING"
  ELSE IF "PENDING" \in seen
       THEN IF old = "RUNNING" /\ seen \cap Final # {} THEN "RUNNING" ELSE "PENDING"
  ELSE IF seen \cap Broken # {} THEN "FAILED" ELSE "SUCCESSFUL"

(* One ActionGroup.getStatus, by a coordinator or by the page that polls    *)
(* the statuses of the plan: the children have returned theirs.             *)
Refresh(g) ==
  /\ SetStatus(g, GroupStatus(status[g], {status[a] : a \in Kids(g)}))
  /\ UNCHANGED <<pc, todo, job, runs>>

(* Deviations of isReady: only the dependencies of the sequence count, or   *)
(* an action that is under way is ready again.                              *)
ReadyInSequence(a) ==
  /\ status[a] = "PENDING"
  /\ \A d \in Requires[a] : status[d] = "SUCCESSFUL"
ReadyAgain(a) ==
  /\ status[a] \in {"PENDING", "RUNNING"}
  /\ \A d \in Dependencies(a) : status[d] = "SUCCESSFUL"

(* isReady, without its side effect.                                        *)
Ready(a) ==
  /\ status[a] = "PENDING"
  /\ \A d \in Dependencies(a) : status[d] = "SUCCESSFUL"

HasFailedDependency(a) ==   \* a deviation: NOT_RUN dependencies are overlooked
  /\ status[a] = "PENDING"
  /\ \E d \in Dependencies(a) : status[d] = "FAILED"
HasBrokenDependency(a) ==
  /\ status[a] = "PENDING"
  /\ \E d \in Dependencies(a) : status[d] \in Broken

-----------------------------------------------------------------------------
(* The Run button: executeAction submits a coordinator for a PENDING plan.  *)
Execute(c) ==
  /\ pc[c] = "idle"
  /\ status[Top] = "PENDING"
  /\ pc' = [pc EXCEPT ![c] = "check"]
  /\ UNCHANGED <<status, todo, job, runs>>

(* while (!action.isDone()): start another walk.                            *)
StartWalk(c) ==
  /\ pc[c] = "check"
  /\ status[Top] \notin Done
  /\ pc' = [pc EXCEPT ![c] = "walk"]
  /\ todo' = [todo EXCEPT ![c] = <<Top>>]
  /\ UNCHANGED <<status, job, runs>>

(* The plan is done: leave the loop and call onComplete.                    *)
Report(c) ==
  /\ pc[c] = "check"
  /\ status[Top] \in Done
  /\ pc' = [pc EXCEPT ![c] = "reported"]
  /\ UNCHANGED <<status, todo, job, runs>>

Visiting(c) == pc[c] = "walk" /\ todo[c] # <<>>
Visited(c) == Head(todo[c])

(* isReady finds a FAILED or NOT_RUN dependency: the action is NOT_RUN.     *)
GiveUp(c) ==
  /\ Visiting(c)
  /\ HasBrokenDependency(Visited(c))
  /\ SetStatus(Visited(c), "NOT_RUN")
  /\ todo' = [todo EXCEPT ![c] = Tail(@)]
  /\ UNCHANGED <<pc, job, runs>>

EnterAnyway(c) ==   \* a deviation: without asking isReady of the group
  /\ Visiting(c)
  /\ Visited(c) \in Groups
  /\ status[Visited(c)] \notin Final
  /\ todo' = [todo EXCEPT ![c] = Children[Visited(c)] \o Tail(@)]
  /\ UNCHANGED <<status, pc, job, runs>>

(* getAvailableAction of a group that is ready or RUNNING: its children     *)
(* are visited next, in their order.                                        *)
Enter(c) ==
  /\ Visiting(c)
  /\ Visited(c) \in Groups
  /\ Ready(Visited(c)) \/ status[Visited(c)] = "RUNNING"
  /\ todo' = [todo EXCEPT ![c] = Children[Visited(c)] \o Tail(@)]
  /\ UNCHANGED <<status, pc, job, runs>>

(* getAvailableAction returns null for this action.                         *)
PassOver(c) ==
  /\ Visiting(c)
  /\ ~ HasBrokenDependency(Visited(c))
  /\ ~ Ready(Visited(c))
  /\ Visited(c) \in Groups => status[Visited(c)] # "RUNNING"
  /\ todo' = [todo EXCEPT ![c] = Tail(@)]
  /\ UNCHANGED <<status, pc, job, runs>>

PickGroups(c) ==   \* a deviation: a ready group is returned like a leaf
  /\ Visiting(c)
  /\ Ready(Visited(c))
  /\ pc' = [pc EXCEPT ![c] = "picked"]
  /\ UNCHANGED <<status, todo, job, runs>>

(* getAvailableAction returns a ready leaf, at the head of todo.            *)
Pick(c) ==
  /\ Visiting(c)
  /\ Visited(c) \in Singles
  /\ Ready(Visited(c))
  /\ pc' = [pc EXCEPT ![c] = "picked"]
  /\ UNCHANGED <<status, todo, job, runs>>

(* The picked leaf is set RUNNING, whatever its status is by now, and       *)
(* submitted.                                                               *)
Launch(c) ==
  /\ pc[c] = "picked"
  /\ SetStatus(Visited(c), "RUNNING")
  /\ job' = [job EXCEPT ![c][Visited(c)] = "queued"]
  /\ pc' = [pc EXCEPT ![c] = "check"]
  /\ todo' = [todo EXCEPT ![c] = <<>>]
  /\ UNCHANGED runs

(* Nothing was available: sleep, then look at the status again.             *)
Sleep(c) ==
  /\ pc[c] = "walk"
  /\ todo[c] = <<>>
  /\ pc' = [pc EXCEPT ![c] = "check"]
  /\ UNCHANGED <<status, todo, job, runs>>

-----------------------------------------------------------------------------
(* SingleAction.apply on a worker thread.                                   *)
Begin(c, a) ==
  /\ job[c][a] = "queued"
  /\ status[a] = "RUNNING"
  /\ job' = [job EXCEPT ![c][a] = "running"]
  /\ runs' = [runs EXCEPT ![a] = @ + 1]
  /\ UNCHANGED <<status, pc, todo>>

(* apply finds another status: IllegalStateException("Invalid action state") *)
Refuse(c, a) ==
  /\ job[c][a] = "queued"
  /\ status[a] # "RUNNING"
  /\ job' = [job EXCEPT ![c][a] = "refused"]
  /\ UNCHANGED <<status, pc, todo, runs>>

Finish(c, a, s) ==
  /\ job[c][a] = "running"
  /\ SetStatus(a, s)
  /\ job' = [job EXCEPT ![c][a] = "ended"]
  /\ UNCHANGED <<pc, todo, runs>>

Succeed(c, a) == Finish(c, a, "SUCCESSFUL")
Fail(c, a) == Finish(c, a, "FAILED")

(* An Error is no Exception: apply does not catch it, the status stays.     *)
Die(c, a) ==
  /\ job[c][a] = "running"
  /\ job' = [job EXCEPT ![c][a] = "died"]
  /\ UNCHANGED <<status, pc, todo, runs>>

-----------------------------------------------------------------------------
Coordinate(c) ==
  \/ StartWalk(c) \/ Report(c)
  \/ GiveUp(c) \/ Enter(c) \/ PassOver(c) \/ Pick(c)
  \/ Launch(c) \/ Sleep(c)

Work(c, a) ==
  \/ Begin(c, a) \/ Refuse(c, a)
  \/ Succeed(c, a) \/ Fail(c, a) \/ Die(c, a)

Next ==
  \/ \E g \in Groups : Refresh(g)
  \/ \E c \in Coordinators : Execute(c) \/ Coordinate(c)
  \/ \E c \in Coordinators : \E a \in Singles : Work(c, a)

(* The loop of a coordinator never stops by itself, and its walk calls      *)
(* getStatus on every group it can enter; the pool goes on running tasks    *)
(* as long as there are any, and a callable ends.  Each task takes two      *)
(* steps and a status only advances, so fairness to all tasks and to all    *)
(* groups together is enough.  Nobody has to press Run.                     *)
Fairness ==
  /\ \A c \in Coordinators : WF_vars(Coordinate(c))
  /\ WF_vars(\E g \in Groups : Refresh(g))
  /\ WF_vars(\E c \in Coordinators : \E a \in Singles : Work(c, a))

Spec == Init /\ [][Next]_vars
FairSpec == Spec /\ Fairness

-----------------------------------------------------------------------------
(* The types of the variables; a coordinator that has picked holds a leaf.  *)
TypeOK ==
  /\ status \in [Actions -> Statuses]
  /\ pc \in [Coordinators -> {"idle", "check", "walk", "picked", "reported"}]
  /\ todo \in [Coordinators -> Seq(Actions)]
  /\ job \in [Coordinators -> [Singles ->
               {"none", "queued", "running", "refused", "ended", "died"}]]
  /\ runs \in [Singles -> Nat]
  /\ \A c \in Coordinators :
       pc[c] = "picked" => todo[c] # <<>> /\ Visited(c) \in Singles

Started(a) == status[a] \in {"RUNNING", "SUCCESSFUL", "FAILED"}

(* A leaf is RUNNING or has run only if every dependency of the leaf, and   *)
(* every dependency of every group it lies in, is SUCCESSFUL: nothing runs  *)
(* ahead of its place in the nested sequences, however the coordinator, the *)
(* pages and the workers interleave (isReady, getAvailableAction).          *)
StartsInOrder ==
  \A a \in Singles : Started(a) =>
    \A b \in Above[a] : \A d \in Dependencies(b) : status[d] = "SUCCESSFUL"

(* No callable is called twice, and none of an action that the plan still   *)
(* shows as PENDING or NOT_RUN: createNode and deleteNode are not repeated  *)
(* by a second walk that reads the statuses while workers change them.      *)
RunsAtMostOnce ==
  \A a \in Singles :
    /\ runs[a] <= 1
    /\ status[a] \in {"PENDING", "NOT_RUN"} => runs[a] = 0

(* However often Run was pressed at once, no callable is called more often  *)
(* than that: each coordinator submits a leaf once, also when a second one  *)
(* sets an ended leaf RUNNING again.                                        *)
RunsOncePerCoordinator ==
  \A a \in Singles : runs[a] <= Cardinality(Coordinators)

(* When completion is reported no task is queued or running, the plan is    *)
(* SUCCESSFUL exactly when every leaf is, and otherwise each leaf that did  *)
(* not run lies behind a FAILED or NOT_RUN action.                          *)
ReportIsFaithful ==
  \A c \in Coordinators : pc[c] = "reported" =>
    /\ \A a \in Singles : job[c][a] \notin {"queued", "running"}
    /\ status[Top] = "SUCCESSFUL" <=> \A a \in Singles : status[a] = "SUCCESSFUL"
    /\ \A a \in Singles : status[a] = "PENDING" =>
         \E b \in Above[a] : status[b] = "NOT_RUN"

(* SUCCESSFUL, FAILED and NOT_RUN are final and RUNNING never falls back to *)
(* PENDING, of a leaf or of a group that has children: setStatus itself     *)
(* would overwrite anything.                                                *)
Advances(a) ==
  /\ status[a] \in Final => status'[a] = status[a]
  /\ status[a] # "PENDING" => status'[a] # "PENDING"
AllAdvance == \A a \in Actions : (a \in Groups => Kids(a) # {}) => Advances(a)
StatusAdvances == [][AllAdvance]_vars

(* Once Run is pressed, completion is reported, unless a worker died of an  *)
(* Error: the loop of ActionExecutor.execute ends.                          *)
Completes ==
  \A c \in Coordinators :
    pc[c] = "check" ~> \/ pc[c] = "reported"
                       \/ \E d \in Coordinators, a \in Singles : job[d][a] = "died"

(* The leaves that have to succeed before leaf a may start: those below a   *)
(* dependency of a or of a group a lies in, and those before them in turn.  *)
Directly(a) ==
  {x \in Singles : \E b \in Above[a] : Above[x] \cap Dependencies(b) # {}}
BeforeLeaf == [a \in Singles |->
  {x \in Singles : \A S \in SUBSET Singles :
     /\ Directly(a) \subseteq S
     /\ \A y \in S : Directly(y) \subseteq S
     => x \in S}]

Progress(a) ==
  CASE status[a] = "RUNNING"    -> "underway"
    [] status[a] = "SUCCESSFUL" -> "succeeded"
    [] status[a] = "FAILED"     -> "failed"
    [] OTHER                    -> "waiting"

Plan == INSTANCE PlanExecution WITH
  Tasks <- Singles,
  Before <- BeforeLeaf,
  progress <- [a \in Singles |-> Progress(a)],
  verdict <- IF \A c \in Coordinators : pc[c] # "reported" THEN "none"
             ELSE IF status[Top] = "SUCCESSFUL" THEN "succeeded" ELSE "failed"

(* The engine executes the plan as PlanExecution promises: leaves start in  *)
(* the order of their transitive dependencies and once, and completion is   *)
(* reported with the right verdict when nothing more can happen.            *)
ExecutesPlan == Plan!Spec

(* A walk that sees these statuses picks the leaf or gives the action up:   *)
(* every group on the way to it is entered.                                 *)
Available(a) ==
  /\ (a \in Singles /\ Ready(a)) \/ HasBrokenDependency(a)
  /\ \A g \in Above[a] \ {a} : Ready(g) \/ status[g] = "RUNNING"

OutOfDate(g) == GroupStatus(status[g], {status[a] : a \in Kids(g)}) # status[g]

(* A leaf that a group around it has taken along when it was given up.      *)
Abandoned(a) ==
  status[a] = "PENDING" /\ \E b \in Above[a] : status[b] = "NOT_RUN"

(* While the plan is not done the coordinator never walks in vain: a leaf   *)
(* is under way, getStatus has something to bring up to date, or the next   *)
(* walk finds a leaf to run or an action to give up.  The exception is a    *)
(* leaf that awaits an abandoned one.                                       *)
NeverStuck ==
  \/ status[Top] \in Done
  \/ \E a \in Singles : status[a] = "RUNNING"
  \/ \E g \in Groups : OutOfDate(g)
  \/ \E a \in Actions : Available(a)
  \/ \E a \in Singles : status[a] = "PENDING" /\ \E d \in Awaits[a] : Abandoned(d)

(* The leaves can have their turn one after the other.                      *)
TurnsCome ==
  \A S \in SUBSET Singles : S # {} => \E a \in S : Directly(a) \cap S = {}

(* SingleAction.java:118 holds that a submitted action is RUNNING when its  *)
(* worker reaches it.                                                       *)
NoInvalidState ==
  \A c \in Coordinators : \A a \in Singles : job[c][a] # "refused"

(* A leaf that nothing keeps from running but a leaf the plan has abandoned *)
(* together with a group around it.                                         *)
AwaitsAbandoned ==
  \E a \in Singles :
    /\ status[a] = "PENDING"
    /\ \A b \in Above[a] : status[b] # "NOT_RUN"
    /\ \E d \in Awaits[a] : \E b \in Above[d] : status[b] = "NOT_RUN"

(* Action.java:166 says of NOT_RUN "has FAILED dependencies": a leaf that   *)
(* awaits an abandoned one does not stay PENDING for ever.                  *)
AwaitingIsDecided ==
  AwaitsAbandoned ~>
    \/ ~ AwaitsAbandoned
    \/ \E c \in Coordinators, a \in Singles : job[c][a] = "died"
=============================================================================
