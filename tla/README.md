# A TLA+ model of ecloudmanager

ecloudmanager deploys distributed applications to clouds. A user draws an
application (machines, component groups, HAProxy load balancers, gateways,
external services); the program compares it with what was deployed last, builds
a plan of actions, and executes the plan against AWS or Verizon, a Chef server,
machines reached over ssh, and the etcd store that configures the load
balancers. This directory holds TLA+ modules translated from that code, the
TLC configurations that check them on small instances, and TLAPS proofs.

Paths are shortened: `ejb:` is `src/ecloud-manager-ejb/src/main/java/org/ecloudmanager/`,
`web:` is `src/ecloud-manager-web/src/main/java/org/ecloudmanager/`, `node:` is
`src/node-api/src/main/java/org/ecloudmanager/node/`, `rest:` is
`src/node-api-remote/src/main/java/org/ecloudmanager/node/rest/`, `agent:`
is `src/agent-rest/src/main/java/org/ecloudmanager/agent/controller/`, `aws:` is
`src/node-api-aws/src/main/java/org/ecloudmanager/node/aws/`, and `vz:` is
`src/node-api-verizon/src/main/java/org/ecloudmanager/node/verizon/`.

The program is Java. The scripts in the repository are libraries (Swagger UI,
cytoscape, dagre, jqplot) with one exception, the widget
`cytoscape-primefaces.js` that draws a plan, which decides nothing: no module is
translated from a script.

## 1. Inventory

| Component | State it keeps | Operations | Interacts with |
|---|---|---|---|
| Action execution engine (`ejb:service/execution`, `ejb:actions/CreateFirewallRulesAction`, `ProvisionVmAction`) | `status` of every action, `actions`, `depends`, `requiredBy`; the coordinator's position | `execute`, `getAvailableAction`, `isReady`, `setStatus`, `getStatus`, `apply` | pages (Run, polling), thread pool, the callables of the leaves |
| Plan construction (`ejb:deployment/**/**Deployer`) | none: trees of actions are returned | `getCreateAction`, `getUpdateAction`, `getDeleteAction`, `getBeforeChild...` | the deployment tree before and after |
| Deployment service and history (`ejb:service/deployment`, `ejb:deployment/history`) | attempts in the database with a snapshot of the deployment | `getLastAttempt`, `getDeploymentAction`, `execute...`, `save` | engine, repositories, REST `web:rest` |
| Machine actions (`ejb:actions/VmActions`) | ids of nodes and addresses in the deployment document | create, configure, delete, update | node APIs, persistence |
| Futures and task logs (`node:LoggableFuture`, `LocalLoggableFuture`, `LocalTaskLogs`, `ejb:repository/deployment/ActionLogger`) | queues of log events by task id, futures | `submit`, `waitFor`, `pollLogs`, `deleteLogs`, `get` | pool, log repository |
| Remote node API and agent (`rest:`, `agent:DefaultController`) | agent's table of tasks, its log queues | `createNode`..., `getTask`, `deleteTask`, `pollLog` | HTTP in between |
| Executor with context (`ejb:service/execution/context`) | one pool, context copied per task | `submit`, `execute` | everything above |
| HAProxy configuration (`ejb:service/provisioning/HAProxyConfigurator`, `ejb:actions/HAProxyActions`) | keys in etcd | save/delete frontend, backend, server | engine's callables |
| Provisioning (`GlobalProvisioningService`, `ChefService`, `LocalSshAPI`) | machines, Chef server | ssh session, upload, `chef-client` | engine's callables |
| AWS nodes, Verizon nodes, existing nodes (`src/node-api-*`) | instances, security groups, DNS, cached entities | create, configure, update, delete node and firewall rules | cloud services |
| Monitoring (`ejb:monitoring`) | round robin databases, latest statistics | `collect`, asynchronous callbacks | load balancers |
| Persistence (`ejb:jeecore`) | documents in MongoDB | whole-document `save` without versions | all repositories |
| Domain, templates, import; geolocation; security; web pages; Jenkins plugin; generated cloud bindings | data, configuration | | |

What is hard, and what makes each component correct:

* **Engine.** A coordinator thread, the workers of the pool and every open page
  read and write the statuses of one plan. The order of the leaves is enforced
  only by reading those statuses along three relations (sequences, groups,
  looked-up actions). Correct: nothing starts before what it depends on has
  succeeded, no callable runs twice, final statuses are final, the report of
  completion is true, and completion is reached.
* **Futures and logs, agent.** Results, ends and log events travel by separate
  calls. Correct: a caller gets the outcome of its own task, gets every event
  once and in order, leaves nothing behind, and gets an answer whatever is lost.
* **Machine actions and history.** Two copies of one document, nodes that exist
  outside the database, crashes between the two. Correct: a live node is known
  by id, and the next attempt is chosen from what is really deployed.
* **Executor.** Tasks wait for tasks of the same pool. Correct: not all threads
  wait.
* **HAProxy configuration, cloud nodes.** Several external calls make one
  operation. Correct: repeating an operation after a partial failure puts in place
  all that doing it once does.
* **A/B weights.** Rules are drawn one after the other. Correct: each backend
  receives its share.
* **Monitoring.** Correct: samples are written in order, one database per source.

The hazards are listed with their lines in `PROJECT.json`.

## 2. Modules and plan

| Modules | Part of the system | Proofs |
|---|---|---|
| `ActionEngine`, `PlanExecution` (abstract), `MCActionEngine` | action execution engine | `ActionEngineProofs`, `ActionReportProofs`, `PlanExecutionProofs`, `ManyRunsProofs` |
| `ActionLocks`, `MCActionLocks` | the monitors of actions and groups | |
| `Deployers`, `MCDeployers` | plan construction, as functions | |
| `TaskCalls`, `TaskContract` (abstract), `MCTaskCalls` | futures, task logs, remote API and agent, pool | `TaskCallsProofs` |
| `VmLifecycle`, `MCVmLifecycle` | attempts, history, the shared document, nodes | `VmLifecycleProofs` |
| `AwsNodes`, `NodeProvider` (abstract), `MCAwsNodes` | node operations at AWS | `AwsNodesProofs` |
| `VerizonNode` | node operations at Verizon | |
| `LoadBalancer`, `MCLoadBalancer` | HAProxy configuration in etcd, A/B weights | `LoadBalancerProofs` |

How they fit together. `Deployers` builds the plans that `ActionEngine` executes;
`ActionEngine` shows what a sequence of leaves does, which `VmLifecycle` and
`LoadBalancer` take for granted of the steps of one machine and of one service.
A leaf calls a node operation through `TaskCalls` and gets one answer, an outcome
or an error, which are the alternatives of a step of `VmLifecycle`. What
`VmLifecycle` relies on when it calls a provider is `NodeProvider`, and `AwsNodes`
is shown to implement it.

Not yet there, in the order of their weight: two attempts for one application at
a time and machines added to or removed from an application between attempts, in
`VmLifecycle`; a change of an application's infrastructure between attempts; the
resizing of an instance and its volume, in `AwsNodes`; the round of
`StatsCollector` with its callbacks.

## 3. The action engine

### Correspondence

`Actions`, `Groups`, `Children`, `Requires`, `Awaits` are the fields of a plan as
the deployers build it: `Requires` is `Action.depends`, `Awaits` is what the
overridden `getDependencies` of `CreateFirewallRulesAction` and
`ProvisionVmAction` adds by looking into the whole plan. `Above` and
`Downstream` are closures of those (the path to the root; what `setStatus`
reaches by recursing along `requiredBy`). They are constants, defined in
`ClosureAssumption` as intersections of all closed sets, so that no induction is
needed in proofs; `MCActionEngine` computes them recursively and TLC compares
the two.

| Variable | Code |
|---|---|
| `status` | `Action.status` |
| `pc`, `todo` | where a coordinator is in the loop of `ActionExecutor.execute`, and the actions its depth-first `getAvailableAction` has still to visit |
| `job` | the task submitted for a leaf: queued, running, refused (`IllegalStateException`), ended, died |
| `runs` | a history variable: calls of each leaf's callable |

| Action | Code |
|---|---|
| `Execute` | `DeploymentActionController.executeAction`: PENDING is checked, a coordinator submitted |
| `StartWalk`, `Report`, `Sleep`, `Launch` | `ActionExecutor.execute` |
| `GiveUp`, `Enter`, `PassOver`, `Pick` | `isReady` with its side effect and the two `getAvailableAction` |
| `Refresh` | `ActionGroup.getStatus`, called by the coordinator's loop and by the pages |
| `Begin`, `Refuse`, `Succeed`, `Fail`, `Die` | `SingleAction.apply` |

A walk is not atomic: between two visited actions anything may happen, so a
leaf's readiness may be stale when it is launched. What is taken as one step:

* `setStatus` holds the action's monitor while it recurses along `requiredBy`.
* `getStatus` of a group is synchronized on the group. It reads its children one
  after the other; statuses it counts as ended are final, so the result is one
  that an atomic reading at some instant in between gives, and a value computed
  earlier is covered by a `Refresh` at that earlier time. Stored statuses of
  inner groups may be out of date in the model where the code has just
  recomputed them: the model has more behaviours than the code, never fewer.
* `isReady` reads its dependencies in turn; SUCCESSFUL is final.

The monitors themselves are the subject of `ActionLocks` (section 4). Each call
being one step, `ActionEngine` presumes that threads do not wait for each other's
monitors in a circle; `Completes` holds under this presumption.

### Runs

| Run | Instance | Shows |
|---|---|---|
| `update_plan` | a Chef environment is replaced, which the provisioning of a machine awaits, and the machine is recreated: 6 leaves, 5 groups, fair; 32,023 states | `TypeOK`, `StartsInOrder`, `RunsAtMostOnce`, `ReportIsFaithful`, `NeverStuck`, `StatusAdvances`, `Completes`, and `ExecutesPlan`: the engine implements `PlanExecution` |
| `run_twice` | deleting a machine, two coordinators on one plan, fair; 149,939 states | `RunsOncePerCoordinator`, `Completes` |
| `awaiting_abandoned` | recreating two connected machines, fair | violation of `AwaitingIsDecided` |
| `two_runs` | the plan and coordinators of `run_twice` | violation of `NoInvalidState` |

Bounds. The only bound is the plan. The plans of `update_plan`, `run_twice` and
`two_runs` are those that the deployers build, under shorter names: `MCActionEngine`
states it as assumptions (`UpdateIsBuilt`, `DeleteIsBuilt`), which TLC evaluates
with the functions of `Deployers`. They have every relation the engine reads: a
sequence of leaves, a sequence of groups, so that a group waits and may be given
up, parallel groups, a leaf that awaits a leaf of another branch. The plan of
`awaiting_abandoned` leaves out what does not matter there and the groups that are
then left with one leaf. Groups without members are in no run: deployers build
one only for a service whose component groups, two or more, have no machines.
The theorems are about them too. One coordinator per plan, except in `run_twice` and
`two_runs`. `CHECK_DEADLOCK FALSE` because the system stops: after the report
nobody runs the plan again.

Fairness (`FairSpec`). The loop of a coordinator goes on by itself, and every
walk calls `getStatus` on each group it reaches; the pool goes on running tasks
and callables end. A worker that died of an `Error` is excepted in the
properties, because the loop then really waits for ever. Nobody has to press Run.

### What the violations show

* `awaiting_abandoned`: NOT_RUN spreads along `requiredBy` only. When a group is
  given up its members stay PENDING, and a leaf of another branch that looks one
  of them up (a firewall rule that needs the address of the other machine) is
  neither ready nor NOT_RUN. The plan never ends and its coordinator walks for
  ever. Deleting and recreating two connected machines where one deletion fails
  is enough.
* `two_runs`: `executeAction` checks and submits without a lock. Two requests at
  once start two coordinators, both pick the same leaf, and the second task finds
  it ended, where `SingleAction.apply` holds that it must be RUNNING. `run_twice` shows
  what is left: each coordinator runs a leaf at most once, and both come to an end.

### Proofs

All theorems are about every plan that satisfies the assumptions of
`ActionEngine`: a tree, with dependencies between members of one sequence, no
empty group in the middle of a sequence.

`ActionEngineProofs`, under `OneCoordinator` (`two_runs` shows that it is needed)
and `NoHollowGroups` (a group may be empty, but not gather empty groups only; the
status of such a group would not only advance):

* `Inductive`: `Spec => []IInv`;
* `TypeCorrect`, `OrderIsKept`, `NothingRunsTwice`, `StatusOnlyAdvances`,
  `NoTaskIsRefused`: `TypeOK`, `StartsInOrder`, `RunsAtMostOnce`,
  `StatusAdvances` and `NoInvalidState` from it.

The argument. `StartsInOrder` alone is not inductive: to know that no dependency
of a started leaf is ever lost one needs the same of groups (`OrderInv`), that
what follows a broken action is NOT_RUN only where its turn had come (`SkipInv`),
that a group's stored status is one its children still justify (`GroupInv`), that
tasks and statuses agree (`JobInv`), and that a picked leaf and the remaining walk
are what they were when they were read (`PickInv`, `WalkInv`). An empty group
becomes SUCCESSFUL before its turn, so `OrderInv` and the lemmas speak of `Solid`
actions where it matters. One lemma says when a status may be set without
disturbing any of this, and each action is shown to set statuses only in that
way; the proof of the step has one case per action.

`ActionReportProofs`, under `PlanEnds` too (no group is inside or before itself;
the plan is finite): `FaithfulReport`, that is `ReportIsFaithful`. `RInv` adds to
`IInv` that whatever is NOT_RUN has a broken dependency (`NotRunInv`) and that only
a plan that is done is reported (`ReportInv`). That a failed plan contains a failed
leaf is an induction along the tree, put as a statement about sets: `PlanEnds` says
that every set of groups has a minimal one; take the set of groups that are broken
without reason and a minimal one of them.

`PlanExecutionProofs`, with `NoCycles` (the same of all actions and dependencies)
in place of `PlanEnds`: `EngineExecutesPlan`, the refinement `ExecutesPlan`. Each step
of the engine starts or ends a leaf whose order allows it, or does not show.

There too, with `PlanEnds` and `TurnsCome` (among any leaves there is one that none of
the others has to precede): `NoWalkInVain`, that is `NeverStuck`. It is what
`Completes` needs besides fairness: a coordinator whose plan is not done has a
running leaf to wait for, a group to bring up to date, or a leaf or a group that its
next walk reaches and runs or gives up. The exception is a leaf that awaits an
abandoned one, which `awaiting_abandoned` shows to be possible. The argument: among
the leaves that have not ended, below groups that have not ended either, take one
whose turn comes first. What it and the groups around it depend on has ended, since
anything else would contain another such leaf. If all of it has succeeded, the leaf
is picked; if not, the topmost action on its path with a broken dependency is
given up.

`NumberedPlansEnd` and `NumberedLeavesHaveTurns` say when the hypotheses hold: if the
actions, or the leaves, can be numbered in their order. `RightOrder` of `MCDeployers`
is about that in the plans that the deployers build, and `MCActionEngine` has TLC
evaluate `TurnsCome` on every plan it runs.

`ManyRunsProofs`, for any finite number of coordinators (`FinitelyOften`) and plans
of any shape: `TypeAlwaysCorrect` and `OncePerCoordinator`. `MInv` counts the calls
of a callable by the coordinators whose task has run it.

Only model-checked: `Completes`; liveness is beyond the prover.

## 4. Monitors of actions

`ActionEngine` makes each synchronized method one step. `ActionLocks` is the same
code one lock at a time: `Action.getStatus` and `setStatus` and
`ActionGroup.getAvailableAction` hold the monitor of their action while they call
others. A thread has a stack of frames; a frame has the method, its action, the
calls it still has to make and what those it made have returned. `Call` waits
for the monitor and enters, `Compute`, `AskDependencies`, `EnterGroup`, `GiveUp`,
`Found` and `Return` are what the methods do when their calls have returned.
Threads are the coordinator (`Walk`, `Report`, `Sleep`, `Launch`, `Submit`: the loop
of `execute`), the worker of each leaf (`Begin`, `End`) and pages that ask any action
for its status (`Poll`).

`page_deadlock` is the plan that `HAProxyDeployer` builds to replace the
configuration of a service: a sequence of two groups of one leaf each; 26,920
states. It checks that an action whose dependency FAILED is NOT_RUN sooner or
later (`FollowersAreGivenUp`) and finds that it may not be: a page that polls the
failed group sets it FAILED again, holds it and waits for its follower, while the
coordinator, in `getAvailableAction` of the follower, holds that and waits for the
group. Without pages the property holds for this plan; it is the second reader
that makes the circle.

Fairness: weak for the coordinator and the ends of callables, strong for threads
that wait for a monitor, since Java gives it to one of those that wait and the
circle does not come from being passed over.

## 5. Plan construction

`Deployers` has the functions of the deployers: `getCreateAction`, `getDeleteAction`
and `getUpdateAction` of `AbstractDeployer` with `generateCompositeAction`, of
machines, Chef environments and services, and the dependencies that
`actionSequence` and the two overridden `getDependencies` add. A part of an
application is a record; what the deployers look up elsewhere (leaves of the last
attempt, changed parameters, what the Chef server has) is an argument. No state, so
no run of its own: `MCDeployers` states `PlansAreRight` as an assumption over all
pairs of 18 small applications and two sets of changes, which TLC evaluates on
every run of `MCActionEngine`. It compares each plan with what is to be done stated
machine by machine, not part by part of the tree: the plan has exactly the leaves
that it needs, once (`RightLeaves`); they can all have their turn, each in the order
it has to (`RightOrder`: a machine is deleted before it is created again,
configured and firewalled before it is provisioned, a service is configured after
its machines, what is removed from an application goes before what stays);
and it is a plan as `ActionEngine` assumes it (`WellFormed`).

The order of members that come out of a `HashMap` is taken to be that of the
parts; nothing in the plan depends on it but the order of walks.

## 6. Calls of asynchronous operations

`TaskCalls` models what a leaf does to create, configure or delete a node:
`LoggableFuture.waitFor` over a future, local or remote. `TaskContract` is what the
leaf is promised: it hears the events of its own task in order, without gaps or
repetitions, and gets one answer, its own task's outcome or an error.

| Variable | Code |
|---|---|
| `queue` | tasks waiting for a thread of `ContextExecutor`'s pool |
| `pc` | where the caller is: `submit`, then `poll` and `check` (the loop of `waitFor`), `get`, `delete` (both in `RestLoggableFuture.get`), `over` |
| `hasLogs`, `heard`, `answer` | the variable of `waitFor`, what its listeners got, its result |
| `task`, `id`, `made` | the callable, the id from `LocalTaskLogs.createID`, the events it has logged |
| `logs`, `nextId` | `LocalTaskLogs`, one for each process |
| `tasks` | `DefaultController.tasks` of the agent |
| `reply` | the agent's answer on its way to the caller |

For a local call each method of `LocalLoggableFuture` is one step. For a remote
call a request is in flight from the moment the caller reaches the step until
there is a reply; `Handle...` are the handlers of the agent, `Submitted`, `Polled`,
`Checked`, `Fetched`, `Deleted`, `Refused` what `RestLoggableFuture` does with the
reply. `Break` is an `ApiException`: the caller gives up, whether or not the agent
has handled or will never handle the request. A handler is one step: what it
tests before it acts (the task is there, the task is done) can no longer change
except by a request of the same caller, and a caller makes one request at a time.
`Restart` of the agent loses its tasks and logs and starts the ids again.

The pool serves callers and local tasks from one queue, a caller keeps its
thread while it waits. The agent starts a thread for every task
(`newCachedThreadPool`).

| Run | Instance | Shows |
|---|---|---|
| `calls` | two local calls and a remote one, three threads, two events for the remote call, one and none for the local ones, one restart of the agent, fair; 182,858 states | `TypeOK`, `NothingKept`, `KeepsContract`, `Answered` |
| `calls_reused` | two remote calls, one restart | violation of `OwnOutcome` |

Bounds. Two events are enough for one to be polled before another is logged and
for one to be logged between the last poll and `get`, where `get` deletes it: the
contract says *a prefix* because of that. `Threads` is one more than the number
of local calls, the coordinators' threads not counted. With as many local calls
as threads every thread may hold a caller whose task is in the queue and
`Answered` fails; nothing in the sources relates the size of the server's pool to
the number of leaves of a plan. `CHECK_DEADLOCK FALSE` because all calls end.

Fairness: a free thread takes the next task, callers and callables go on,
and a request is answered or fails, which HTTP clients are trusted for. Nobody has to
submit a leaf, and the agent need not restart.

What `calls_reused` shows: `createID` counts from 0 in every process, and
`getTask` looks a task up by id and account. After a restart another call of the
account gets the id that a caller is still polling; this caller then gets the
other's outcome, for example another machine's node id. Without restarts this
cannot happen, whatever the number of calls (next paragraph), and in `calls` it
cannot happen because there is one remote call. A caller that has been told that
its task is done and then finds the task under its id undone (the loop of
`RestLoggableFuture.get`) is possible only after such a restart, so that this
alternative of `Fetched` occurs in `calls_reused` only.

`TaskCallsProofs` proves, for any calls, threads and events:

- `TypeCorrect`, restarts included. `TInv` adds to the types what makes them
  inductive: only remote calls have replies, and what `get` was sent is the
  outcome of a call.
- `OwnOutcomes` and `NothingIsKept` under `NoIdAgain`: the agent is not restarted, or
  there is one remote call only, whose id no other can get. One of the two is
  needed (`calls_reused`). Requests and replies may be lost at any time.
  Neither property is inductive:
  that a caller gets its own outcome depends on ids that are unique in a process
  (`IdInv`), on a table that has every task under its own id (`TableInv`), and on
  what each point of the caller's program knows (`CallOK`), for example that
  `deleteTask` answered, so the task and its log queue are gone. The queue may
  not come back either: `append` makes one for any id, so it matters that the
  task has ended and that ids are not given twice. `QueueInv` says that an item of
  the pool's queue has not started and waits once.
- `ContractIsKept` under the same hypothesis: `KeepsContract`, the refinement of
  `TaskContract`. `HInv` adds where the events of a call are (`Heard`): what its caller
  has heard, what a reply brings and what the process keeps are consecutive parts of
  the task's events, all of them as long as the task is not over. Each poll moves a
  part along; a restart, a deletion or a lost reply takes the last parts away, so
  that what was heard stays a prefix.

An error leaves the task and its logs behind at the agent; `NothingKept`
therefore speaks of callers that got an outcome.

Left out: synchronous queries, credentials (all calls belong to one account),
`cancel` and `get` with a timeout, which nothing calls.

`Answered`, a liveness property, is model-checked only.

## 7. Attempts, documents and nodes

`VmLifecycle` models what attempts to create, update and delete leave behind. A
machine's part of a plan is a sequence of steps (`CreateVm`, `ConfigureVm`,
`DeleteVm`, `UpdateVm` are the callables of `VmActions`), so that between any two of
them another worker, an editor page or a crash may come. A failing step ends the
sequence: its leaf is FAILED and the leaves after it NOT_RUN, which is what
`ActionEngine` shows of a sequence.

| Variable | Code |
|---|---|
| `live` | nodes at the provider |
| `doc` | the application's document in the database: `vmId` of each machine |
| `mem` | the object the action page has loaded, shared by the workers |
| `before`, `last` | the snapshot in the last `DeploymentAttempt`, and that attempt |
| `copy` | a worker's own copy: loaded by `clearVmConstraints`, or serialized by `update` |
| `page`, `edited` | an editor page's copy, the machines whose description has changed since the attempt |
| `faults`, `trouble` | history variables, see below |

| Action | Code |
|---|---|
| `Deploy`, `Undeploy` | `getDeployAction` and `canUndeploy` with the page's `init`; `IsRecreated` is `VMDeployer.getUpdateAction`, where any machine's parameters may have changed; a failed leaf of the last attempt counts only while the machine equals the one it is of (`FailureSeen`) |
| `Load`, `Save`, `ForgetOld`, `Forget` | `clearVmConstraints` |
| `CreateNode`, `ConfigureNode`, `UpdateNode`, `DeleteNode`, `NoIdToDelete` | the callables; `AddVMId` keeps an id that is there, as `addField` does |
| `Serialize`, `Save` | `ApplicationDeploymentService.update` |
| `DatabaseFails` | an exception of a worker's load or save |
| `Finish` | the completion callback: reload, save the attempt (which may fail unnoticed) |
| `EditMachine`, `OpenEditor`, `SaveEditor` | the user changes a machine's description; an editor page loads the document and writes back what it had loaded |
| `Crash` | the server stops |

The program has no answer to some mishaps. They are listed in `trouble` at the
step where they happen, not where a node is lost: a node made without an
answer, an id that could not be stored, a deletion that the Verizon API skips
because the machine is not ready, a failed DELETE attempt (the next one is a
CREATE, which clears the id), an attempt missing in the history, a stale page
saved, a crash. `KnownNodes`, `AllDeleted` and `DeployedIsTrue` are about
histories without them; failing calls of the provider and of the database and
attempts repeated in any order remain. `RetryConverges` is about all histories.

| Run | Instance | Shows |
|---|---|---|
| `one_machine` | one machine, two faults of any kind, fair; 550,895 states | `TypeOK`, `KnownNodes`, `AllDeleted`, `DeployedIsTrue`, `RetryConverges` |
| `two_machines` | two machines, no fault | violation of `DeployedIsTrue` |

Bounds. `MaxFaults` bounds failures, crashes and stale saves together; attempts are
not bounded. Two faults reach a failure in the attempt that repairs the first.
An id may be given again once nothing remembers it, so that seven ids are
enough and no creation is ever refused for want of one.

Fairness: workers and the completion callback go on, and the user tries again
(`WF` of `Deploy`), which is the hypothesis of `RetryConverges` and not a promise of the
program.

What `two_machines` shows: `update` serializes the whole application and sends it,
and nothing orders two workers doing so. A save that was serialized before the
other machine's id was added arrives last; the attempt is recorded as successful
and the document has lost an id.

Proofs (`VmLifecycleProofs`). `TypeCorrect` is for any number of machines. With one
machine (`OneMachineOnly`; `two_machines` shows that it is needed) `NodesAreKnown`,
`DeletionsDelete` and `DeployedHasNodes` prove `KnownNodes`, `AllDeleted` and
`DeployedIsTrue` for any number of attempts and of failures. None is inductive:
`VInv` says for every point of a machine's plan what `live`, `doc`, `mem` and `copy`
can be (`Creating(v, k)` with `k` steps left, `Deleting`, `Updating`, `Over`), and between
attempts that the kept snapshot is what is in the document (`Settled`). The rest of
a plan is a suffix of one sequence, so a stage is a number and each step of the
plan leads from one stage to the next. `RetryConverges` is model-checked.

Left out: machines added or removed between attempts, addresses (written and
removed with the ids), firewall and Chef leaves (which only read the ids), two
attempts at a time, a change of infrastructure.

## 8. Nodes at AWS

`NodeProvider` is what `VmLifecycle` relies on: a created node is new and its own,
only its own deletion removes it, a deletion that is confirmed has happened; a
creation that fails may have made a node (`MakeUnanswered`). `AwsNodes` models
`createNode`, `configureNode` and `deleteNode` of `aws:AWSNodeAPI`, one action per
call of AWS, for machines that share a VPC.

| Variable | Code |
|---|---|
| `groups`, `inst`, `records` | security groups, instances with tags and group, DNS records at AWS |
| `known`, `named` | the id and the name in each machine's deployment |
| `pc`, `seen` | the next call of the operation on each machine, the tags and groups it has read |
| `outcome` | how the last operation ended, or would end if it threw now |
| `failed` | a history variable that the properties and the fairness read: the operations that ended half-way on the present instance |
| `faults`, `trouble` | failing calls, counted, and what happened that nothing repairs |

| Action | Code |
|---|---|
| `CreateGroup`, `AllowSsh`, `RunInstance`, `Rollback` | `createNode`; the group made first is removed on failure |
| `BeginConfigure`, `NameTag`, `ZoneTag`, `DropRecord`, `MakeRecord`, `Reply` | `configureNode`: tags, then the DNS, decided from the tags as they were before |
| `BeginDelete`, `Unregister`, `FindGroup`, `Move`, `DropGroup`, `Terminate`, `Confirm` | `deleteNode`: the instance moves to another group, whichever comes first, so that its own can be removed before it |
| `CallFails`, `NotFound` | a call throws and ends the operation, also when its instance is gone meanwhile |
| `Rename`, `Stopped` | the user renames a machine; AWS ends an instance |

An operation may follow any other. In particular a machine whose deletion failed
half-way may be configured again: when its description was edited in between,
`VMDeployer.getUpdateAction` does not find the failed attempt (`FailureSeen` in
section 7) and the plan is an update. A creation after a failed deletion, which
clears the id of an instance that may be alive (`VmActions.java:63`), is in
`VmLifecycle`, section 7; here an id is forgotten only when `deleteNode` returned.

Run `aws_nodes`: a machine that may be renamed and one whose name starts with the
other's, two instances, one failing call, fair; 595,572 states.

* `OwnGroup`: nobody's group is taken away until its deployment has begun to delete
  the instance.
* `NothingLeft`: nothing is left at AWS of a machine without an instance, unless one
  of the causes happened. They are at the steps where they happen, for example a
  new name that the group's name does not start with, since the group is found by
  that prefix; a failed rollback; a record made for an instance that is ending.
* `RecordsRight`: names lead to their instances. `configureNode` sets the tags, then the
  record, if the tags differed; `deleteNode` removes the record and leaves the tags.
  So nothing is said of an instance on which one of them ended half-way before
  (`failed`): it may be configured again with success and without a record. That no
  name leads to another machine's instance needs no such exception.
* `UndeployConverges`: a deletion that failed succeeds when it is repeated while the
  others rest and the machine is not configured in between.
* `KeepsProvider`: `AwsNodes` implements `NodeProvider`.

Bounds: two machines are enough for one to move into the group that the other
removes, and one failing call puts a retry behind every call. A failed deletion or
configuration that costs no fault (a group in use, a name that is taken, an
instance that is gone) is followed by one that does. Two instances are one per
machine at a time; an instance that is gone does not come back, so creations end,
deletions and configurations go on. `CHECK_DEADLOCK FALSE` because of that. Fairness:
operations end, AWS ends what it was told to, and a failed deletion is repeated,
the hypothesis of `UndeployConverges` (the user repeats it, or a recreation does).

Proofs (`AwsNodesProofs`), for any machines, names, instances and failures:
`TypeCorrect`, `OwnGroupKept` and `ProviderKept` (the refinement). `IInv` is `TypeOK`,
that no two deployments know the same instance (`Apart`), and what the running
operation has established about its own machine (`Sound`). The argument for
`OwnGroup` is that a group is removed only when no instance is in it, and that an
instance whose deletion has not begun stays in a group named after its machine.

`NothingIsLeft` and `RecordsAreRight` prove `NothingLeft` and `RecordsRight` from `TidyInv`
(`AllIsFound`), an account of everything at AWS that has one of a machine's names. That
nothing is left when an operation is over is a fact about every point of every
operation before it: each group of a machine can be found by the tags of its
instance or is the one that the running `createNode` will remove (`GroupsTidy`); its
records are under the name that the tags say, or said when they were read
(`RecordsTidy`), and lead to its own instance (`Led`); the tags are those of the
deployment from the call that sets them on, as long as the instance is there
(`Follows`); an instance is known by its deployment or was told to end (`Accounted`).
This holds until `trouble` lists a cause. What the tags say is registered (`Registered`)
as long as `failed` is empty, and then whatever else happened. A step of one machine's
operation disturbs none of it for the others (`OthersTidy`), since no two machines
share a name.

`UndeployConverges` is model-checked only.

## 9. Nodes at Verizon

`VerizonNode` models `createNode`, `configureNode` and `deleteNode` of
`vz:VerizonNodeAPI` for one machine. Requests start tasks of the cloud, which end
later, perhaps in ERROR (`Done`, `Error`); `pc` is the statement the operation has come
to. The three waits are translated as they are written: `waitUntilTaskNotFinished`
(`AwaitTask`) never waits because a list of statuses is asked whether it contains a
type, the condition of `waitUntilMachineIsPoweredOff` (`AwaitOff`) is inverted, and
`waitUntilMachineIsNotReady` (`AwaitReady`) goes on after its time is over.

Run `verizon_delete`, 352 states, finds a behaviour in which `deleteNode` has logged
that the machine is deleted, the id is forgotten, and the removal ends in ERROR:
the machine stays for ever (`DeletedGoes`). Fairness: tasks and operations end. In
`VmLifecycle` this is a deletion that is answered and not carried out. One machine
is enough because operations on different machines share nothing.

## 10. HAProxy configuration

`LoadBalancer` models the keys in etcd of one produced service, at every gateway that
it may be given.

| Variable | Code |
|---|---|
| `etcd` | the values of the service's frontend, backends and servers, for each gateway (a *place* is a gateway and a key) |
| `wanted` | the description in the document, the gateway included |
| `last` | the last attempt: type, failed or not, the description kept with it |
| `attempt`, `todo` | the attempt that runs and the calls of etcd it has still to make |
| `gateway` | the gateway whose client of etcd the attempt's `HAProxyDeployer` has (`haProxyConfigurator`) |
| `faults` | what goes wrong, counted |
| `exact` | whether the last attempt was made, from its start to its end, for the description it keeps, at its gateway |
| `lost` | the places whose keys nothing in the history tells of |

| Action | Code |
|---|---|
| `Deploy`, `Undeploy` | the plan: `configure`, `deleteConfiguration` of what was kept followed by `configure`, or `deleteConfiguration` of what is described now (`ejb:deployment/ps/HAProxyDeployer`); the client of etcd is that of the first description in the plan (`Configurator`: `getConfigurator` keeps it) |
| `Call` | the next `save` or `delete` of `HAProxyConfigurator` |
| `DeleteRefused` | `delete` swallows every `EtcdException` |
| `Finish`, `AttemptFails`, `Crash` | the end of the attempt, which keeps the document as it is then; another leaf or a call fails; the server stops |
| `Edit` | the user changes the description, at any time |

`Rules` is `generateABTestingRules`: each rule takes its weight out of what the rules
before it have left of 100. `Enabled` is the weights that the page starts with.

The gateway is a field of the description that the user may change. Every plan has a
deployer of its own, but an update asks it first with the description before: the
old configuration is removed from the old gateway, and the new one is written there
too. The attempt is recorded as successful, the new gateway serves nothing, and only
the next deployment, which finds the new gateway in the history, writes to it. What
was written to the old gateway stays there. `Deploy` does all this, `exact` is FALSE
after such an update, and its places are in `lost`.

Run `load_balancer`: three descriptions (one backend, three with weights and a server
created again, and one behind another gateway), two faults, fair; 974,055 states.

* `Served`: what is recorded as deployed is in the etcd of its gateway. Excepted are
  an update to another gateway, an application edited while it was deployed, and
  one whose next attempt has crashed: for that attempt only, not for later ones.
* `NothingStale`: a key that the next update or deletion does not remove is one in
  `lost`. Each cause adds the places it concerns and no others: a deletion that etcd
  refused (that key), an attempt that failed (what it had still to remove), a crash
  or an edit in the middle (what the attempt writes), a deletion after the
  description shrank or its gateway changed (what was kept and is not described),
  an update to another gateway (what it writes to the one before).
* `SharesRight`: the backends get their shares.
* `RedeployRepairs`: deploying again serves the whole description, at its gateway. It
  does not say that lost keys disappear; they do not.

The run has no deadlock. Fairness: attempts end and the user tries again, the
hypothesis of `RedeployRepairs`. Two faults reach a failure in the attempt that
repairs the first; changes of the gateway are not counted. Gateways exist and keep
the address and the path of their etcd: if the old one is gone, the update fails
where it asks for the client, before any call.

Proofs (`LoadBalancerProofs`), for any descriptions, gateways, keys and number of
faults: `TypeCorrect`, `DeployedIsServed` (`Served`) and `NothingLeftOver`
(`NothingStale`). `LInv` says that all removals come before all writes (`Shape`), that
as long as the attempt is `exact` it has its description's gateway and each
described entry has been written for good or its last call is a write (`Serving`),
and that each key that is there is lost, or is described where the attempt writes,
or is one that both the attempt and the next update remove, so that neither its end
nor a crash leaves it behind (`Leftovers`, `Between`). The assumption that the
entries of one description have different keys carries the argument for `Served`.

`SharesAreRight` (`SharesRight`) and `EnabledShares` are about the arithmetic of `Rules` for
any number of backends. What is left of 100 before a rule is what the rules before it
let through, so that each rule takes its backend's weight whenever the weights are
percentages (`Percent`); those of a test that was just enabled are, for up to 100
backends. The inductions along the list, also the one that shows that the recursion
of `Left` defines a function, take a least index at which the claim would fail; that
there is one is the library's theorem on the well-founded order of the naturals. The
assumption that weights are a list is used here.

`RedeployRepairs` is model-checked only.

## 11. Proved and only model-checked

| | Proved, for every value of the constants | Hypotheses | Model-checked only |
|---|---|---|---|
| Engine | `TypeOK`, `StartsInOrder`, `RunsAtMostOnce`, `StatusAdvances` | `OneCoordinator`, `NoHollowGroups` | `Completes` |
| | `ReportIsFaithful`, `ExecutesPlan` | also `PlanEnds`, `NoCycles` | |
| | `NeverStuck` | also `PlanEnds`, `TurnsCome` | |
| | `TypeOK`, `RunsOncePerCoordinator` | `FinitelyOften` | |
| Plans | | | `PlansAreRight` |
| Calls | `TypeOK` | | `Answered` |
| | `KeepsContract`, `NothingKept`, own outcomes | `NoIdAgain` | |
| Machines | `TypeOK` | | `RetryConverges` |
| | `KnownNodes`, `AllDeleted`, `DeployedIsTrue` | `OneMachineOnly` | |
| AWS | `TypeOK`, `OwnGroup`, `KeepsProvider`, `NothingLeft`, `RecordsRight` | | `UndeployConverges` |
| HAProxy | `TypeOK`, `Served`, `NothingStale`, `SharesRight` | | `RedeployRepairs` |

All proofs start from the named assumptions on the constants too, which TLC
evaluates on the instances. Every invariant, action property and refinement that a
passing run checks is stated by a theorem. What is only model-checked is liveness
under fairness, which is beyond the prover, and `PlansAreRight`, which is about
recursive operators: the prover cannot be used in a module that reaches one. The
library's induction theorems cannot be applied either, their predicate being a
parameter; an induction over numbers is here an argument about a least
counterexample, one over plans an argument about a minimal set. The six
violations (`awaiting_abandoned`, `two_runs`, `page_deadlock`, `calls_reused`,
`two_machines`, `verizon_delete`) are described with their sources under `findings`
in `PROJECT.json`.

## 12. Not modelled

* Two attempts for one application at a time. Each has its own object and its own
  workers; a model needs the state of `VmLifecycle` twice over one document.
* A change of an application's infrastructure between attempts: deletion and
  update then ask the new cloud for a node of the old one. Its effect on a node
  is that of a deletion that is answered and not carried out.
* The resizing of an instance at AWS (`AWSNodeAPI.java:334`), firewall rules at both
  clouds and of HAProxy's public endpoints: calls in a fixed order that keep no
  state between them, each a leaf that succeeds or fails.
* The cache of entities at Verizon, which is filled once and never refreshed: right
  until the provider's rows or networks change.
* Statistics (`StatsCollector`), on which nothing is decided.
* Provisioning over ssh and through Chef: the leaves are in the plans, their
  commands are not modelled. Existing nodes keep no state.
* Presentation: web pages beyond Run, polling and the editors; the widget
  `cytoscape-primefaces.js`. Login, encryption, the Jenkins plugin, the table of
  locations, data holders, templates and import, and generated bindings have no
  protocol of their own.
