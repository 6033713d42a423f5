------------------------------ MODULE TaskCalls ------------------------------
(***************************************************************************)
(* Calls of asynchronous node operations, as the leaves of a plan make     *)
(* them: LoggableFuture.waitFor over a LocalLoggableFuture, whose task     *)
(* runs on the pool that the caller itself occupies, or over a             *)
(* RestLoggableFuture, whose task runs in an agent behind HTTP             *)
(* (DefaultController).  Log events of a task go through LocalTaskLogs of  *)
(* the process it runs in.                                                 *)
(*                                                                         *)
(* A request is in flight from the moment its caller reaches the step that *)
(* makes it until there is a reply.  A caller that gives up on a request   *)
(* (Break) may do so before or after the agent handled it.                 *)
(***************************************************************************)
EXTENDS Naturals, Sequences, FiniteSets

CONSTANTS
  Calls,        \* calls of operations, each by a leaf of its own
  Remote,       \* those whose node API is a RestNodeAPI
  Threads,      \* threads of the pool that the coordinators leave
  MaxEvents,    \* bound: events the task of each call logs
  MaxRestarts,  \* bound: restarts of the agent
  Nobody        \* no call

ASSUME CallsAssumption ==
  /\ Remote \subseteq Calls
  /\ MaxEvents \in [Calls -> Nat]
  /\ MaxRestarts \in Nat
  /\ Nobody \notin Calls
  /\ \A k \in Calls : k \notin {"none", "error"}

Local == Calls \ Remote
Processes == {"manager", "agent"}
Home(k) == IF k \in Remote THEN "agent" ELSE "manager"

-----------------------------------------------------------------------------
VARIABLES
  queue,     \* the tasks that wait for a thread of the manager's pool
  pc,        \* where the caller of each call is
  hasLogs,   \* the variable of waitFor
  heard,     \* the events each caller has passed to its listeners
  fetched,   \* the call whose outcome getTask returned to RestLoggableFuture.get
  answer,    \* what each caller got: "none", "error" or the call it got it from
  task,      \* the callable of each call
  id,        \* the id of each task in its process
  made,      \* how many events each task has logged
  nextId,    \* LocalTaskLogs.idCounter of each process
  logs,      \* LocalTaskLogs.logs of each process: event queues by id
  tasks,     \* DefaultController.tasks: the agent's tasks by id
  reply,     \* the answer of the agent to the request of each call
  restarts   \* how often the agent was restarted

callerVars == <<pc, hasLogs, heard, fetched, answer>>
taskVars == <<task, id, made>>
storeVars == <<nextId, logs, tasks>>
vars == <<queue, callerVars, taskVars, storeVars, reply, restarts>>

Event(k, n) == [of |-> k, no |-> n]
Reply(what, events, of) == [what |-> what, events |-> events, of |-> of]
NoReply == Reply("none", <<>>, Nobody)
Empty == [i \in {} |-> <<>>]
Without(f, i) == [j \in DOMAIN f \ {i} |-> f[j]]

Init ==
  /\ queue = <<>>
  /\ pc = [k \in Calls |-> "idle"]
  /\ hasLogs = [k \in Calls |-> FALSE]
  /\ heard = [k \in Calls |-> <<>>]
  /\ fetched = [k \in Calls |-> Nobody]
  /\ answer = [k \in Calls |-> "none"]
  /\ task = [k \in Calls |-> "none"]
  /\ id = [k \in Calls |-> 0]
  /\ made = [k \in Calls |-> 0]
  /\ nextId = [p \in Processes |-> 0]
  /\ logs = [p \in Processes |-> Empty]
  /\ tasks = Empty
  /\ reply = [k \in Calls |-> NoReply]
  /\ restarts = 0

-----------------------------------------------------------------------------
(* The pool of the manager.                                                 *)
Waiting == {"submit", "poll", "check", "get", "delete"}
Busy == Cardinality({k \in Calls : pc[k] \in Waiting}) +
        Cardinality({k \in Local : task[k] = "running"})
ThreadFree == Busy < Threads

(* The coordinator submits a leaf.                                          *)
Invoke(k) ==
  /\ pc[k] = "idle"
  /\ pc' = [pc EXCEPT ![k] = "queued"]
  /\ queue' = Append(queue, [is |-> "caller", of |-> k])
  /\ UNCHANGED <<hasLogs, heard, fetched, answer, taskVars, storeVars, reply, restarts>>

TakeCaller(k) ==
  /\ ThreadFree
  /\ queue # <<>>
  /\ Head(queue) = [is |-> "caller", of |-> k]
  /\ queue' = Tail(queue)
  /\ pc' = [pc EXCEPT ![k] = "submit"]
  /\ UNCHANGED <<hasLogs, heard, fetched, answer, taskVars, storeVars, reply, restarts>>

TakeTask(k) ==
  /\ ThreadFree
  /\ queue # <<>>
  /\ Head(queue) = [is |-> "task", of |-> k]
  /\ queue' = Tail(queue)
  /\ task' = [task EXCEPT ![k] = "running"]
  /\ UNCHANGED <<callerVars, id, made, storeVars, reply, restarts>>

-----------------------------------------------------------------------------
(* LocalTaskLogs.                                                           *)
Drained(p, i) == IF i \in DOMAIN logs[p] THEN logs[p][i] ELSE <<>>

(* createID, for the task of call k.                                        *)
CreateID(k) ==
  /\ id' = [id EXCEPT ![k] = nextId[Home(k)]]
  /\ nextId' = [nextId EXCEPT ![Home(k)] = @ + 1]

DrainNothing(p, i) == UNCHANGED logs   \* a deviation: the queue is only copied
Drain(p, i) ==
  IF i \in DOMAIN logs[p]
  THEN logs' = [logs EXCEPT ![p][i] = <<>>]
  ELSE UNCHANGED logs

DeleteLogs(p, i) == logs' = [logs EXCEPT ![p] = Without(@, i)]

(* A callable logs an event: append makes the queue if there is none.       *)
Log(k) ==
  /\ task[k] = "running"
  /\ made[k] < MaxEvents[k]
  /\ made' = [made EXCEPT ![k] = @ + 1]
  /\ LET p == Home(k)
         queued == Append(Drained(p, id[k]), Event(k, made[k] + 1))
     IN  logs' = [logs EXCEPT ![p] =
           [i \in DOMAIN @ \cup {id[k]} |-> IF i = id[k] THEN queued ELSE @[i]]]
  /\ UNCHANGED <<queue, callerVars, task, id, nextId, tasks, reply, restarts>>

End(k) ==
  /\ task[k] = "running"
  /\ task' = [task EXCEPT ![k] = "ended"]
  /\ UNCHANGED <<queue, callerVars, id, made, storeVars, reply, restarts>>

-----------------------------------------------------------------------------
(* The steps of waitFor that do not depend on the kind of the future.       *)

Return(k, a) ==
  /\ pc' = [pc EXCEPT ![k] = "over"]
  /\ answer' = [answer EXCEPT ![k] = a]
  /\ UNCHANGED <<hasLogs, heard, fetched>>

(* The events are passed to the listeners; saving them may fail.            *)
Listen(k, events) ==
  \/ /\ hasLogs' = [hasLogs EXCEPT ![k] = events # <<>>]
     /\ heard' = [heard EXCEPT ![k] = @ \o events]
     /\ pc' = [pc EXCEPT ![k] = "check"]
     /\ UNCHANGED <<fetched, answer>>
  \/ /\ events # <<>>
     /\ Return(k, "error")

DecideToForget(k, isDone) ==   \* a deviation: the outcome is never fetched
  /\ pc' = [pc EXCEPT ![k] = IF isDone /\ ~ hasLogs[k] THEN "delete" ELSE "poll"]
  /\ UNCHANGED <<hasLogs, heard, fetched, answer>>

(* while (!future.isDone() || hasLogs)                                      *)
Decide(k, isDone) ==
  /\ pc' = [pc EXCEPT ![k] = IF isDone /\ ~ hasLogs[k] THEN "get" ELSE "poll"]
  /\ UNCHANGED <<hasLogs, heard, fetched, answer>>

-----------------------------------------------------------------------------
(* LocalLoggableFuture: every call of it is one step.                       *)

Submit(k) ==
  /\ k \in Local
  /\ pc[k] = "submit"
  /\ CreateID(k)
  /\ task' = [task EXCEPT ![k] = "queued"]
  /\ queue' = Append(queue, [is |-> "task", of |-> k])
  /\ pc' = [pc EXCEPT ![k] = "poll"]
  /\ UNCHANGED <<hasLogs, heard, fetched, answer, made, logs, tasks, reply, restarts>>

PollLogs(k) ==
  /\ k \in Local
  /\ pc[k] = "poll"
  /\ Listen(k, Drained("manager", id[k]))
  /\ Drain("manager", id[k])
  /\ UNCHANGED <<queue, taskVars, nextId, tasks, reply, restarts>>

IsDone(k) ==
  /\ k \in Local
  /\ pc[k] = "check"
  /\ Decide(k, task[k] = "ended")
  /\ UNCHANGED <<queue, taskVars, storeVars, reply, restarts>>

Get(k) ==
  /\ k \in Local
  /\ pc[k] = "get"
  /\ task[k] = "ended"
  /\ Return(k, k)
  /\ DeleteLogs("manager", id[k])
  /\ UNCHANGED <<queue, taskVars, nextId, tasks, reply, restarts>>

-----------------------------------------------------------------------------
(* The agent handles the request of a call.                                 *)

Requested(k, step) ==
  /\ k \in Remote
  /\ pc[k] = step
  /\ reply[k] = NoReply

Respond(k, r) == reply' = [reply EXCEPT ![k] = r]
Missing == Reply("missing", <<>>, Nobody)

(* createNode, configureNode, deleteNode, updateNodeFirewallRules,          *)
(* executeScript, uploadFile: the task starts on a thread of its own.       *)
HandleSubmit(k) ==
  /\ Requested(k, "submit")
  /\ CreateID(k)
  /\ task' = [task EXCEPT ![k] = "running"]
  /\ tasks' = [i \in DOMAIN tasks \cup {nextId["agent"]} |->
                 IF i = nextId["agent"] THEN k ELSE tasks[i]]
  /\ Respond(k, Reply("ok", <<>>, Nobody))
  /\ UNCHANGED <<queue, callerVars, made, logs, restarts>>

(* pollLog                                                                  *)
HandlePollLog(k) ==
  /\ Requested(k, "poll")
  /\ IF id[k] \in DOMAIN tasks
     THEN /\ Respond(k, Reply("ok", Drained("agent", id[k]), Nobody))
          /\ Drain("agent", id[k])
     ELSE Respond(k, Missing) /\ UNCHANGED logs
  /\ UNCHANGED <<queue, callerVars, taskVars, nextId, tasks, restarts>>

(* getTask; get of the LocalLoggableFuture deletes the logs.                *)
HandleGetTask(k) ==
  /\ Requested(k, "check") \/ Requested(k, "get")
  /\ IF id[k] \notin DOMAIN tasks
     THEN Respond(k, Missing) /\ UNCHANGED logs
     ELSE IF task[tasks[id[k]]] # "ended"
     THEN Respond(k, Reply("undone", <<>>, Nobody)) /\ UNCHANGED logs
     ELSE /\ Respond(k, Reply("ok", <<>>, tasks[id[k]]))
          /\ DeleteLogs("agent", id[k])
  /\ UNCHANGED <<queue, callerVars, taskVars, nextId, tasks, restarts>>

HandleDeleteLogs(k) ==   \* a deviation: deleteTask that leaves the task
  /\ Requested(k, "delete")
  /\ Respond(k, Reply("ok", <<>>, Nobody))
  /\ DeleteLogs("agent", id[k])
  /\ UNCHANGED <<queue, callerVars, taskVars, nextId, tasks, restarts>>

(* deleteTask                                                               *)
HandleDeleteTask(k) ==
  /\ Requested(k, "delete")
  /\ IF id[k] \in DOMAIN tasks
     THEN /\ Respond(k, Reply("ok", <<>>, Nobody))
          /\ tasks' = Without(tasks, id[k])
          /\ DeleteLogs("agent", id[k])
     ELSE Respond(k, Missing) /\ UNCHANGED <<tasks, logs>>
  /\ UNCHANGED <<queue, callerVars, taskVars, nextId, restarts>>

(* The agent is restarted: its tasks are gone, its ids start again.         *)
Restart ==
  /\ restarts < MaxRestarts
  /\ restarts' = restarts + 1
  /\ task' = [k \in Calls |->
       IF k \in Remote /\ task[k] = "running" THEN "killed" ELSE task[k]]
  /\ tasks' = Empty
  /\ logs' = [logs EXCEPT !["agent"] = Empty]
  /\ nextId' = [nextId EXCEPT !["agent"] = 0]
  /\ UNCHANGED <<queue, callerVars, id, made, reply>>

-----------------------------------------------------------------------------
(* RestLoggableFuture: the caller has the reply of the agent.               *)

Replied(k, step, what) ==
  /\ k \in Remote
  /\ pc[k] = step
  /\ reply[k].what = what
  /\ reply' = [reply EXCEPT ![k] = NoReply]
  /\ UNCHANGED <<queue, taskVars, storeVars, restarts>>

Submitted(k) ==
  /\ Replied(k, "submit", "ok")
  /\ pc' = [pc EXCEPT ![k] = "poll"]
  /\ UNCHANGED <<hasLogs, heard, fetched, answer>>

Polled(k) ==
  /\ Replied(k, "poll", "ok")
  /\ Listen(k, reply[k].events)

Checked(k) ==
  \/ Replied(k, "check", "ok") /\ Decide(k, TRUE)
  \/ Replied(k, "check", "undone") /\ Decide(k, FALSE)

(* get: getTask is repeated until the task is done, then deleteTask.  After *)
(* check it is not done only if a restarted agent has given its id again.   *)
Fetched(k) ==
  /\ reply[k].what \in {"ok", "undone"}
  /\ Replied(k, "get", reply[k].what)
  /\ IF reply[k].what = "ok"
     THEN /\ fetched' = [fetched EXCEPT ![k] = reply[k].of]
          /\ pc' = [pc EXCEPT ![k] = "delete"]
          /\ UNCHANGED <<hasLogs, heard, answer>>
     ELSE UNCHANGED callerVars

Deleted(k) ==
  /\ Replied(k, "delete", "ok")
  /\ Return(k, fetched[k])

RefusedIsPending(k) ==   \* a deviation: an unknown task is waited for
  /\ Replied(k, pc[k], "missing")
  /\ UNCHANGED callerVars
(* 404 Not Found is an ApiException.                                        *)
Refused(k) ==
  /\ Replied(k, pc[k], "missing")
  /\ Return(k, "error")

(* So is a request or a reply that is lost.                                 *)
Break(k) ==
  /\ k \in Remote
  /\ pc[k] \in Waiting
  /\ reply' = [reply EXCEPT ![k] = NoReply]
  /\ Return(k, "error")
  /\ UNCHANGED <<queue, taskVars, storeVars, restarts>>

-----------------------------------------------------------------------------
LocalStep(k) == Submit(k) \/ PollLogs(k) \/ IsDone(k) \/ Get(k)

Handle(k) ==
  HandleSubmit(k) \/ HandlePollLog(k) \/ HandleGetTask(k) \/ HandleDeleteTask(k)

RemoteStep(k) ==
  \/ Submitted(k) \/ Polled(k) \/ Checked(k) \/ Fetched(k)
  \/ Deleted(k) \/ Refused(k) \/ Break(k)

Next ==
  \/ \E k \in Calls :
       \/ Invoke(k) \/ TakeCaller(k) \/ TakeTask(k)
       \/ Log(k) \/ End(k)
       \/ LocalStep(k) \/ Handle(k) \/ RemoteStep(k)
  \/ Restart

(* A pool with a free thread takes the next task, callers go on, callables  *)
(* end, and a request is answered or fails.  The coordinator need not       *)
(* submit a leaf, and the agent need not restart.                           *)
Fairness ==
  /\ WF_vars(\E k \in Calls : TakeCaller(k) \/ TakeTask(k))
  /\ \A k \in Calls :
       /\ WF_vars(LocalStep(k))
       /\ WF_vars(Handle(k) \/ RemoteStep(k))
       /\ WF_vars(Log(k) \/ End(k))

Spec == Init /\ [][Next]_vars
FairSpec == Spec /\ Fairness

-----------------------------------------------------------------------------
(* The types of the variables.                                              *)
Events == [of : Calls, no : Nat \ {0}]
TypeOK ==
  /\ queue \in Seq([is : {"caller", "task"}, of : Calls])
  /\ pc \in [Calls -> {"idle", "queued", "over"} \cup Waiting]
  /\ hasLogs \in [Calls -> BOOLEAN]
  /\ heard \in [Calls -> Seq(Events)]
  /\ fetched \in [Calls -> Calls \cup {Nobody}]
  /\ answer \in [Calls -> {"none", "error"} \cup Calls]
  /\ task \in [Calls -> {"none", "queued", "running", "ended", "killed"}]
  /\ id \in [Calls -> Nat] /\ made \in [Calls -> Nat]
  /\ nextId \in [Processes -> Nat]
  /\ DOMAIN logs = Processes
  /\ \A p \in Processes : DOMAIN logs[p] \subseteq Nat
  /\ \A p \in Processes : \A i \in DOMAIN logs[p] : logs[p][i] \in Seq(Events)
  /\ DOMAIN tasks \subseteq Nat /\ \A i \in DOMAIN tasks : tasks[i] \in Calls
  /\ reply \in [Calls -> [what : {"none", "ok", "undone", "missing"},
                          events : Seq(Events), of : Calls \cup {Nobody}]]
  /\ restarts \in 0 .. MaxRestarts

Contract == INSTANCE TaskContract WITH
  ended <- {k \in Calls : task[k] = "ended"}

(* Every caller, local or remote, hears a prefix of the events of its own   *)
(* task and gets its outcome or an error (waitFor, get).                    *)
KeepsContract == Contract!Spec

(* A caller that got an outcome leaves nothing behind: no queue of events,  *)
(* and no task at the agent (get and its finally).                          *)
NothingKept ==
  \A k \in Calls : answer[k] = k =>
    /\ id[k] \notin DOMAIN logs[Home(k)]
    /\ k \in Remote => id[k] \notin DOMAIN tasks

(* Every caller gets an answer, though it occupies a thread of the pool its *)
(* task has to run on, and whatever happens to its requests.                *)
Answered == \A k \in Calls : pc[k] = "queued" ~> answer[k] # "none"

(* swagger.yaml:112 of the node API calls taskId the "ID of task to return" *)
(* and :123 promises 404 "Task not found": a caller never gets the outcome  *)
(* of another task.                                                         *)
OwnOutcome == \A k \in Calls : answer[k] \in {"none", "error", k}
=============================================================================
