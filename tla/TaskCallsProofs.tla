--------------------------- MODULE TaskCallsProofs ---------------------------
(***************************************************************************)
(* What holds of asynchronous calls for any number of them, of threads and *)
(* of events: types, and, as long as no id of a task is given again by an  *)
(* agent that was restarted, that a caller gets the outcome of its own     *)
(* task, leaves nothing behind, and hears the events of its own task in    *)
(* order: TaskContract is implemented.                                     *)
(***************************************************************************)
EXTENDS TaskCalls, SequenceTheorems, TLAPS

-----------------------------------------------------------------------------
(* Types.  The parts of TypeOK, and what is known of an outcome on its way. *)

Items == [is : {"caller", "task"}, of : Calls]
Points == {"idle", "queued", "over"} \cup Waiting
Callers ==
  /\ pc \in [Calls -> Points]
  /\ hasLogs \in [Calls -> BOOLEAN]
  /\ heard \in [Calls -> Seq(Events)]
  /\ fetched \in [Calls -> Calls \cup {Nobody}]
  /\ answer \in [Calls -> {"none", "error"} \cup Calls]
Tasks ==
  /\ task \in [Calls -> {"none", "queued", "running", "ended", "killed"}]
  /\ id \in [Calls -> Nat] /\ made \in [Calls -> Nat]
LogsOK ==
  /\ DOMAIN logs = Processes
  /\ \A p \in Processes : DOMAIN logs[p] \subseteq Nat
  /\ \A p \in Processes : \A i \in DOMAIN logs[p] : logs[p][i] \in Seq(Events)
TasksOK == DOMAIN tasks \subseteq Nat /\ \A i \in DOMAIN tasks : tasks[i] \in Calls
Replies == [what : {"none", "ok", "undone", "missing"},
            events : Seq(Events), of : Calls \cup {Nobody}]

(* Only remote calls have replies; what get has got is some task's outcome. *)
Outcomes ==
  \A k \in Calls :
    /\ k \in Local => reply[k] = NoReply
    /\ pc[k] = "delete" => fetched[k] \in Calls
    /\ pc[k] = "get" /\ reply[k].what = "ok" => reply[k].of \in Calls

Parts ==
  /\ queue \in Seq(Items)
  /\ Callers /\ Tasks
  /\ nextId \in [Processes -> Nat]
  /\ LogsOK /\ TasksOK
  /\ reply \in [Calls -> Replies]
  /\ restarts \in 0 .. MaxRestarts

TInv == Parts /\ Outcomes

LEMMA PartsAreTypes == Parts => TypeOK
BY DEF TypeOK, Parts, Items, Points, Callers, Tasks, LogsOK, TasksOK, Replies

LEMMA HomeIsProcess == \A k \in Calls : Home(k) \in Processes
BY DEF Home, Processes

LEMMA EmptyEvents == <<>> \in Seq(Events)
BY EmptySeq

LEMMA NoReplyIsReply == NoReply \in Replies
BY EmptyEvents DEF NoReply, Reply, Replies

LEMMA DrainedType ==
  ASSUME LogsOK, NEW p \in Processes, NEW i
  PROVE  Drained(p, i) \in Seq(Events)
BY EmptyEvents DEF LogsOK, Drained

LEMMA DrainType ==
  ASSUME LogsOK, NEW p \in Processes, NEW i, Drain(p, i)
  PROVE  /\ LogsOK'
         /\ \A q \in Processes : DOMAIN logs'[q] = DOMAIN logs[q]
<1>1. CASE i \in DOMAIN logs[p]
  <2>1. logs' = [logs EXCEPT ![p] = [logs[p] EXCEPT ![i] = <<>>]]
    BY <1>1 DEF Drain
  <2>2. DOMAIN logs' = Processes
    BY <2>1 DEF LogsOK
  <2>3. \A q \in Processes : DOMAIN logs'[q] = DOMAIN logs[q]
    BY <2>1 DEF LogsOK
  <2>4. \A q \in Processes : \A j \in DOMAIN logs'[q] : logs'[q][j] \in Seq(Events)
    BY <2>1, EmptyEvents DEF LogsOK
  <2> QED BY <2>2, <2>3, <2>4 DEF LogsOK
<1>2. CASE i \notin DOMAIN logs[p]
  BY <1>2 DEF Drain, LogsOK
<1> QED BY <1>1, <1>2

LEMMA DeleteLogsType ==
  ASSUME LogsOK, NEW p \in Processes, NEW i, DeleteLogs(p, i)
  PROVE  /\ LogsOK'
         /\ DOMAIN logs'[p] = DOMAIN logs[p] \ {i}
         /\ \A q \in Processes \ {p} : logs'[q] = logs[q]
<1>1. logs' = [logs EXCEPT ![p] = [j \in DOMAIN logs[p] \ {i} |-> logs[p][j]]]
  BY DEF DeleteLogs, Without
<1>2. DOMAIN logs' = Processes /\ \A q \in Processes \ {p} : logs'[q] = logs[q]
  BY <1>1 DEF LogsOK
<1>3. logs'[p] = [j \in DOMAIN logs[p] \ {i} |-> logs[p][j]]
  BY <1>1 DEF LogsOK
<1> QED BY <1>2, <1>3 DEF LogsOK

LEMMA ReturnType ==
  ASSUME Callers, NEW k \in Calls, NEW a \in {"none", "error"} \cup Calls, Return(k, a)
  PROVE  Callers' /\ pc'[k] = "over" /\ fetched' = fetched
BY DEF Callers, Return, Points, Waiting

LEMMA ListenType ==
  ASSUME Callers, NEW k \in Calls, NEW events \in Seq(Events), Listen(k, events)
  PROVE  Callers' /\ pc'[k] \in {"over", "check"} /\ fetched' = fetched
<1>1. heard[k] \o events \in Seq(Events)
  BY ConcatProperties DEF Callers
<1>2. CASE Return(k, "error")
  BY <1>2, ReturnType
<1>3. CASE /\ hasLogs' = [hasLogs EXCEPT ![k] = events # <<>>]
           /\ heard' = [heard EXCEPT ![k] = @ \o events]
           /\ pc' = [pc EXCEPT ![k] = "check"]
           /\ UNCHANGED <<fetched, answer>>
  BY <1>1, <1>3 DEF Callers, Points, Waiting
<1> QED BY <1>2, <1>3 DEF Listen

(* A step of a caller moves that caller only.                               *)
LEMMA OthersStay ==
  ASSUME NEW k \in Calls
  PROVE  /\ \A a : Callers /\ Return(k, a) => \A j \in Calls \ {k} :
               pc'[j] = pc[j] /\ answer'[j] = answer[j]
         /\ \A e : Callers /\ Listen(k, e) => \A j \in Calls \ {k} :
               pc'[j] = pc[j] /\ answer'[j] = answer[j]
         /\ \A d : Callers /\ Decide(k, d) => \A j \in Calls \ {k} : pc'[j] = pc[j]
BY DEF Callers, Return, Listen, Decide

LEMMA DecideType ==
  ASSUME Callers, NEW k \in Calls, NEW d \in BOOLEAN, Decide(k, d)
  PROVE  Callers' /\ pc'[k] \in {"get", "poll"} /\ fetched' = fetched
BY DEF Callers, Decide, Points, Waiting
-----------------------------------------------------------------------------
(* Every action keeps the types.                                            *)

LEMMA TypeInit == Init => TInv
<1> SUFFICES ASSUME Init PROVE TInv
  OBVIOUS
<1>1. queue \in Seq(Items)
  BY EmptySeq DEF Init
<1>2. Callers /\ Tasks
  BY EmptyEvents DEF Init, Callers, Tasks, Points
<1>3. nextId \in [Processes -> Nat] /\ LogsOK /\ TasksOK
  BY DEF Init, LogsOK, TasksOK, Empty, Processes
<1>4. reply \in [Calls -> Replies] /\ restarts \in 0 .. MaxRestarts
  BY NoReplyIsReply, CallsAssumption DEF Init
<1>5. Outcomes
  BY DEF Init, Outcomes
<1> QED BY <1>1, <1>2, <1>3, <1>4, <1>5 DEF TInv, Parts

(* The pool and the callables.                                              *)
LEMMA TypePool ==
  ASSUME TInv, NEW k \in Calls,
         Invoke(k) \/ TakeCaller(k) \/ TakeTask(k) \/ Log(k) \/ End(k)
  PROVE  TInv'
<1> USE DEF TInv, Parts
<1>1. CASE Invoke(k)
  <2>1. queue' \in Seq(Items)
    <3>1. [is |-> "caller", of |-> k] \in Items
      BY DEF Items
    <3> QED BY <1>1, <3>1, AppendProperties DEF Invoke
  <2>2. Callers'
    BY <1>1 DEF Invoke, Callers, Points, Waiting
  <2>3. Outcomes'
    BY <1>1 DEF Invoke, Outcomes, Callers
  <2>4. Parts'
    BY <1>1, <2>1, <2>2 DEF Invoke, Tasks, LogsOK, TasksOK, taskVars, storeVars
  <2> QED BY <2>3, <2>4
<1>2. CASE TakeCaller(k)
  <2>1. queue' \in Seq(Items)
    BY <1>2, HeadTailProperties DEF TakeCaller
  <2>2. Callers'
    BY <1>2 DEF TakeCaller, Callers, Points, Waiting
  <2>3. Outcomes'
    BY <1>2 DEF TakeCaller, Outcomes, Callers
  <2>4. Parts'
    BY <1>2, <2>1, <2>2 DEF TakeCaller, Tasks, LogsOK, TasksOK, taskVars, storeVars
  <2> QED BY <2>3, <2>4
<1>3. CASE TakeTask(k)
  <2>1. queue' \in Seq(Items)
    BY <1>3, HeadTailProperties DEF TakeTask
  <2>2. Callers' /\ Tasks'
    BY <1>3 DEF TakeTask, Callers, Tasks, callerVars
  <2>3. Outcomes'
    BY <1>3 DEF TakeTask, Outcomes, callerVars
  <2>4. Parts'
    BY <1>3, <2>1, <2>2 DEF TakeTask, LogsOK, TasksOK, storeVars
  <2> QED BY <2>3, <2>4
<1>4. CASE Log(k)
  <2> DEFINE p == Home(k)
             queued == Append(Drained(p, id[k]), Event(k, made[k] + 1))
  <2>1. p \in Processes
    BY HomeIsProcess
  <2>2. queued \in Seq(Events)
    <3>1. Event(k, made[k] + 1) \in Events
      BY DEF Event, Events, Tasks
    <3> QED BY <2>1, <3>1, DrainedType, AppendProperties
  <2>3. logs' = [logs EXCEPT ![p] =
          [i \in DOMAIN logs[p] \cup {id[k]} |-> IF i = id[k] THEN queued ELSE logs[p][i]]]
    BY <1>4 DEF Log
  <2>4. LogsOK'
    <3> HIDE DEF p, queued
    <3>1. DOMAIN logs' = Processes /\ \A q \in Processes \ {p} : logs'[q] = logs[q]
      BY <2>3 DEF LogsOK
    <3>2. logs'[p] = [i \in DOMAIN logs[p] \cup {id[k]} |->
                        IF i = id[k] THEN queued ELSE logs[p][i]]
      BY <2>1, <2>3 DEF LogsOK
    <3>3. id[k] \in Nat
      BY DEF Tasks
    <3>4. \A i \in DOMAIN logs'[p] : i \in Nat /\ logs'[p][i] \in Seq(Events)
      BY <2>1, <2>2, <3>2, <3>3 DEF LogsOK
    <3>5. \A q \in Processes \ {p} : \A i \in DOMAIN logs'[q] :
            i \in Nat /\ logs'[q][i] \in Seq(Events)
      BY <3>1 DEF LogsOK
    <3> QED BY <3>1, <3>4, <3>5 DEF LogsOK
  <2>5. Callers' /\ Tasks' /\ Outcomes'
    BY <1>4 DEF Log, Callers, Tasks, Outcomes, callerVars
  <2> QED BY <1>4, <2>4, <2>5 DEF Log, TasksOK
<1>5. CASE End(k)
  <2>1. Callers' /\ Tasks' /\ Outcomes'
    BY <1>5 DEF End, Callers, Tasks, Outcomes, callerVars
  <2> QED BY <1>5, <2>1 DEF End, LogsOK, TasksOK, storeVars
<1> QED BY <1>1, <1>2, <1>3, <1>4, <1>5

(* The future of a local task.                                              *)
LEMMA TypeLocal ==
  ASSUME TInv, NEW k \in Calls, LocalStep(k)
  PROVE  TInv'
<1> USE DEF TInv, Parts
<1>0. "manager" \in Processes
  BY DEF Processes
<1>1. CASE Submit(k)
  <2>1. queue' \in Seq(Items)
    <3>1. [is |-> "task", of |-> k] \in Items
      BY DEF Items
    <3> QED BY <1>1, <3>1, AppendProperties DEF Submit
  <2>2. Callers'
    BY <1>1 DEF Submit, Callers, Points, Waiting
  <2>3. Tasks' /\ nextId' \in [Processes -> Nat]
    BY <1>1, HomeIsProcess DEF Submit, CreateID, Tasks
  <2>4. Outcomes'
    BY <1>1 DEF Submit, Outcomes, Callers
  <2>5. Parts'
    BY <1>1, <2>1, <2>2, <2>3 DEF Submit, LogsOK, TasksOK
  <2> QED BY <2>4, <2>5
<1>2. CASE PollLogs(k)
  <2>1. Callers' /\ pc'[k] \in {"over", "check"} /\ fetched' = fetched
    BY <1>0, <1>2, DrainedType, ListenType DEF PollLogs
  <2>2. LogsOK'
    BY <1>0, <1>2, DrainType DEF PollLogs
  <2>3. \A j \in Calls \ {k} : pc'[j] = pc[j]
    BY <1>2, OthersStay DEF PollLogs
  <2>4. Outcomes'
    BY <1>2, <2>1, <2>3 DEF PollLogs, Outcomes
  <2> QED BY <1>2, <2>1, <2>2, <2>4 DEF PollLogs, Tasks, TasksOK, taskVars
<1>3. CASE IsDone(k)
  <2>1. Callers' /\ pc'[k] \in {"get", "poll"} /\ fetched' = fetched
    BY <1>3, DecideType DEF IsDone
  <2>2. \A j \in Calls \ {k} : pc'[j] = pc[j]
    BY <1>3, OthersStay DEF IsDone
  <2>3. Outcomes'
    BY <1>3, <2>1, <2>2 DEF IsDone, Outcomes, NoReply, Reply
  <2> QED BY <1>3, <2>1, <2>3 DEF IsDone, Tasks, LogsOK, TasksOK, taskVars, storeVars
<1>4. CASE Get(k)
  <2>1. Callers' /\ pc'[k] = "over" /\ fetched' = fetched
    BY <1>4, ReturnType DEF Get
  <2>2. LogsOK'
    BY <1>0, <1>4, DeleteLogsType DEF Get
  <2>3. \A j \in Calls \ {k} : pc'[j] = pc[j]
    BY <1>4, OthersStay DEF Get
  <2>4. Outcomes'
    BY <1>4, <2>1, <2>3 DEF Get, Outcomes
  <2> QED BY <1>4, <2>1, <2>2, <2>4 DEF Get, Tasks, TasksOK, taskVars
<1> QED BY <1>1, <1>2, <1>3, <1>4 DEF LocalStep

LEMMA RespondType ==
  ASSUME TInv, NEW k \in Remote, NEW r \in Replies, Respond(k, r),
         UNCHANGED <<pc, fetched>>,
         r.what = "ok" /\ pc[k] = "get" => r.of \in Calls
  PROVE  reply' \in [Calls -> Replies] /\ Outcomes'
BY CallsAssumption DEF TInv, Parts, Respond, Outcomes, Local

LEMMA MissingIsReply == Missing \in Replies
BY EmptyEvents DEF Missing, Reply, Replies

LEMMA ReplyType ==
  ASSUME NEW e \in Seq(Events), NEW o \in Calls \cup {Nobody}, NEW w \in {"ok", "undone"}
  PROVE  Reply(w, e, o) \in Replies /\ Reply(w, e, o).what = w /\ Reply(w, e, o).of = o
BY DEF Reply, Replies

(* The agent.                                                               *)
LEMMA TypeHandle ==
  ASSUME TInv, NEW k \in Calls, Handle(k)
  PROVE  TInv'
<1> USE DEF TInv, Parts
<1>0. /\ "agent" \in Processes
      /\ k \in Remote
      /\ UNCHANGED <<queue, callerVars, made, restarts>>
  BY DEF Handle, HandleSubmit, HandlePollLog, HandleGetTask, HandleDeleteTask, Requested,
         Processes, taskVars
<1>1. Callers' /\ UNCHANGED <<pc, fetched>>
  BY <1>0 DEF Callers, callerVars
<1>2. CASE HandleSubmit(k)
  <2>1. Tasks' /\ nextId' \in [Processes -> Nat]
    BY <1>0, <1>2, HomeIsProcess DEF HandleSubmit, CreateID, Tasks
  <2>2. TasksOK'
    BY <1>0, <1>2 DEF HandleSubmit, TasksOK
  <2>3. Reply("ok", <<>>, Nobody) \in Replies
    BY EmptyEvents, ReplyType
  <2>4. reply' \in [Calls -> Replies] /\ Outcomes'
    BY <1>0, <1>1, <1>2, <2>3, RespondType DEF HandleSubmit, Requested
  <2> QED BY <1>0, <1>1, <1>2, <2>1, <2>2, <2>4 DEF HandleSubmit, LogsOK
<1>3. CASE HandlePollLog(k)
  <2>1. Drained("agent", id[k]) \in Seq(Events)
    BY <1>0, DrainedType
  <2>2. Reply("ok", Drained("agent", id[k]), Nobody) \in Replies
    BY <2>1, ReplyType
  <2>3. reply' \in [Calls -> Replies] /\ Outcomes'
    BY <1>0, <1>1, <1>3, <2>2, RespondType, MissingIsReply DEF HandlePollLog, Requested
  <2>4. LogsOK'
    BY <1>0, <1>3, DrainType DEF HandlePollLog, LogsOK
  <2> QED BY <1>0, <1>1, <1>3, <2>3, <2>4 DEF HandlePollLog, Tasks, TasksOK, taskVars
<1>4. CASE HandleGetTask(k)
  <2>1. id[k] \in DOMAIN tasks => tasks[id[k]] \in Calls
    BY DEF TasksOK
  <2>2. Reply("undone", <<>>, Nobody) \in Replies /\ Reply("undone", <<>>, Nobody).what = "undone"
    BY EmptyEvents, ReplyType
  <2>3. id[k] \in DOMAIN tasks =>
          /\ Reply("ok", <<>>, tasks[id[k]]) \in Replies
          /\ Reply("ok", <<>>, tasks[id[k]]).of \in Calls
    BY <2>1, EmptyEvents DEF Reply, Replies
  <2>4. Missing \in Replies /\ Missing.what = "missing"
    BY MissingIsReply DEF Missing, Reply
  <2>5. reply' \in [Calls -> Replies] /\ Outcomes'
    BY <1>0, <1>1, <1>4, <2>2, <2>3, <2>4, RespondType DEF HandleGetTask
  <2>6. LogsOK'
    BY <1>0, <1>4, DeleteLogsType DEF HandleGetTask, LogsOK
  <2> QED BY <1>0, <1>1, <1>4, <2>5, <2>6 DEF HandleGetTask, Tasks, TasksOK, taskVars
<1>5. CASE HandleDeleteTask(k)
  <2>1. Reply("ok", <<>>, Nobody) \in Replies
    BY EmptyEvents, ReplyType
  <2>2. reply' \in [Calls -> Replies] /\ Outcomes'
    BY <1>0, <1>1, <1>5, <2>1, MissingIsReply, RespondType DEF HandleDeleteTask, Requested
  <2>3. LogsOK'
    BY <1>0, <1>5, DeleteLogsType DEF HandleDeleteTask, LogsOK
  <2>4. TasksOK'
    BY <1>5 DEF HandleDeleteTask, TasksOK, Without
  <2> QED BY <1>0, <1>1, <1>5, <2>2, <2>3, <2>4 DEF HandleDeleteTask, Tasks, taskVars
<1> QED BY <1>2, <1>3, <1>4, <1>5 DEF Handle

(* The future of a remote task.                                             *)
LEMMA TypeRemote ==
  ASSUME TInv, NEW k \in Calls, RemoteStep(k)
  PROVE  TInv'
<1> USE DEF TInv, Parts
<1>0. /\ reply' = [reply EXCEPT ![k] = NoReply]
      /\ UNCHANGED <<queue, taskVars, storeVars, restarts>>
  BY DEF RemoteStep, Submitted, Polled, Checked, Fetched, Deleted, Refused, Break,
         Replied
<1>1. /\ reply' \in [Calls -> Replies]
      /\ reply'[k] = NoReply /\ NoReply.what = "none"
      /\ \A j \in Calls \ {k} : reply'[j] = reply[j]
  BY <1>0, NoReplyIsReply DEF NoReply, Reply
<1>2. /\ Tasks' /\ LogsOK' /\ TasksOK' /\ nextId' \in [Processes -> Nat]
      /\ queue' \in Seq(Items) /\ restarts' \in 0 .. MaxRestarts
  BY <1>0 DEF taskVars, storeVars, Tasks, LogsOK, TasksOK
<1>3. SUFFICES /\ Callers'
               /\ \A j \in Calls \ {k} : pc'[j] = pc[j] /\ fetched'[j] = fetched[j]
               /\ pc'[k] = "delete" => fetched'[k] \in Calls
  BY <1>1, <1>2 DEF Outcomes
<1>4. CASE Submitted(k)
  BY <1>4 DEF Submitted, Callers, Points, Waiting
<1>5. CASE Polled(k)
  <2>1. reply[k].events \in Seq(Events)
    BY DEF Replies
  <2> QED BY <1>5, <2>1, ListenType, OthersStay DEF Polled
<1>6. CASE Checked(k)
  BY <1>6, DecideType, OthersStay DEF Checked
<1>7. CASE Fetched(k) /\ reply[k].what = "ok"
  <2>1. reply[k].of \in Calls
    BY <1>7 DEF Fetched, Replied, Outcomes
  <2> QED BY <1>7, <2>1 DEF Fetched, Callers, Points, Waiting
<1>8. CASE Fetched(k) /\ reply[k].what = "undone"
  BY <1>8 DEF Fetched, Replied, Callers, callerVars
<1>9. CASE Deleted(k)
  <2>1. fetched[k] \in Calls
    BY <1>9 DEF Deleted, Replied, Outcomes
  <2> QED BY <1>9, <2>1, ReturnType, OthersStay DEF Deleted
<1>10. CASE Refused(k) \/ Break(k)
  BY <1>10, ReturnType, OthersStay DEF Refused, Break
<1> QED BY <1>4, <1>5, <1>6, <1>7, <1>8, <1>9, <1>10 DEF RemoteStep, Fetched

LEMMA TypeRestart ==
  ASSUME TInv, Restart
  PROVE  TInv'
<1> USE DEF TInv, Parts
<1>1. Callers' /\ Tasks' /\ Outcomes'
  BY DEF Restart, Callers, Tasks, Outcomes, callerVars
<1>2. LogsOK' /\ TasksOK' /\ nextId' \in [Processes -> Nat]
  BY DEF Restart, LogsOK, TasksOK, Empty, Processes
<1> QED BY <1>1, <1>2, CallsAssumption DEF Restart

LEMMA TypeStep == TInv /\ [Next]_vars => TInv'
<1> SUFFICES ASSUME TInv, [Next]_vars PROVE TInv'
  OBVIOUS
<1>1. ASSUME NEW k \in Calls,
             Invoke(k) \/ TakeCaller(k) \/ TakeTask(k) \/ Log(k) \/ End(k)
      PROVE  TInv'
  BY <1>1, TypePool
<1>2. ASSUME NEW k \in Calls, LocalStep(k) \/ Handle(k) \/ RemoteStep(k) PROVE TInv'
  BY <1>2, TypeLocal, TypeHandle, TypeRemote
<1>3. CASE Restart
  BY <1>3, TypeRestart
<1>4. CASE UNCHANGED vars
  BY <1>4 DEF TInv, Parts, vars, callerVars, taskVars, storeVars, Callers, Tasks, LogsOK,
     TasksOK, Outcomes
<1> QED BY <1>1, <1>2, <1>3, <1>4 DEF Next

(* The variables have their types.                                          *)
THEOREM TypeCorrect == Spec => []TypeOK
<1>1. TInv => TypeOK
  BY PartsAreTypes DEF TInv
<1> QED BY TypeInit, TypeStep, <1>1, PTL DEF Spec
-----------------------------------------------------------------------------
(* A caller gets its own outcome and leaves nothing, as long as no task can *)
(* get the id that a task had before a restart of the agent.                *)

NoIdAgain == MaxRestarts = 0 \/ \A j, k \in Remote : j = k

Has(k) == task[k] # "none"

(* What waits in the pool has not started, and waits once.                  *)
QueueInv ==
  \A i \in DOMAIN queue :
    /\ queue[i].is = "caller" => pc[queue[i].of] = "queued"
    /\ queue[i].is = "task" => task[queue[i].of] = "queued"
    /\ \A j \in DOMAIN queue : queue[j] = queue[i] => j = i

(* An id is given once in a process; an agent that was restarted does not   *)
(* know how many ids it gave.                                               *)
Forgotten(k) == k \in Remote /\ restarts > 0 /\ task[k] \in {"ended", "killed"}
IdInv ==
  \A k \in Calls : Has(k) =>
    /\ id[k] < nextId[Home(k)] \/ Forgotten(k)
    /\ \A j \in Calls : Has(j) /\ Home(j) = Home(k) /\ id[j] = id[k] => j = k

(* The agent's table has each task under its id.                            *)
TableInv ==
  \A i \in DOMAIN tasks :
    tasks[i] \in Remote /\ Has(tasks[i]) /\ id[tasks[i]] = i

Gone(k) ==
  /\ id[k] \notin DOMAIN logs[Home(k)]
  /\ k \in Remote => id[k] \notin DOMAIN tasks

(* What a caller knows where it is.                                         *)
CallOK(k) ==
  /\ pc[k] \in {"idle", "queued"} => ~ Has(k)
  /\ pc[k] \notin Waiting => reply[k] = NoReply
  /\ pc[k] = "submit" => (Has(k) <=> reply[k] # NoReply)
  /\ pc[k] \in {"poll", "check", "get", "delete"} => Has(k)
  /\ pc[k] = "get" /\ reply[k].what = "ok" => reply[k].of = k /\ task[k] = "ended"
  /\ pc[k] = "delete" => fetched[k] = k /\ task[k] = "ended"
  /\ pc[k] = "delete" /\ reply[k].what = "ok" => Gone(k)
  /\ answer[k] \in {"none", "error"} \/
       (answer[k] = k /\ pc[k] = "over" /\ task[k] = "ended" /\ Gone(k))
CallInv == \A k \in Calls : CallOK(k)

(* An agent starts a task at once.                                          *)
NoneQueued == \A k \in Remote : task[k] # "queued"

OInv == TInv /\ QueueInv /\ IdInv /\ TableInv /\ CallInv /\ NoneQueued

LEMMA OwnInit == Init => OInv
<1> SUFFICES ASSUME Init PROVE OInv
  OBVIOUS
<1>1. QueueInv
  BY DEF Init, QueueInv
<1>2. IdInv /\ TableInv
  BY DEF Init, IdInv, TableInv, Empty, Has
<1>3. CallInv
  BY DEF Init, CallInv, CallOK, Has, Waiting
<1>4. NoneQueued
  BY CallsAssumption DEF Init, NoneQueued
<1> QED BY <1>1, <1>2, <1>3, <1>4, TypeInit DEF OInv

(* What must stay for a call to stay as it is.                              *)
LEMMA CallStays ==
  ASSUME NEW k \in Calls, CallOK(k),
         pc'[k] = pc[k], reply'[k] = reply[k], fetched'[k] = fetched[k],
         answer'[k] = answer[k], task'[k] = task[k], id'[k] = id[k],
         task[k] = "ended" /\ Gone(k) => Gone(k)'
  PROVE  CallOK(k)'
BY DEF CallOK, Has

(* Steps that give out no id and remove at most entries of the table.       *)
LEMMA IdsStay ==
  ASSUME IdInv, TableInv, UNCHANGED <<id, nextId, restarts>>,
         \A k \in Calls : Has(k)' <=> Has(k),
         \A k \in Calls : task[k] \in {"ended", "killed"} => task'[k] = task[k],
         DOMAIN tasks' \subseteq DOMAIN tasks, TasksOK,
         \A i \in DOMAIN tasks' : tasks'[i] = tasks[i]
  PROVE  IdInv' /\ TableInv'
<1>1. IdInv'
  BY DEF IdInv, Home, Forgotten
<1>2. TableInv'
  BY DEF TableInv, TasksOK
<1> QED BY <1>1, <1>2

LEMMA QueueItems ==
  ASSUME NEW q \in Seq(Items), NEW i \in DOMAIN q
  PROVE  /\ q[i] \in Items /\ q[i].of \in Calls
         /\ q[i].is \in {"caller", "task"} /\ q[i] = [is |-> q[i].is, of |-> q[i].of]
<1>1. q[i] \in Items
  BY ElementOfSeq, LenProperties
<1> QED BY <1>1 DEF Items

LEMMA QueueStays ==
  ASSUME QueueInv, queue \in Seq(Items), UNCHANGED queue,
         \A k \in Calls : pc[k] = "queued" => pc'[k] = "queued",
         \A k \in Calls : task[k] = "queued" => task'[k] = "queued"
  PROVE  QueueInv'
BY QueueItems DEF QueueInv

LEMMA GoneStays ==
  ASSUME NEW k \in Calls, UNCHANGED id,
         Gone(k), DOMAIN logs'[Home(k)] \subseteq DOMAIN logs[Home(k)],
         DOMAIN tasks' \subseteq DOMAIN tasks
  PROVE  Gone(k)'
BY DEF Gone, Home

(* An item that waits is the first no longer after it was taken.            *)
LEMMA Taken ==
  ASSUME QueueInv, queue \in Seq(Items), queue # <<>>, queue' = Tail(queue)
  PROVE  /\ Head(queue) = queue[1] /\ 1 \in DOMAIN queue
         /\ \A i \in DOMAIN queue' :
              /\ i \in Nat /\ i + 1 \in DOMAIN queue
              /\ queue'[i] = queue[i + 1]
              /\ queue'[i] # Head(queue)
         /\ \A i, j \in DOMAIN queue' : queue'[i] = queue'[j] => i = j
<1>1. Head(queue) = queue[1] /\ 1 \in DOMAIN queue
  BY LenProperties, EmptySeq
<1>2. \A i \in DOMAIN queue' : i \in Nat /\ i + 1 \in DOMAIN queue /\ queue'[i] = queue[i + 1]
  BY HeadTailProperties, LenProperties
<1>3. \A i \in DOMAIN queue' : queue'[i] # Head(queue)
  <2> SUFFICES ASSUME NEW i \in DOMAIN queue', queue'[i] = Head(queue) PROVE FALSE
    OBVIOUS
  <2>1. i \in 1 .. Len(queue')
    BY HeadTailProperties, LenProperties
  <2>2. i + 1 = 1
    BY <1>1, <1>2 DEF QueueInv
  <2> QED BY <2>1, <2>2
<1>4. \A i, j \in DOMAIN queue' : queue'[i] = queue'[j] => i = j
  BY <1>2 DEF QueueInv
<1> QED BY <1>1, <1>2, <1>3, <1>4

LEMMA Added ==
  ASSUME QueueInv, queue \in Seq(Items), NEW x \in Items, queue' = Append(queue, x),
         \A i \in DOMAIN queue : queue[i] # x
  PROVE  /\ \A i \in DOMAIN queue' : (i \in DOMAIN queue /\ queue'[i] = queue[i]) \/ queue'[i] = x
         /\ \A i, j \in DOMAIN queue' : queue'[i] = queue'[j] => i = j
<1>1. /\ DOMAIN queue' = 1 .. Len(queue) + 1
      /\ \A i \in 1 .. Len(queue) : i \in DOMAIN queue /\ queue'[i] = queue[i]
      /\ queue'[Len(queue) + 1] = x
      /\ Len(queue) \in Nat
  BY AppendProperties, LenProperties
<1>2. \A i \in DOMAIN queue' : i \in 1 .. Len(queue) \/ i = Len(queue) + 1
  BY <1>1
<1>3. \A i \in DOMAIN queue' : (i \in DOMAIN queue /\ queue'[i] = queue[i]) \/ queue'[i] = x
  BY <1>1, <1>2
<1>4. \A i, j \in DOMAIN queue' : queue'[i] = queue'[j] => i = j
  BY <1>1, <1>2 DEF QueueInv
<1> QED BY <1>3, <1>4
-----------------------------------------------------------------------------
(* Every action keeps this.                                                 *)

LEMMA OwnPool ==
  ASSUME OInv, NEW k \in Calls,
         Invoke(k) \/ TakeCaller(k) \/ TakeTask(k) \/ Log(k) \/ End(k)
  PROVE  QueueInv' /\ IdInv' /\ TableInv' /\ CallInv'
<1> USE DEF OInv, TInv, Parts
<1>0. /\ UNCHANGED <<id, nextId, tasks, reply, fetched, answer, restarts>>
      /\ \A j \in Calls : Has(j)' <=> Has(j)
      /\ \A j \in Calls : task[j] \in {"ended", "killed"} => task'[j] = task[j]
  <2>1. CASE TakeTask(k)
    <3>1. task[k] = "queued"
      BY <2>1, Taken DEF TakeTask, QueueInv
    <3> QED BY <2>1, <3>1 DEF TakeTask, Has, Tasks, storeVars, callerVars
  <2> QED BY <2>1 DEF Invoke, TakeCaller, Log, End, callerVars, storeVars, taskVars, Has, Tasks
<1>1. IdInv' /\ TableInv'
  BY <1>0, IdsStay
<1>2. \A j \in Calls : Gone(j) /\ UNCHANGED logs => Gone(j)'
  BY <1>0 DEF Gone, Home
<1>3. CASE Invoke(k)
  <2> DEFINE x == [is |-> "caller", of |-> k]
  <2>1. x \in Items /\ queue' = Append(queue, x) /\ UNCHANGED <<task, logs>>
    BY <1>3 DEF Invoke, Items, taskVars, storeVars
  <2>2. \A i \in DOMAIN queue : queue[i] # x
    BY <1>3 DEF Invoke, QueueInv
  <2>3. pc' = [pc EXCEPT ![k] = "queued"]
    BY <1>3 DEF Invoke
  <2>4. QueueInv'
    BY <2>1, <2>2, <2>3, Added, QueueItems DEF QueueInv, Callers
  <2>5. CallOK(k)'
    BY <1>0, <1>3, <2>1, <2>3 DEF Invoke, CallInv, CallOK, Callers, Has, Waiting
  <2>6. \A j \in Calls \ {k} : CallOK(j)'
    BY <1>0, <1>2, <2>1, <2>3, CallStays DEF CallInv, Callers
  <2> QED BY <1>1, <2>4, <2>5, <2>6 DEF CallInv
<1>4. CASE TakeCaller(k)
  <2>1. /\ queue # <<>> /\ queue' = Tail(queue)
        /\ Head(queue) = [is |-> "caller", of |-> k]
        /\ pc' = [pc EXCEPT ![k] = "submit"]
        /\ UNCHANGED <<task, logs>>
    BY <1>4 DEF TakeCaller, taskVars, storeVars
  <2>2. pc[k] = "queued"
    BY <2>1, Taken DEF QueueInv
  <2>3. QueueInv'
    BY <2>1, Taken, QueueItems DEF QueueInv, Callers
  <2>4. CallOK(k)'
    BY <1>0, <2>1, <2>2 DEF CallInv, CallOK, Callers, Has, Waiting
  <2>5. \A j \in Calls \ {k} : CallOK(j)'
    BY <1>0, <1>2, <2>1, CallStays DEF CallInv, Callers
  <2> QED BY <1>1, <2>3, <2>4, <2>5 DEF CallInv
<1>5. CASE TakeTask(k)
  <2>1. /\ queue # <<>> /\ queue' = Tail(queue)
        /\ Head(queue) = [is |-> "task", of |-> k]
        /\ task' = [task EXCEPT ![k] = "running"]
        /\ UNCHANGED <<pc, logs>>
    BY <1>5 DEF TakeTask, callerVars, storeVars
  <2>2. task[k] = "queued"
    BY <2>1, Taken DEF QueueInv
  <2>3. QueueInv'
    BY <2>1, Taken, QueueItems DEF QueueInv, Tasks
  <2>4. CallOK(k)'
    BY <1>0, <2>1, <2>2 DEF CallInv, CallOK, Tasks, Has
  <2>5. \A j \in Calls \ {k} : CallOK(j)'
    BY <1>0, <1>2, <2>1, CallStays DEF CallInv, Tasks
  <2> QED BY <1>1, <2>3, <2>4, <2>5 DEF CallInv
<1>6. CASE Log(k)
  <2>1. UNCHANGED <<queue, pc, task>> /\ task[k] = "running"
    BY <1>6 DEF Log, callerVars
  <2>2. QueueInv'
    BY <2>1, QueueStays
  <2>3. ASSUME NEW j \in Calls, task[j] = "ended", Gone(j) PROVE Gone(j)'
    <3>1. \A i \in DOMAIN logs'[Home(j)] :
            i \in DOMAIN logs[Home(j)] \/ (Home(j) = Home(k) /\ i = id[k])
      BY <1>6, HomeIsProcess DEF Log, LogsOK
    <3>2. ~ (Home(j) = Home(k) /\ id[j] = id[k])
      BY <2>1, <2>3 DEF IdInv, Has
    <3> QED BY <1>0, <2>3, <3>1, <3>2 DEF Gone, Home
  <2>4. CallInv'
    BY <1>0, <2>1, <2>3, CallStays DEF CallInv
  <2> QED BY <1>1, <2>2, <2>4
<1>7. CASE End(k)
  <2>1. UNCHANGED <<queue, pc, logs>> /\ task[k] = "running" /\ task' = [task EXCEPT ![k] = "ended"]
    BY <1>7 DEF End, callerVars, storeVars
  <2>2. QueueInv'
    BY <2>1, QueueStays DEF Tasks
  <2>3. CallOK(k)'
    BY <1>0, <2>1 DEF CallInv, CallOK, Tasks, Has
  <2>4. \A j \in Calls \ {k} : CallOK(j)'
    BY <1>0, <1>2, <2>1, CallStays DEF CallInv, Tasks
  <2> QED BY <1>1, <2>2, <2>3, <2>4 DEF CallInv
<1> QED BY <1>3, <1>4, <1>5, <1>6, <1>7

(* Where another call starts a task, no id is forgotten.                    *)
LEMMA Remembered ==
  ASSUME TInv, IdInv, NoIdAgain, NEW k \in Calls, NEW j \in Calls \ {k},
         Has(j), Home(j) = Home(k)
  PROVE  id[j] < nextId[Home(j)]
BY DEF IdInv, Forgotten, NoIdAgain, Home, TInv, Parts

(* createID gives an id that no task of the process has.                    *)
LEMMA NewId ==
  ASSUME TInv, IdInv, NoIdAgain, NEW k \in Calls, ~ Has(k), CreateID(k), Has(k)',
         UNCHANGED restarts,
         \A j \in Calls \ {k} : task'[j] = task[j]
  PROVE  /\ IdInv'
         /\ id'[k] = nextId[Home(k)]
         /\ \A j \in Calls \ {k} : id'[j] = id[j]
<1>1. /\ id'[k] = nextId[Home(k)] /\ nextId'[Home(k)] = nextId[Home(k)] + 1
      /\ \A j \in Calls \ {k} : id'[j] = id[j]
      /\ \A p \in Processes : nextId[p] \in Nat /\ (nextId'[p] = nextId[p] \/ p = Home(k))
  BY HomeIsProcess DEF TInv, Parts, Tasks, CreateID
<1>2. \A j \in Calls : id[j] \in Nat
  BY DEF TInv, Parts, Tasks
<1>3. \A j \in Calls \ {k} : Has(j)' <=> Has(j)
  BY DEF Has
<1>4. ASSUME NEW j \in Calls, Has(j)' PROVE id'[j] < nextId'[Home(j)] \/ Forgotten(j)'
  <2>1. CASE j = k
    BY <1>1, <2>1, HomeIsProcess
  <2>2. CASE j # k
    <3>1. id[j] < nextId[Home(j)] \/ Forgotten(j)
      BY <1>3, <1>4, <2>2 DEF IdInv
    <3>2. Forgotten(j) => Forgotten(j)'
      BY <2>2 DEF Forgotten
    <3> QED BY <1>1, <1>2, <2>2, <3>1, <3>2, HomeIsProcess
  <2> QED BY <2>1, <2>2
<1>5. ASSUME NEW j \in Calls, NEW l \in Calls, Has(j)', Has(l)',
             Home(j) = Home(l), id'[j] = id'[l]
      PROVE  j = l
  <2>1. CASE j # k /\ l # k
    BY <1>1, <1>3, <1>5, <2>1 DEF IdInv
  <2>2. CASE j = k /\ l # k
    BY <1>1, <1>2, <1>3, <1>5, <2>2, HomeIsProcess, Remembered
  <2>3. CASE j # k /\ l = k
    BY <1>1, <1>2, <1>3, <1>5, <2>3, HomeIsProcess, Remembered
  <2> QED BY <2>1, <2>2, <2>3
<1> QED BY <1>1, <1>4, <1>5 DEF IdInv, Home, Forgotten

(* A caller that is over, or is told of an error, is told nothing else.     *)
LEMMA ReturnOwn ==
  ASSUME Callers, NEW k \in Calls, NEW a, Return(k, a), reply'[k] = NoReply,
         a = "error" \/ (a = k /\ task'[k] = "ended" /\ Gone(k)')
  PROVE  CallOK(k)'
BY DEF Callers, Return, CallOK, NoReply, Reply

LEMMA OwnLocal ==
  ASSUME OInv, NoIdAgain, NEW k \in Calls, LocalStep(k)
  PROVE  QueueInv' /\ IdInv' /\ TableInv' /\ CallInv'
<1> USE DEF OInv, TInv, Parts
<1>0. /\ k \in Local /\ "manager" = Home(k) /\ UNCHANGED <<tasks, reply>>
      /\ reply[k] = NoReply /\ NoReply.what = "none"
  BY DEF LocalStep, Submit, PollLogs, IsDone, Get, Local, Home, Outcomes, storeVars, NoReply, Reply
<1>1. CASE Submit(k)
  <2> DEFINE x == [is |-> "task", of |-> k]
  <2>1. /\ pc[k] = "submit" /\ ~ Has(k)
        /\ task' = [task EXCEPT ![k] = "queued"]
        /\ x \in Items /\ queue' = Append(queue, x)
        /\ pc' = [pc EXCEPT ![k] = "poll"]
        /\ UNCHANGED <<logs, fetched, answer>>
    BY <1>0, <1>1 DEF Submit, Items, CallInv, CallOK
  <2>2. \A i \in DOMAIN queue : queue[i] # x
    BY <2>1 DEF QueueInv, Has
  <2>3. QueueInv'
    <3>1. /\ \A i \in DOMAIN queue' : (i \in DOMAIN queue /\ queue'[i] = queue[i]) \/ queue'[i] = x
          /\ \A i, j \in DOMAIN queue' : queue'[i] = queue'[j] => i = j
      BY <2>1, <2>2, Added
    <3>2. ASSUME NEW i \in DOMAIN queue'
          PROVE  /\ queue'[i].is = "caller" => pc'[queue'[i].of] = "queued"
                 /\ queue'[i].is = "task" => task'[queue'[i].of] = "queued"
      <4>1. CASE i \in DOMAIN queue /\ queue'[i] = queue[i]
        <5>1. /\ queue[i].of \in Calls
              /\ queue[i].is = "caller" => pc[queue[i].of] = "queued"
              /\ queue[i].is = "task" => task[queue[i].of] = "queued"
          BY <4>1, QueueItems DEF QueueInv
        <5> QED BY <2>1, <4>1, <5>1 DEF Callers, Tasks
      <4>2. CASE queue'[i] = x
        BY <2>1, <4>2 DEF Tasks
      <4> QED BY <3>1, <4>1, <4>2
    <3> QED BY <3>1, <3>2 DEF QueueInv
  <2>4. Has(k)' /\ \A j \in Calls \ {k} : task'[j] = task[j] /\ pc'[j] = pc[j]
    BY <2>1 DEF Has, Tasks, Callers
  <2>5. IdInv' /\ \A j \in Calls \ {k} : id'[j] = id[j]
    BY <1>1, <2>1, <2>4, NewId DEF Submit
  <2>6. TableInv'
    BY <1>0, <2>1, <2>4, <2>5 DEF TableInv, TasksOK, Local, Has
  <2>7. CallOK(k)'
    BY <1>0, <2>1, <2>4 DEF CallInv, CallOK, Callers
  <2>8. \A j \in Calls \ {k} : CallOK(j)'
    BY <1>0, <2>1, <2>4, <2>5, CallStays DEF CallInv, Gone, Home
  <2> QED BY <2>3, <2>5, <2>6, <2>7, <2>8 DEF CallInv
<1>2. CASE PollLogs(k) \/ IsDone(k) \/ Get(k)
  <2>1. /\ UNCHANGED <<queue, task, id, nextId, tasks, reply, fetched, restarts>>
        /\ \A j \in Calls \ {k} : pc'[j] = pc[j] /\ answer'[j] = answer[j]
        /\ pc[k] \in {"poll", "check", "get"} /\ Has(k)
    BY <1>2, OthersStay DEF PollLogs, IsDone, Get, taskVars, storeVars, Return, Listen, Decide,
       CallInv, CallOK
  <2>2. QueueInv'
    BY <2>1, QueueStays
  <2>3. IdInv' /\ TableInv'
    BY <2>1, IdsStay DEF Has
  <2>4. LogsOK /\ \A p \in Processes : DOMAIN logs'[p] \subseteq DOMAIN logs[p]
    BY <1>0, <1>2, HomeIsProcess, DrainType, DeleteLogsType DEF PollLogs, IsDone, Get, storeVars
  <2>5. \A j \in Calls : Gone(j) => Gone(j)'
    BY <2>1, <2>4, HomeIsProcess, GoneStays
  <2>6. \A j \in Calls \ {k} : CallOK(j)'
    BY <2>1, <2>5, CallStays DEF CallInv
  <2>7. CallOK(k)'
    <3>1. CASE PollLogs(k)
      <4>1. CASE Return(k, "error")
        BY <1>0, <4>1, ReturnOwn
      <4>2. CASE pc' = [pc EXCEPT ![k] = "check"] /\ UNCHANGED answer
        BY <1>0, <2>1, <4>2 DEF CallInv, CallOK, Callers, Has
      <4> QED BY <3>1, <4>1, <4>2 DEF PollLogs, Listen
    <3>2. CASE IsDone(k)
      BY <1>0, <2>1, <3>2 DEF IsDone, Decide, CallInv, CallOK, Callers, Has
    <3>3. CASE Get(k)
      <4>1. Gone(k)'
        BY <1>0, <3>3, HomeIsProcess, DeleteLogsType DEF Get, Gone, Home, Local, taskVars
      <4>2. Return(k, k) /\ task'[k] = "ended" /\ reply'[k] = NoReply
        BY <1>0, <3>3 DEF Get, taskVars
      <4> QED BY <4>1, <4>2, ReturnOwn
    <3> QED BY <1>2, <3>1, <3>2, <3>3
  <2> QED BY <2>2, <2>3, <2>6, <2>7 DEF CallInv
<1> QED BY <1>1, <1>2 DEF LocalStep

LEMMA OwnHandle ==
  ASSUME OInv, NoIdAgain, NEW k \in Calls, Handle(k)
  PROVE  QueueInv' /\ IdInv' /\ TableInv' /\ CallInv'
<1> USE DEF OInv, TInv, Parts
<1>0. /\ k \in Remote /\ Home(k) = "agent" /\ reply[k] = NoReply /\ NoReply.what = "none"
      /\ UNCHANGED <<queue, pc, fetched, answer>>
      /\ \A j \in Calls \ {k} : reply'[j] = reply[j]
  BY DEF Handle, HandleSubmit, HandlePollLog, HandleGetTask, HandleDeleteTask, Requested, Home,
         callerVars, Respond, NoReply, Reply
<1>1. CASE HandleSubmit(k)
  <2>1. /\ pc[k] = "submit" /\ ~ Has(k)
        /\ task' = [task EXCEPT ![k] = "running"]
        /\ reply'[k] = Reply("ok", <<>>, Nobody)
        /\ UNCHANGED logs
    BY <1>0, <1>1 DEF HandleSubmit, Requested, CallInv, CallOK, Respond
  <2>2. Has(k)' /\ \A j \in Calls \ {k} : task'[j] = task[j]
    BY <2>1 DEF Has, Tasks
  <2>3. /\ IdInv' /\ id'[k] = nextId["agent"]
        /\ \A j \in Calls \ {k} : id'[j] = id[j]
    BY <1>0, <1>1, <2>1, <2>2, NewId DEF HandleSubmit
  <2>4. /\ DOMAIN tasks' = DOMAIN tasks \cup {nextId["agent"]}
        /\ tasks'[nextId["agent"]] = k
        /\ \A i \in DOMAIN tasks : i # nextId["agent"] => tasks'[i] = tasks[i]
    BY <1>1 DEF HandleSubmit
  <2>5. ASSUME NEW i \in DOMAIN tasks'
        PROVE  tasks'[i] \in Remote /\ task'[tasks'[i]] # "none" /\ id'[tasks'[i]] = i
    <3>1. CASE i = nextId["agent"]
      BY <1>0, <2>2, <2>3, <2>4, <3>1 DEF Has
    <3>2. CASE i # nextId["agent"]
      <4>1. i \in DOMAIN tasks /\ tasks'[i] = tasks[i] /\ tasks[i] \in Calls
        BY <2>4, <3>2 DEF TasksOK
      <4>2. tasks[i] # k /\ tasks[i] \in Remote /\ Has(tasks[i]) /\ id[tasks[i]] = i
        BY <2>1, <4>1 DEF TableInv
      <4> QED BY <2>2, <2>3, <4>1, <4>2 DEF Has
    <3> QED BY <3>1, <3>2
  <2>6. QueueInv'
    BY <1>0, <2>1, <2>2, QueueStays DEF Has
  <2>7. ASSUME NEW j \in Calls \ {k}, task[j] = "ended", Gone(j) PROVE Gone(j)'
    <3>1. j \in Remote => id[j] < nextId["agent"]
      BY <1>0, <2>7, Remembered DEF Has, Home
    <3>2. j \in Remote => id[j] # nextId["agent"]
      BY <3>1 DEF Tasks, Processes
    <3> QED BY <2>1, <2>3, <2>4, <2>7, <3>2 DEF Gone, Home
  <2>8. \A j \in Calls \ {k} : CallOK(j)'
    BY <1>0, <2>2, <2>3, <2>7, CallStays DEF CallInv
  <2>9. CallOK(k)'
    BY <1>0, <2>1, <2>2 DEF CallInv, CallOK, Reply, NoReply, Waiting
  <2> QED BY <2>3, <2>5, <2>6, <2>8, <2>9 DEF CallInv, TableInv, Has
<1>2. CASE HandlePollLog(k) \/ HandleGetTask(k) \/ HandleDeleteTask(k)
  <2>1. UNCHANGED <<task, id, nextId, restarts>> /\ pc[k] \in {"poll", "check", "get", "delete"} /\ Has(k)
    BY <1>2 DEF HandlePollLog, HandleGetTask, HandleDeleteTask, Requested, taskVars, CallInv, CallOK
  <2>2. /\ DOMAIN tasks' \subseteq DOMAIN tasks
        /\ \A i \in DOMAIN tasks' : tasks'[i] = tasks[i]
    BY <1>2 DEF HandlePollLog, HandleGetTask, HandleDeleteTask, Without
  <2>3. QueueInv'
    BY <1>0, <2>1, QueueStays
  <2>4. IdInv' /\ TableInv'
    BY <2>1, <2>2, IdsStay DEF Has
  <2>5. \A p \in Processes : DOMAIN logs'[p] \subseteq DOMAIN logs[p]
    <3>1. "agent" \in Processes
      BY DEF Processes
    <3>2. CASE UNCHANGED logs
      BY <3>2
    <3>3. CASE Drain("agent", id[k])
      BY <3>1, <3>3, DrainType
    <3>4. CASE DeleteLogs("agent", id[k])
      BY <3>1, <3>4, DeleteLogsType
    <3> QED BY <1>2, <3>2, <3>3, <3>4 DEF HandlePollLog, HandleGetTask, HandleDeleteTask
  <2>6. \A j \in Calls : Gone(j) => Gone(j)'
    BY <2>1, <2>2, <2>5, HomeIsProcess, GoneStays
  <2>7. \A j \in Calls \ {k} : CallOK(j)'
    BY <1>0, <2>1, <2>6, CallStays DEF CallInv
  <2>8. ASSUME pc[k] = "get", reply'[k].what = "ok" PROVE reply'[k].of = k /\ task'[k] = "ended"
    <3>1. HandleGetTask(k)
      BY <1>2, <2>8 DEF HandlePollLog, HandleDeleteTask, Requested
    <3>2. /\ id[k] \in DOMAIN tasks /\ task[tasks[id[k]]] = "ended"
          /\ reply'[k] = Reply("ok", <<>>, tasks[id[k]])
      BY <1>0, <2>8, <3>1 DEF HandleGetTask, Respond, Missing, Reply
    <3>3. tasks[id[k]] = k
      BY <1>0, <2>1, <3>2 DEF TableInv, IdInv, Home, TasksOK
    <3> QED BY <2>1, <3>2, <3>3 DEF Reply
  <2>9. ASSUME pc[k] = "delete", reply'[k].what = "ok" PROVE Gone(k)'
    <3>1. HandleDeleteTask(k)
      BY <1>2, <2>9 DEF HandlePollLog, HandleGetTask, Requested
    <3>2. tasks' = Without(tasks, id[k]) /\ DeleteLogs("agent", id[k])
      BY <1>0, <2>9, <3>1 DEF HandleDeleteTask, Respond, Missing, Reply
    <3>3. id[k] \notin DOMAIN logs'["agent"]
      BY <3>2, DeleteLogsType DEF Processes
    <3> QED BY <1>0, <2>1, <3>2, <3>3 DEF Gone, Home, Without
  <2>10. CallOK(k)'
    <3>1. /\ pc[k] = "delete" => fetched[k] = k /\ task[k] = "ended"
          /\ answer[k] \in {"none", "error"}
      BY <2>1 DEF CallInv, CallOK
    <3>2. Has(k)' /\ pc'[k] \in Waiting \ {"submit"}
      BY <1>0, <2>1 DEF Has, Waiting
    <3> QED BY <1>0, <2>1, <2>8, <2>9, <3>1, <3>2 DEF CallOK, Waiting
  <2> QED BY <2>3, <2>4, <2>7, <2>10 DEF CallInv
<1> QED BY <1>1, <1>2 DEF Handle

LEMMA OwnRemote ==
  ASSUME OInv, NEW k \in Calls, RemoteStep(k)
  PROVE  QueueInv' /\ IdInv' /\ TableInv' /\ CallInv'
<1> USE DEF OInv, TInv, Parts
<1>0. /\ reply' = [reply EXCEPT ![k] = NoReply]
      /\ UNCHANGED <<queue, task, id, nextId, logs, tasks, restarts>>
  BY DEF RemoteStep, Submitted, Polled, Checked, Fetched, Deleted, Refused, Break,
         Replied, taskVars, storeVars
<1>1. /\ reply'[k] = NoReply /\ NoReply.what = "none"
      /\ \A j \in Calls \ {k} : reply'[j] = reply[j]
  BY <1>0 DEF NoReply, Reply
<1>2. /\ pc[k] \in Waiting
      /\ \A j \in Calls \ {k} :
           pc'[j] = pc[j] /\ answer'[j] = answer[j] /\ fetched'[j] = fetched[j]
  <2>1. CASE Submitted(k)
    BY <2>1 DEF Submitted, Replied, Callers, Waiting
  <2>2. CASE Polled(k)
    BY <2>2, OthersStay DEF Polled, Replied, Waiting, Listen, Return
  <2>3. CASE Checked(k)
    BY <2>3, OthersStay DEF Checked, Replied, Waiting, Decide
  <2>4. CASE Fetched(k) /\ reply[k].what = "ok"
    BY <2>4 DEF Fetched, Replied, Callers, Waiting
  <2>5. CASE Fetched(k) /\ reply[k].what = "undone"
    BY <2>5 DEF Fetched, Replied, callerVars, Waiting
  <2>6. CASE Deleted(k)
    BY <2>6, OthersStay DEF Deleted, Replied, Waiting, Return
  <2>7. CASE Refused(k)
    <3>1. reply[k] # NoReply
      BY <1>1, <2>7 DEF Refused, Replied
    <3>2. reply[k].what = "missing" /\ Return(k, "error")
      BY <2>7 DEF Refused, Replied
    <3>3. pc[k] \in Waiting
      BY <3>1, <3>2 DEF CallInv, CallOK, Callers, Points, NoReply, Reply
    <3> QED BY <3>2, <3>3, OthersStay DEF Return
  <2>8. CASE Break(k)
    BY <2>8, OthersStay DEF Break, Return
  <2> QED BY <2>1, <2>2, <2>3, <2>4, <2>5, <2>6, <2>7, <2>8 DEF RemoteStep, Fetched
<1>3. QueueInv'
  <2>1. \A j \in Calls : pc[j] = "queued" => pc'[j] = "queued"
    BY <1>2 DEF Waiting
  <2> QED BY <1>0, <2>1, QueueStays
<1>4. IdInv' /\ TableInv'
  BY <1>0, IdsStay DEF Has
<1>5. \A j \in Calls : Gone(j) => Gone(j)'
  BY <1>0 DEF Gone, Home
<1>6. \A j \in Calls \ {k} : CallOK(j)'
  BY <1>0, <1>1, <1>2, <1>5, CallStays DEF CallInv
<1>7. CallOK(k)'
  <2> USE DEF CallInv
  <2>1. CASE Submitted(k)
    BY <1>0, <1>1, <2>1 DEF Submitted, Replied, CallOK, Callers, Has, Waiting
  <2>2. CASE Polled(k)
    <3>1. CASE Return(k, "error")
      BY <1>1, <3>1, ReturnOwn
    <3>2. CASE pc' = [pc EXCEPT ![k] = "check"] /\ UNCHANGED answer
      BY <1>0, <1>1, <2>2, <3>2 DEF Polled, Replied, CallOK, Callers, Has, Waiting
    <3> QED BY <2>2, <3>1, <3>2 DEF Polled, Listen
  <2>3. CASE Checked(k)
    BY <1>0, <1>1, <2>3 DEF Checked, Replied, Decide, CallOK, Callers, Has, Waiting
  <2>4. CASE Fetched(k) /\ reply[k].what = "ok"
    BY <1>0, <1>1, <2>4 DEF Fetched, Replied, CallOK, Callers, Has, Waiting
  <2>5. CASE Fetched(k) /\ reply[k].what = "undone"
    BY <1>0, <1>1, <2>5 DEF Fetched, Replied, callerVars, CallOK, Has, Waiting
  <2>6. CASE Deleted(k)
    <3>1. fetched[k] = k /\ task'[k] = "ended" /\ Gone(k)'
      BY <1>0, <1>5, <2>6 DEF Deleted, Replied, CallOK
    <3> QED BY <1>1, <2>6, <3>1, ReturnOwn DEF Deleted
  <2>7. CASE Refused(k) \/ Break(k)
    BY <1>1, <2>7, ReturnOwn DEF Refused, Break
  <2> QED BY <2>1, <2>2, <2>3, <2>4, <2>5, <2>6, <2>7 DEF RemoteStep, Fetched
<1> QED BY <1>3, <1>4, <1>6, <1>7 DEF CallInv

(* The only remote task is gone, and with it whatever was kept of it.       *)
LEMMA OwnRestart ==
  ASSUME OInv, NoIdAgain, Restart
  PROVE  QueueInv' /\ IdInv' /\ TableInv' /\ CallInv'
<1> USE DEF OInv, TInv, Parts
<1>1. /\ UNCHANGED <<queue, pc, fetched, answer, id, reply>>
      /\ restarts \in Nat /\ restarts' = restarts + 1
      /\ tasks' = Empty /\ logs' = [logs EXCEPT !["agent"] = Empty]
      /\ nextId' = [nextId EXCEPT !["agent"] = 0]
      /\ \A k \in Calls : task'[k] = IF k \in Remote /\ task[k] = "running" THEN "killed" ELSE task[k]
  BY DEF Restart, callerVars
<1>2. \A j, k \in Remote : j = k
  BY CallsAssumption DEF Restart, NoIdAgain
<1>3. \A k \in Calls : Has(k)' <=> Has(k)
  BY <1>1 DEF Has
<1>4. QueueInv'
  BY <1>1, QueueStays
<1>5. TableInv'
  BY <1>1 DEF TableInv, Empty
<1>6. ASSUME NEW k \in Calls, Has(k)
      PROVE  /\ id'[k] < nextId'[Home(k)] \/ Forgotten(k)'
             /\ \A j \in Calls : Has(j) /\ Home(j) = Home(k) /\ id'[j] = id'[k] => j = k
  <2>1. CASE k \in Remote
    <3>1. task[k] \in {"running", "ended", "killed"}
      BY <1>6, <2>1 DEF Tasks, Has, NoneQueued
    <3> QED BY <1>1, <1>2, <2>1, <3>1 DEF Forgotten, Home
  <2>2. CASE k \notin Remote
    BY <1>1, <1>6, <2>2 DEF IdInv, Forgotten, Home
  <2> QED BY <2>1, <2>2
<1>7. IdInv'
  BY <1>3, <1>6 DEF IdInv, Home
<1>8. ASSUME NEW k \in Calls
      PROVE  CallOK(k)'
  <2>1. Gone(k) => Gone(k)'
    BY <1>1 DEF Gone, Empty, LogsOK
  <2>2. task[k] = "ended" => task'[k] = "ended"
    BY <1>1
  <2> QED BY <1>1, <1>3, <2>1, <2>2 DEF CallInv, CallOK
<1> QED BY <1>4, <1>5, <1>7, <1>8 DEF CallInv

LEMMA StartedAtOnce ==
  ASSUME TInv, NoneQueued, [Next]_vars
  PROVE  NoneQueued'
<1>1. ASSUME NEW k \in Calls,
             \/ Invoke(k) \/ TakeCaller(k) \/ TakeTask(k) \/ Log(k) \/ End(k)
             \/ LocalStep(k) \/ Handle(k) \/ RemoteStep(k)
      PROVE  NoneQueued'
  <2>1. \/ task' = task
        \/ task' = [task EXCEPT ![k] = "running"]
        \/ task' = [task EXCEPT ![k] = "ended"]
        \/ k \in Local /\ task' = [task EXCEPT ![k] = "queued"]
    <3>1. CASE Invoke(k) \/ TakeCaller(k) \/ TakeTask(k) \/ Log(k) \/ End(k)
      BY <3>1 DEF Invoke, TakeCaller, TakeTask, Log, End, taskVars
    <3>2. CASE LocalStep(k)
      BY <3>2 DEF LocalStep, Submit, PollLogs, IsDone, Get, taskVars
    <3>3. CASE Handle(k)
      BY <3>3 DEF Handle, HandleSubmit, HandlePollLog, HandleGetTask, HandleDeleteTask, taskVars
    <3>4. CASE RemoteStep(k)
      BY <3>4 DEF RemoteStep, Submitted, Polled, Checked, Fetched, Deleted, Refused, Break,
         Replied, taskVars
    <3> QED BY <1>1, <3>1, <3>2, <3>3, <3>4
  <2>2. task \in [Calls -> {"none", "queued", "running", "ended", "killed"}]
    BY DEF TInv, Parts, Tasks
  <2> QED BY <2>1, <2>2, CallsAssumption DEF NoneQueued, Local
<1>2. CASE Restart
  BY <1>2, CallsAssumption DEF Restart, NoneQueued
<1>3. CASE UNCHANGED vars
  BY <1>3 DEF NoneQueued, vars, taskVars
<1> QED BY <1>1, <1>2, <1>3 DEF Next

LEMMA OwnStep ==
  ASSUME NoIdAgain
  PROVE  OInv /\ [Next]_vars => OInv'
<1> SUFFICES ASSUME OInv, [Next]_vars PROVE OInv'
  OBVIOUS
<1>1. TInv' /\ NoneQueued'
  BY TypeStep, StartedAtOnce DEF OInv
<1>2. ASSUME NEW k \in Calls,
             Invoke(k) \/ TakeCaller(k) \/ TakeTask(k) \/ Log(k) \/ End(k)
      PROVE  OInv'
  BY <1>1, <1>2, OwnPool DEF OInv
<1>3. ASSUME NEW k \in Calls, LocalStep(k) \/ Handle(k) \/ RemoteStep(k) PROVE OInv'
  BY <1>1, <1>3, OwnLocal, OwnHandle, OwnRemote DEF OInv
<1>4. CASE Restart
  BY <1>1, <1>4, OwnRestart DEF OInv
<1>5. CASE UNCHANGED vars
  BY <1>5 DEF OInv, TInv, Parts, vars, callerVars, taskVars, storeVars, Callers, Tasks, LogsOK,
     TasksOK, Outcomes, QueueInv, IdInv, Forgotten, TableInv, CallInv, CallOK, Gone, Has, Home,
     NoneQueued
<1> QED BY <1>2, <1>3, <1>4, <1>5 DEF Next

(* A caller gets the outcome of its own task or an error, however requests  *)
(* and replies are lost, if the agent is not restarted or only one call is  *)
(* remote.                                                                  *)
THEOREM OwnOutcomes ==
  ASSUME NoIdAgain
  PROVE  Spec => []OwnOutcome
<1>1. OInv => OwnOutcome
  BY DEF OInv, CallInv, CallOK, OwnOutcome
<1>2. OInv /\ [Next]_vars => OInv'
  BY OwnStep
<1> QED BY OwnInit, <1>1, <1>2, PTL DEF Spec

(* And a caller that got an outcome leaves no log events and no task.       *)
THEOREM NothingIsKept ==
  ASSUME NoIdAgain
  PROVE  Spec => []NothingKept
<1>1. OInv => NothingKept
  BY CallsAssumption DEF OInv, CallInv, CallOK, Gone, NothingKept
<1>2. OInv /\ [Next]_vars => OInv'
  BY OwnStep
<1> QED BY OwnInit, <1>1, <1>2, PTL DEF Spec
-----------------------------------------------------------------------------
(* What a caller has heard, what a reply brings and what its process keeps  *)
(* for it are the events of its task, in order and without gaps.            *)

Contiguous(s, k, n) == \A i \in 1 .. Len(s) : s[i] = Event(k, n + i)
Over(t) == t \in {"ended", "killed"}

(* h was heard, r is on its way, q is kept, and m events of k were logged;  *)
(* of a task that is over the last events may be missing.                   *)
InOrder(k, h, r, q, m, t) ==
  /\ Contiguous(h, k, 0)
  /\ Contiguous(r, k, Len(h))
  /\ Contiguous(q, k, Len(h) + Len(r))
  /\ Len(h) + Len(r) + Len(q) <= m
  /\ ~ Over(t) => Len(h) + Len(r) + Len(q) = m

QueueOf(l, p, i) == IF i \in DOMAIN l[p] THEN l[p][i] ELSE <<>>
Queued(k) == IF Has(k) THEN QueueOf(logs, Home(k), id[k]) ELSE <<>>
Heard(k) ==
  /\ Contiguous(heard[k], k, 0) /\ Len(heard[k]) <= made[k]
  /\ reply[k].events # <<>> => pc[k] = "poll"
  /\ pc[k] # "over" =>
       /\ answer[k] = "none"
       /\ InOrder(k, heard[k], reply[k].events, Queued(k), made[k], task[k])

(* A queue of events belongs to an id that was given.                       *)
LogIds == \A p \in Processes : \A i \in DOMAIN logs[p] : i < nextId[p]

HInv == OInv /\ LogIds /\ \A k \in Calls : Heard(k)

LEMMA LenOfEvents == \A s \in Seq(Events) : Len(s) \in Nat
BY LenProperties

LEMMA EmptyContiguous == \A k, n : Contiguous(<<>>, k, n) /\ Len(<<>>) = 0
BY DEF Contiguous

LEMMA ContiguousConcat ==
  ASSUME NEW k, NEW a \in Seq(Events), NEW b \in Seq(Events), NEW n \in Nat,
         Contiguous(a, k, n), Contiguous(b, k, n + Len(a))
  PROVE  Contiguous(a \o b, k, n) /\ Len(a \o b) = Len(a) + Len(b)
<1>1. /\ Len(a \o b) = Len(a) + Len(b)
      /\ \A i \in 1 .. Len(a) + Len(b) : (a \o b)[i] = IF i <= Len(a) THEN a[i] ELSE b[i - Len(a)]
      /\ Len(a) \in Nat /\ Len(b) \in Nat
  BY ConcatProperties, LenOfEvents
<1>2. ASSUME NEW i \in 1 .. Len(a) + Len(b)
      PROVE  (a \o b)[i] = Event(k, n + i)
  <2>1. CASE i <= Len(a)
    BY <1>1, <1>2, <2>1 DEF Contiguous
  <2>2. CASE i > Len(a)
    <3>1. i - Len(a) \in 1 .. Len(b) /\ n + Len(a) + (i - Len(a)) = n + i
      BY <1>1, <1>2, <2>2
    <3>2. b[i - Len(a)] = Event(k, n + i)
      BY <3>1 DEF Contiguous
    <3> QED BY <1>1, <1>2, <2>2, <3>2
  <2> QED BY <1>1, <2>1, <2>2
<1> QED BY <1>1, <1>2 DEF Contiguous

LEMMA ContiguousAppend ==
  ASSUME NEW k, NEW a \in Seq(Events), NEW n \in Nat, Contiguous(a, k, n),
         Event(k, n + Len(a) + 1) \in Events
  PROVE  /\ Contiguous(Append(a, Event(k, n + Len(a) + 1)), k, n)
         /\ Len(Append(a, Event(k, n + Len(a) + 1))) = Len(a) + 1
<1> DEFINE x == Event(k, n + Len(a) + 1)
<1>1. /\ Len(Append(a, x)) = Len(a) + 1
      /\ \A i \in 1 .. Len(a) : Append(a, x)[i] = a[i]
      /\ Append(a, x)[Len(a) + 1] = x
      /\ Len(a) \in Nat
  BY AppendProperties, LenOfEvents
<1>2. ASSUME NEW i \in 1 .. Len(a) + 1
      PROVE  Append(a, x)[i] = Event(k, n + i)
  <2> HIDE DEF x
  <2>1. CASE i \in 1 .. Len(a)
    BY <1>1, <2>1 DEF Contiguous
  <2>2. CASE i = Len(a) + 1
    BY <1>1, <2>2 DEF x
  <2> QED BY <1>1, <2>1, <2>2
<1> QED BY <1>1, <1>2 DEF Contiguous

LEMMA OrderOfHeard ==
  ASSUME NEW k, NEW h \in Seq(Events), NEW r \in Seq(Events), NEW q \in Seq(Events),
         NEW m \in Nat, NEW t, InOrder(k, h, r, q, m, t)
  PROVE  /\ Len(h) <= m /\ Len(h) + Len(r) <= m
         /\ InOrder(k, h \o r, <<>>, q, m, t)
         /\ r = <<>> => InOrder(k, h, q, <<>>, m, t) /\ InOrder(k, h \o q, <<>>, <<>>, m, t)
         /\ \A u : Over(u) => InOrder(k, h, r, q, m, u) /\ InOrder(k, h, r, <<>>, m, u)
<1>1. Len(h) \in Nat /\ Len(r) \in Nat /\ Len(q) \in Nat
  BY LenOfEvents
<1>2. Contiguous(h \o r, k, 0) /\ Len(h \o r) = Len(h) + Len(r)
  BY ContiguousConcat, <1>1 DEF InOrder
<1>3. r = <<>> => Contiguous(q, k, Len(h)) /\ Len(r) = 0
  BY <1>1 DEF InOrder
<1>4. r = <<>> => Contiguous(h \o q, k, 0) /\ Len(h \o q) = Len(h) + Len(q)
  BY ContiguousConcat, <1>1, <1>3 DEF InOrder
<1> QED BY <1>1, <1>2, <1>3, <1>4, EmptyContiguous DEF InOrder

LEMMA OrderOfLogged ==
  ASSUME NEW k \in Calls, NEW h \in Seq(Events), NEW r \in Seq(Events), NEW q \in Seq(Events),
         NEW m \in Nat, InOrder(k, h, r, q, m, "running")
  PROVE  InOrder(k, h, r, Append(q, Event(k, m + 1)), m + 1, "running")
<1>1. Len(h) \in Nat /\ Len(r) \in Nat /\ Len(q) \in Nat
  BY LenOfEvents
<1>2. m = Len(h) + Len(r) + Len(q)
  BY DEF InOrder, Over
<1>3. Event(k, m + 1) \in Events
  BY DEF Event, Events
<1>4. /\ Contiguous(Append(q, Event(k, m + 1)), k, Len(h) + Len(r))
      /\ Len(Append(q, Event(k, m + 1))) = Len(q) + 1
  <2> DEFINE n == Len(h) + Len(r)
  <2>1. n \in Nat /\ Contiguous(q, k, n)
    BY <1>1 DEF InOrder
  <2>2. m + 1 = n + Len(q) + 1
    BY <1>2
  <2> HIDE DEF n
  <2>3. Event(k, n + Len(q) + 1) \in Events
    BY <1>3, <2>2
  <2>4. /\ Contiguous(Append(q, Event(k, n + Len(q) + 1)), k, n)
        /\ Len(Append(q, Event(k, n + Len(q) + 1))) = Len(q) + 1
    BY <2>1, <2>3, ContiguousAppend
  <2>5. Contiguous(Append(q, Event(k, m + 1)), k, n) /\ Len(Append(q, Event(k, m + 1))) = Len(q) + 1
    BY <2>2, <2>4
  <2> QED BY <2>5 DEF n
<1> QED BY <1>1, <1>2, <1>4 DEF InOrder

-----------------------------------------------------------------------------
(* The queues of events.                                                    *)

LEMMA QueueIsDrained == \A p, i : Drained(p, i) = QueueOf(logs, p, i)
BY DEF Drained, QueueOf

LEMMA Emptied ==
  ASSUME LogsOK, NEW p \in Processes, NEW i, Drain(p, i) \/ DeleteLogs(p, i)
  PROVE  /\ QueueOf(logs', p, i) = <<>>
         /\ \A q \in Processes : \A j :
              q # p \/ j # i => QueueOf(logs', q, j) = QueueOf(logs, q, j)
<1>1. CASE DeleteLogs(p, i)
  <2>1. logs' = [logs EXCEPT ![p] = [j \in DOMAIN logs[p] \ {i} |-> logs[p][j]]]
    BY <1>1 DEF DeleteLogs, Without
  <2> QED BY <2>1 DEF LogsOK, QueueOf
<1>2. CASE Drain(p, i) /\ i \in DOMAIN logs[p]
  <2>1. logs' = [logs EXCEPT ![p] = [logs[p] EXCEPT ![i] = <<>>]]
    BY <1>2 DEF Drain
  <2> QED BY <1>2, <2>1 DEF LogsOK, QueueOf
<1>3. CASE Drain(p, i) /\ i \notin DOMAIN logs[p]
  BY <1>3 DEF Drain, QueueOf
<1> QED BY <1>1, <1>2, <1>3

LEMMA Logged ==
  ASSUME LogsOK, NEW k \in Calls, Log(k)
  PROVE  /\ QueueOf(logs', Home(k), id[k]) =
              Append(QueueOf(logs, Home(k), id[k]), Event(k, made[k] + 1))
         /\ \A q \in Processes : \A j :
              q # Home(k) \/ j # id[k] => QueueOf(logs', q, j) = QueueOf(logs, q, j)
         /\ \A q \in Processes : \A j \in DOMAIN logs'[q] :
              j \in DOMAIN logs[q] \/ (q = Home(k) /\ j = id[k])
<1> DEFINE x == Append(QueueOf(logs, Home(k), id[k]), Event(k, made[k] + 1))
<1>1. logs' = [logs EXCEPT ![Home(k)] =
        [i \in DOMAIN logs[Home(k)] \cup {id[k]} |-> IF i = id[k] THEN x ELSE logs[Home(k)][i]]]
  BY QueueIsDrained DEF Log
<1>2. Home(k) \in Processes
  BY HomeIsProcess
<1> HIDE DEF x
<1>3. /\ QueueOf(logs', Home(k), id[k]) = x
      /\ \A q \in Processes : \A j :
           q # Home(k) \/ j # id[k] => QueueOf(logs', q, j) = QueueOf(logs, q, j)
      /\ \A q \in Processes : \A j \in DOMAIN logs'[q] :
           j \in DOMAIN logs[q] \/ (q = Home(k) /\ j = id[k])
  BY <1>1, <1>2 DEF LogsOK, QueueOf
<1> QED BY <1>3 DEF x

LEMMA QueueType ==
  ASSUME TInv, NEW k \in Calls
  PROVE  /\ Queued(k) \in Seq(Events) /\ heard[k] \in Seq(Events)
         /\ reply[k].events \in Seq(Events) /\ made[k] \in Nat
         /\ Len(heard[k]) \in Nat
<1>1. Queued(k) \in Seq(Events)
  BY EmptyEvents, HomeIsProcess DEF Queued, QueueOf, TInv, Parts, LogsOK
<1>2. reply[k] \in Replies
  BY DEF TInv, Parts
<1> QED BY <1>1, <1>2, LenOfEvents DEF TInv, Parts, Callers, Tasks, Replies

(* The queue of another call.                                               *)
LEMMA QueueOfAnother ==
  ASSUME OInv, NEW k \in Calls, NEW j \in Calls \ {k}, Has(k), Has(j), id'[j] = id[j],
         \A q \in Processes : \A i :
              q # Home(k) \/ i # id[k] => QueueOf(logs', q, i) = QueueOf(logs, q, i)
  PROVE  QueueOf(logs', Home(j), id'[j]) = QueueOf(logs, Home(j), id[j])
BY HomeIsProcess DEF OInv, IdInv

LEMMA HeardStays ==
  ASSUME NEW k \in Calls, Heard(k), heard'[k] = heard[k], made'[k] = made[k],
         reply'[k] = reply[k], Queued(k)' = Queued(k),
         answer'[k] = answer[k] \/ pc'[k] = "over",
         task'[k] = task[k] \/ Over(task'[k]) \/ (~ Over(task[k]) /\ ~ Over(task'[k])),
         \/ pc'[k] = pc[k]
         \/ reply[k].events = <<>> /\ (pc[k] # "over" \/ pc'[k] = "over")
  PROVE  Heard(k)'
BY DEF Heard, InOrder, Over

-----------------------------------------------------------------------------
(* Every action keeps what was heard in order.                              *)

LEMMA HearFacts ==
  ASSUME HInv, NEW k \in Calls
  PROVE  /\ OInv /\ TInv /\ LogIds /\ Heard(k) /\ CallOK(k)
         /\ LogsOK /\ Callers /\ Tasks /\ reply \in [Calls -> Replies]
         /\ pc[k] \notin Waiting => reply[k].events = <<>>
BY DEF HInv, OInv, TInv, Parts, CallInv, CallOK, NoReply, Reply

LEMMA LogIdsStay ==
  ASSUME LogIds, UNCHANGED nextId,
         \A p \in Processes : DOMAIN logs'[p] \subseteq DOMAIN logs[p]
  PROVE  LogIds'
BY DEF LogIds

LEMMA QueuedStays ==
  ASSUME NEW k \in Calls, task'[k] = "none" <=> task[k] = "none", id'[k] = id[k],
         QueueOf(logs', Home(k), id'[k]) = QueueOf(logs, Home(k), id[k])
  PROVE  Queued(k)' = Queued(k)
BY DEF Queued, Has, Home

LEMMA HearPool ==
  ASSUME HInv, NEW k \in Calls, Invoke(k) \/ TakeCaller(k) \/ TakeTask(k) \/ End(k)
  PROVE  LogIds' /\ \A j \in Calls : Heard(j)'
<1>1. /\ UNCHANGED <<heard, made, reply, answer, logs, id, nextId>>
      /\ \A j \in Calls \ {k} : pc'[j] = pc[j] /\ task'[j] = task[j]
  BY HearFacts DEF Invoke, TakeCaller, TakeTask, End, taskVars, storeVars, callerVars, Callers, Tasks
<1>2. /\ \/ pc'[k] = pc[k]
         \/ pc[k] \in {"idle", "queued"} /\ pc'[k] # "over"
      /\ \/ task'[k] = task[k]
         \/ task[k] \in {"queued", "running"} /\ task'[k] \in {"running", "ended"}
  <2>1. CASE Invoke(k)
    BY <2>1, HearFacts DEF Invoke, taskVars, Callers
  <2>2. CASE TakeCaller(k)
    <3>1. pc[k] = "queued"
      BY <2>2, HearFacts, Taken DEF TakeCaller, OInv, TInv, Parts, QueueInv
    <3> QED BY <2>2, <3>1, HearFacts DEF TakeCaller, taskVars, Callers
  <2>3. CASE TakeTask(k)
    <3>1. task[k] = "queued"
      BY <2>3, HearFacts, Taken DEF TakeTask, OInv, TInv, Parts, QueueInv
    <3> QED BY <2>3, <3>1, HearFacts DEF TakeTask, callerVars, Tasks
  <2>4. CASE End(k)
    BY <2>4, HearFacts DEF End, callerVars, Tasks
  <2> QED BY <2>1, <2>2, <2>3, <2>4
<1>3. ASSUME NEW j \in Calls
      PROVE  Heard(j)'
  <2>1. task'[j] = "none" <=> task[j] = "none"
    BY <1>1, <1>2
  <2>2. Queued(j)' = Queued(j)
    BY <1>1, <2>1, QueuedStays
  <2>3. /\ \/ pc'[j] = pc[j]
           \/ reply[j].events = <<>> /\ (pc[j] # "over" \/ pc'[j] = "over")
        /\ task'[j] = task[j] \/ Over(task'[j]) \/ (~ Over(task[j]) /\ ~ Over(task'[j]))
    BY <1>1, <1>2, HearFacts DEF Waiting, Over
  <2> QED BY <1>1, <2>2, <2>3, HearFacts, HeardStays
<1>4. LogIds'
  BY <1>1, HearFacts DEF LogIds
<1> QED BY <1>3, <1>4

LEMMA HearLog ==
  ASSUME HInv, NEW k \in Calls, Log(k)
  PROVE  LogIds' /\ \A j \in Calls : Heard(j)'
<1>1. /\ task[k] = "running" /\ Has(k) /\ made' = [made EXCEPT ![k] = made[k] + 1]
      /\ UNCHANGED <<heard, pc, reply, answer, task, id, nextId>>
  BY DEF Log, Has, callerVars
<1>2. /\ QueueOf(logs', Home(k), id[k]) =
           Append(QueueOf(logs, Home(k), id[k]), Event(k, made[k] + 1))
      /\ \A q \in Processes : \A j :
           q # Home(k) \/ j # id[k] => QueueOf(logs', q, j) = QueueOf(logs, q, j)
      /\ \A q \in Processes : \A j \in DOMAIN logs'[q] :
           j \in DOMAIN logs[q] \/ (q = Home(k) /\ j = id[k])
  BY HearFacts, Logged
<1>3. LogIds'
  <2>1. id[k] < nextId[Home(k)]
    BY <1>1, HearFacts DEF OInv, IdInv, Forgotten
  <2> QED BY <1>1, <1>2, <2>1, HearFacts DEF LogIds
<1>4. ASSUME NEW j \in Calls \ {k}
      PROVE  Heard(j)'
  <2>1. Has(j) => QueueOf(logs', Home(j), id'[j]) = QueueOf(logs, Home(j), id[j])
    BY <1>1, <1>2, HearFacts, QueueOfAnother
  <2>2. Queued(j)' = Queued(j)
    BY <1>1, <2>1 DEF Queued, Has, Home
  <2>3. made'[j] = made[j]
    BY <1>1, HearFacts DEF Tasks
  <2> QED BY <1>1, <2>2, <2>3, HearFacts, HeardStays
<1>5. Heard(k)'
  <2>1. /\ Queued(k) \in Seq(Events) /\ heard[k] \in Seq(Events)
        /\ reply[k].events \in Seq(Events) /\ made[k] \in Nat /\ Len(heard[k]) \in Nat
    BY HearFacts, QueueType
  <2>2. Queued(k)' = Append(Queued(k), Event(k, made[k] + 1))
    BY <1>1, <1>2 DEF Queued, Has, Home
  <2>3. made'[k] = made[k] + 1
    BY <1>1, HearFacts DEF Tasks
  <2>4. pc[k] # "over" => InOrder(k, heard[k], reply[k].events,
                                  Append(Queued(k), Event(k, made[k] + 1)), made[k] + 1, "running")
    BY <1>1, <2>1, HearFacts, OrderOfLogged DEF Heard
  <2> QED BY <1>1, <2>1, <2>2, <2>3, <2>4, HearFacts DEF Heard
<1> QED BY <1>3, <1>4, <1>5

(* createID.                                                                *)
LEMMA HearStarted ==
  ASSUME HInv, NoIdAgain, NEW k \in Calls, ~ Has(k), CreateID(k), pc[k] = "submit",
         pc'[k] # "over", reply'[k].events = <<>>, task'[k] \in {"queued", "running"},
         UNCHANGED <<heard, made, answer, logs, restarts>>,
         \A j \in Calls \ {k} : pc'[j] = pc[j] /\ task'[j] = task[j] /\ reply'[j] = reply[j]
  PROVE  LogIds' /\ \A j \in Calls : Heard(j)'
<1>1. /\ IdInv' /\ id'[k] = nextId[Home(k)]
      /\ \A j \in Calls \ {k} : id'[j] = id[j]
  BY HearFacts, NewId DEF OInv, Has
<1>2. \A p \in Processes : nextId[p] \in Nat /\ nextId'[p] \in {nextId[p], nextId[p] + 1}
  BY HearFacts, HomeIsProcess DEF CreateID, TInv, Parts
<1>3. LogIds'
  <2>1. ASSUME NEW p \in Processes, NEW i \in DOMAIN logs[p]
        PROVE  i < nextId'[p]
    <3>1. i \in Nat /\ i < nextId[p]
      BY HearFacts DEF LogIds, LogsOK
    <3> QED BY <1>2, <3>1
  <2> QED BY <2>1 DEF LogIds
<1>4. ASSUME NEW j \in Calls \ {k}
      PROVE  Heard(j)'
  <2>1. Queued(j)' = Queued(j)
    BY <1>1, QueuedStays
  <2> QED BY <2>1, HearFacts, HeardStays
<1>5. Heard(k)'
  <2>1. id'[k] \notin DOMAIN logs[Home(k)]
    BY <1>1, <1>2, HearFacts, HomeIsProcess DEF LogIds
  <2>2. Queued(k) = <<>> /\ Queued(k)' = <<>>
    BY <2>1 DEF Queued, QueueOf, Has, Home
  <2>3. reply[k].events = <<>> /\ Heard(k) /\ ~ Over(task[k]) /\ ~ Over(task'[k])
    BY HearFacts DEF Heard, Has, Over
  <2> QED BY <2>2, <2>3 DEF Heard, InOrder
<1> QED BY <1>3, <1>4, <1>5

(* A caller gives up, or has its answer.                                    *)
LEMMA HeardOver ==
  ASSUME HInv, NEW k \in Calls, pc'[k] = "over", reply'[k].events = <<>>,
         heard'[k] = heard[k], made'[k] = made[k]
  PROVE  Heard(k)'
BY HearFacts DEF Heard

(* What becomes of its queue is nothing to the others.                      *)
LEMMA QueuesApart ==
  ASSUME HInv, NEW k \in Calls, Has(k), UNCHANGED <<made, task, id>>,
         UNCHANGED logs \/ Drain(Home(k), id[k]) \/ DeleteLogs(Home(k), id[k]),
         NEW j \in Calls \ {k},
         heard'[j] = heard[j], pc'[j] = pc[j], answer'[j] = answer[j], reply'[j] = reply[j]
  PROVE  Heard(j)'
<1>1. \A q \in Processes : \A i :
        q # Home(k) \/ i # id[k] => QueueOf(logs', q, i) = QueueOf(logs, q, i)
  BY HearFacts, HomeIsProcess, Emptied
<1>2. Has(j) => QueueOf(logs', Home(j), id'[j]) = QueueOf(logs, Home(j), id[j])
  BY <1>1, HearFacts, QueueOfAnother
<1>3. Queued(j)' = Queued(j)
  BY <1>2 DEF Queued, Has, Home
<1> QED BY <1>3, HearFacts, HeardStays

-----------------------------------------------------------------------------
LEMMA HearLocal ==
  ASSUME HInv, NoIdAgain, NEW k \in Calls, LocalStep(k)
  PROVE  LogIds' /\ \A j \in Calls : Heard(j)'
<1>0. /\ k \in Local /\ Home(k) = "manager" /\ "manager" \in Processes
      /\ UNCHANGED reply /\ reply[k].events = <<>>
  BY HearFacts DEF LocalStep, Submit, PollLogs, IsDone, Get, Local, Home, TInv, Outcomes,
     Processes, storeVars, NoReply, Reply
<1>1. CASE Submit(k)
  <2>1. pc[k] = "submit" /\ ~ Has(k) /\ CreateID(k)
        /\ UNCHANGED <<heard, made, answer, logs, restarts>>
    BY <1>0, <1>1, HearFacts DEF Submit, CallOK, TInv, Outcomes
  <2>2. /\ pc'[k] = "poll" /\ task'[k] = "queued"
        /\ \A j \in Calls \ {k} : pc'[j] = pc[j] /\ task'[j] = task[j]
    BY <1>1, HearFacts DEF Submit, Callers, Tasks
  <2> QED BY <1>0, <2>1, <2>2, HearStarted
<1>2. CASE PollLogs(k)
  <2>1. /\ Has(k) /\ pc[k] = "poll" /\ UNCHANGED <<made, task, id, nextId>>
        /\ Drain(Home(k), id[k]) /\ Listen(k, Queued(k))
    BY <1>0, <1>2, HearFacts, QueueIsDrained DEF PollLogs, CallOK, Queued, taskVars
  <2>2. QueueOf(logs', Home(k), id[k]) = <<>>
    BY <1>0, <2>1, HearFacts, Emptied
  <2>3. Queued(k)' = <<>>
    BY <2>1, <2>2 DEF Queued, Has, Home
  <2>4. LogIds'
    BY <1>0, <2>1, HearFacts, DrainType, LogIdsStay
  <2>5. /\ Queued(k) \in Seq(Events) /\ heard[k] \in Seq(Events)
        /\ reply[k].events \in Seq(Events) /\ made[k] \in Nat
    BY HearFacts, QueueType
  <2>6. CASE Return(k, "error")
    <3>1. /\ pc'[k] = "over" /\ heard' = heard
          /\ \A j \in Calls \ {k} : pc'[j] = pc[j] /\ answer'[j] = answer[j]
      BY <2>6, HearFacts DEF Return, Callers
    <3>2. Heard(k)'
      BY <1>0, <2>1, <3>1, HeardOver
    <3>3. ASSUME NEW j \in Calls \ {k}
          PROVE  Heard(j)'
      BY <1>0, <2>1, <3>1, QueuesApart
    <3> QED BY <2>4, <3>2, <3>3
  <2>7. CASE /\ heard' = [heard EXCEPT ![k] = @ \o Queued(k)]
             /\ pc' = [pc EXCEPT ![k] = "check"]
             /\ UNCHANGED <<fetched, answer>>
    <3>1. /\ heard'[k] = heard[k] \o Queued(k) /\ pc'[k] = "check"
          /\ \A j \in Calls \ {k} : heard'[j] = heard[j] /\ pc'[j] = pc[j]
      BY <2>7, HearFacts DEF Callers
    <3>2. InOrder(k, heard[k], <<>>, Queued(k), made[k], task[k])
      BY <1>0, <2>1, HearFacts DEF Heard
    <3>3. InOrder(k, heard'[k], <<>>, <<>>, made[k], task[k])
      BY <2>5, <3>1, <3>2, EmptyEvents, OrderOfHeard
    <3>4. heard'[k] \in Seq(Events)
      BY <2>5, <3>1, ConcatProperties
    <3>5. Contiguous(heard'[k], k, 0) /\ Len(heard'[k]) <= made[k]
      BY <2>5, <3>3, <3>4, EmptyEvents, OrderOfHeard DEF InOrder
    <3>6. answer'[k] = "none" /\ reply'[k].events = <<>> /\ made'[k] = made[k] /\ task'[k] = task[k]
      BY <1>0, <2>1, <2>7, HearFacts DEF Heard
    <3>7. Heard(k)'
      BY <2>3, <3>3, <3>5, <3>6 DEF Heard
    <3>8. ASSUME NEW j \in Calls \ {k}
          PROVE  Heard(j)'
      BY <1>0, <2>1, <2>7, <3>1, QueuesApart
    <3> QED BY <2>4, <3>7, <3>8
  <2> QED BY <2>1, <2>6, <2>7 DEF Listen
<1>3. CASE IsDone(k)
  <2>1. /\ UNCHANGED <<heard, made, answer, task, id, nextId, logs>>
        /\ pc[k] = "check" /\ pc'[k] # "over" /\ \A j \in Calls \ {k} : pc'[j] = pc[j]
    BY <1>3, HearFacts DEF IsDone, Decide, taskVars, storeVars, Callers
  <2>2. \A j \in Calls : Queued(j)' = Queued(j)
    BY <2>1 DEF Queued, Has, Home
  <2>3. LogIds'
    BY <2>1, HearFacts DEF LogIds
  <2>4. ASSUME NEW j \in Calls
        PROVE  Heard(j)'
    BY <1>0, <2>1, <2>2, HearFacts, HeardStays
  <2> QED BY <2>3, <2>4
<1>4. CASE Get(k)
  <2>1. /\ UNCHANGED <<heard, made, task, id, nextId>> /\ DeleteLogs(Home(k), id[k]) /\ Has(k)
        /\ pc'[k] = "over"
        /\ \A j \in Calls \ {k} : pc'[j] = pc[j] /\ answer'[j] = answer[j]
    BY <1>0, <1>4, HearFacts DEF Get, Return, taskVars, Callers, Has
  <2>2. LogIds'
    BY <1>0, <2>1, HearFacts, DeleteLogsType, LogIdsStay
  <2>3. Heard(k)'
    BY <1>0, <2>1, HeardOver
  <2>4. ASSUME NEW j \in Calls \ {k}
        PROVE  Heard(j)'
    BY <1>0, <2>1, QueuesApart
  <2> QED BY <2>2, <2>3, <2>4
<1> QED BY <1>1, <1>2, <1>3, <1>4 DEF LocalStep

-----------------------------------------------------------------------------
LEMMA HearHandle ==
  ASSUME HInv, NoIdAgain, NEW k \in Calls, Handle(k)
  PROVE  LogIds' /\ \A j \in Calls : Heard(j)'
<1>0. /\ k \in Remote /\ Home(k) = "agent" /\ "agent" \in Processes
      /\ reply[k].events = <<>>
      /\ UNCHANGED <<heard, pc, answer, made, restarts>>
      /\ \A j \in Calls \ {k} : reply'[j] = reply[j]
      /\ pc[k] \in {"submit", "poll", "check", "get", "delete"}
  BY HearFacts DEF Handle, HandleSubmit, HandlePollLog, HandleGetTask, HandleDeleteTask, Requested,
     Respond, Home, Processes, callerVars, taskVars, NoReply, Reply
<1>1. CASE HandleSubmit(k)
  <2>1. pc[k] = "submit" /\ ~ Has(k) /\ CreateID(k) /\ UNCHANGED logs
    BY <1>1, HearFacts DEF HandleSubmit, Requested, CallOK
  <2>2. /\ task'[k] = "running" /\ \A j \in Calls \ {k} : task'[j] = task[j]
        /\ reply'[k].events = <<>>
    BY <1>1, HearFacts DEF HandleSubmit, Respond, Reply, Tasks
  <2> QED BY <1>0, <2>1, <2>2, HearStarted
<1>2. CASE HandlePollLog(k) \/ HandleGetTask(k) \/ HandleDeleteTask(k)
  <2>1. /\ UNCHANGED <<task, id, nextId>> /\ Has(k)
        /\ UNCHANGED logs \/ Drain(Home(k), id[k]) \/ DeleteLogs(Home(k), id[k])
    BY <1>0, <1>2, HearFacts DEF HandlePollLog, HandleGetTask, HandleDeleteTask, Requested, CallOK,
       taskVars
  <2>2. LogIds'
    BY <1>0, <2>1, HearFacts, DrainType, DeleteLogsType, LogIdsStay
  <2>3. ASSUME NEW j \in Calls \ {k}
        PROVE  Heard(j)'
    BY <1>0, <2>1, QueuesApart
  <2>4. /\ Queued(k) \in Seq(Events) /\ heard[k] \in Seq(Events)
        /\ reply[k].events \in Seq(Events) /\ made[k] \in Nat
    BY HearFacts, QueueType
  <2>5. /\ answer[k] = "none" /\ Contiguous(heard[k], k, 0) /\ Len(heard[k]) <= made[k]
        /\ InOrder(k, heard[k], <<>>, Queued(k), made[k], task[k])
    BY <1>0, HearFacts DEF Heard
  <2>6. Drain(Home(k), id[k]) \/ DeleteLogs(Home(k), id[k]) => Queued(k)' = <<>>
    BY <1>0, <2>1, HearFacts, Emptied DEF Queued, Has, Home
  <2>7. UNCHANGED logs => Queued(k)' = Queued(k)
    BY <2>1 DEF Queued, Has, Home
  <2>8. ASSUME UNCHANGED logs, reply'[k].events = <<>>
        PROVE  Heard(k)'
    BY <1>0, <2>1, <2>5, <2>7, <2>8 DEF Heard
  <2>9. ASSUME pc[k] = "poll", Drain(Home(k), id[k]), reply'[k].events = Queued(k)
        PROVE  Heard(k)'
    <3>1. InOrder(k, heard[k], Queued(k), <<>>, made[k], task[k])
      BY <2>4, <2>5, EmptyEvents, OrderOfHeard
    <3> QED BY <1>0, <2>1, <2>5, <2>6, <2>9, <3>1 DEF Heard
  <2>10. ASSUME task[k] = "ended", DeleteLogs(Home(k), id[k]), reply'[k].events = <<>>
         PROVE  Heard(k)'
    <3>1. InOrder(k, heard[k], <<>>, <<>>, made[k], task[k])
      BY <2>4, <2>5, <2>10, EmptyEvents, OrderOfHeard DEF Over
    <3> QED BY <1>0, <2>1, <2>5, <2>6, <2>10, <3>1 DEF Heard
  <2>11. \/ UNCHANGED logs /\ reply'[k].events = <<>>
         \/ pc[k] = "poll" /\ Drain(Home(k), id[k]) /\ reply'[k].events = Queued(k)
         \/ task[k] = "ended" /\ DeleteLogs(Home(k), id[k]) /\ reply'[k].events = <<>>
    <3>1. \A r : Respond(k, r) => reply'[k] = r
      BY HearFacts DEF Respond
    <3>2. Missing.events = <<>> /\ \A w, e, o : Reply(w, e, o).events = e
      BY DEF Missing, Reply
    <3>3. CASE HandlePollLog(k)
      <4>1. Drained("agent", id[k]) = Queued(k)
        BY <1>0, <2>1, QueueIsDrained DEF Queued
      <4> QED BY <1>0, <3>1, <3>2, <3>3, <4>1 DEF HandlePollLog, Requested
    <3>4. CASE HandleGetTask(k)
      <4>1. id[k] \in DOMAIN tasks => tasks[id[k]] = k
        BY <1>0, <2>1, HearFacts DEF OInv, TableInv, IdInv, Home, TasksOK, TInv, Parts
      <4> QED BY <1>0, <3>1, <3>2, <3>4, <4>1 DEF HandleGetTask
    <3>5. CASE HandleDeleteTask(k)
      <4>1. task[k] = "ended"
        BY <3>5, HearFacts DEF HandleDeleteTask, Requested, CallOK
      <4> QED BY <1>0, <3>1, <3>2, <3>5, <4>1 DEF HandleDeleteTask
    <3> QED BY <1>2, <3>3, <3>4, <3>5
  <2> QED BY <2>2, <2>3, <2>8, <2>9, <2>10, <2>11
<1> QED BY <1>1, <1>2 DEF Handle

LEMMA HearRemote ==
  ASSUME HInv, NEW k \in Calls, RemoteStep(k)
  PROVE  LogIds' /\ \A j \in Calls : Heard(j)'
<1>1. /\ UNCHANGED <<made, task, id, nextId, logs>>
      /\ reply' = [reply EXCEPT ![k] = NoReply]
  BY DEF RemoteStep, Submitted, Polled, Checked, Fetched, Deleted, Refused, Break, Replied,
     taskVars, storeVars
<1>2. /\ reply'[k].events = <<>>
      /\ \A j \in Calls \ {k} : reply'[j] = reply[j]
  BY <1>1, HearFacts DEF NoReply, Reply
<1>3. /\ \A j \in Calls : Queued(j)' = Queued(j)
      /\ LogIds'
  BY <1>1, HearFacts DEF Queued, Has, Home, LogIds
<1>4. \A j \in Calls \ {k} :
        pc'[j] = pc[j] /\ answer'[j] = answer[j] /\ heard'[j] = heard[j]
  BY HearFacts DEF RemoteStep, Submitted, Polled, Checked, Fetched, Deleted, Refused, Break,
     Listen, Decide, Return, callerVars, Callers
<1>5. ASSUME NEW j \in Calls \ {k}
      PROVE  Heard(j)'
  BY <1>1, <1>2, <1>3, <1>4, HearFacts, HeardStays
<1>6. ASSUME pc'[k] = "over", UNCHANGED heard
      PROVE  Heard(k)'
  BY <1>1, <1>2, <1>6, HeardOver
<1>7. ASSUME pc[k] # "poll", pc[k] # "over", pc'[k] # "over", UNCHANGED <<heard, answer>>
      PROVE  Heard(k)'
  BY <1>1, <1>2, <1>3, <1>7, HearFacts DEF Heard
<1>8. ASSUME pc[k] = "poll", pc'[k] = "check", UNCHANGED answer,
             heard'[k] = heard[k] \o reply[k].events
      PROVE  Heard(k)'
  <2>1. /\ Queued(k) \in Seq(Events) /\ heard[k] \in Seq(Events)
        /\ reply[k].events \in Seq(Events) /\ made[k] \in Nat
    BY HearFacts, QueueType
  <2>2. InOrder(k, heard[k], reply[k].events, Queued(k), made[k], task[k]) /\ answer[k] = "none"
    BY <1>8, HearFacts DEF Heard
  <2>3. /\ InOrder(k, heard'[k], <<>>, Queued(k), made[k], task[k])
        /\ heard'[k] \in Seq(Events)
    BY <1>8, <2>1, <2>2, OrderOfHeard, ConcatProperties
  <2>4. Contiguous(heard'[k], k, 0) /\ Len(heard'[k]) <= made[k]
    BY <2>1, <2>3, EmptyEvents, OrderOfHeard DEF InOrder
  <2> QED BY <1>1, <1>2, <1>3, <1>8, <2>2, <2>3, <2>4 DEF Heard
<1>9. \/ pc'[k] = "over" /\ UNCHANGED heard
      \/ pc[k] # "poll" /\ pc[k] # "over" /\ pc'[k] # "over" /\ UNCHANGED <<heard, answer>>
      \/ /\ pc[k] = "poll" /\ pc'[k] = "check" /\ UNCHANGED answer
         /\ heard'[k] = heard[k] \o reply[k].events
  <2>1. \A a : Return(k, a) => pc'[k] = "over" /\ UNCHANGED heard
    BY HearFacts DEF Return, Callers
  <2>2. CASE Submitted(k) \/ Checked(k) \/ Fetched(k)
    BY <2>2, HearFacts DEF Submitted, Checked, Fetched, Replied, Decide, callerVars, Callers
  <2>3. CASE Polled(k)
    BY <2>1, <2>3, HearFacts DEF Polled, Replied, Listen, Callers
  <2>4. CASE Deleted(k) \/ Refused(k) \/ Break(k)
    BY <2>1, <2>4 DEF Deleted, Refused, Break
  <2> QED BY <2>2, <2>3, <2>4 DEF RemoteStep
<1> QED BY <1>3, <1>5, <1>6, <1>7, <1>8, <1>9

LEMMA HearRestart ==
  ASSUME HInv, Restart
  PROVE  LogIds' /\ \A j \in Calls : Heard(j)'
<1>1. /\ UNCHANGED <<heard, pc, answer, id, made, reply>>
      /\ logs' = [logs EXCEPT !["agent"] = Empty]
      /\ nextId' = [nextId EXCEPT !["agent"] = 0]
      /\ \A k \in Calls : task'[k] = IF k \in Remote /\ task[k] = "running" THEN "killed" ELSE task[k]
  BY DEF Restart, callerVars
<1>2. /\ LogsOK /\ LogIds /\ nextId \in [Processes -> Nat] /\ "agent" \in Processes
      /\ "manager" \in Processes
  BY DEF HInv, OInv, TInv, Parts, Processes
<1>3. LogIds'
  BY <1>1, <1>2 DEF LogIds, LogsOK, Empty
<1>4. ASSUME NEW k \in Calls
      PROVE  Heard(k)'
  <2>1. /\ Queued(k) \in Seq(Events) /\ heard[k] \in Seq(Events)
        /\ reply[k].events \in Seq(Events) /\ made[k] \in Nat
    BY <1>4, HearFacts, QueueType
  <2>2. CASE k \in Local
    <3>1. task'[k] = task[k] /\ QueueOf(logs', Home(k), id'[k]) = QueueOf(logs, Home(k), id[k])
      BY <1>1, <1>2, <2>2 DEF Local, Home, QueueOf, LogsOK
    <3>2. Queued(k)' = Queued(k)
      BY <1>1, <3>1, QueuedStays
    <3> QED BY <1>1, <3>1, <3>2, HearFacts, HeardStays
  <2>3. CASE k \in Remote
    <3>1. Queued(k)' = <<>>
      BY <1>1, <1>2, <2>3 DEF Queued, QueueOf, Home, Empty, LogsOK
    <3>2. CASE ~ Has(k)
      <4>1. Queued(k) = <<>> /\ task'[k] = task[k]
        BY <1>1, <3>2 DEF Queued, Has
      <4> QED BY <1>1, <3>1, <4>1, HearFacts, HeardStays
    <3>3. CASE Has(k)
      <4>1. Over(task'[k])
        BY <1>1, <2>3, <3>3, HearFacts DEF OInv, NoneQueued, Has, Tasks, Over
      <4>2. pc[k] # "over" => InOrder(k, heard[k], reply[k].events, <<>>, made[k], task'[k])
        BY <2>1, <4>1, HearFacts, OrderOfHeard DEF Heard
      <4> QED BY <1>1, <3>1, <4>2, HearFacts DEF Heard
    <3> QED BY <3>2, <3>3
  <2> QED BY <2>2, <2>3 DEF Local
<1> QED BY <1>3, <1>4

LEMMA HearInit == Init => HInv
<1> SUFFICES ASSUME Init PROVE HInv
  OBVIOUS
<1>1. OInv
  BY OwnInit
<1>2. LogIds
  BY DEF Init, LogIds, Empty
<1>3. ASSUME NEW k \in Calls
      PROVE  Heard(k)
  <2>1. /\ heard[k] = <<>> /\ made[k] = 0 /\ reply[k].events = <<>> /\ answer[k] = "none"
        /\ Queued(k) = <<>>
    BY DEF Init, NoReply, Reply, Queued, Has
  <2> QED BY <2>1, EmptyContiguous DEF Heard, InOrder
<1> QED BY <1>1, <1>2, <1>3 DEF HInv

LEMMA HearStep ==
  ASSUME NoIdAgain
  PROVE  HInv /\ [Next]_vars => HInv'
<1> SUFFICES ASSUME HInv, [Next]_vars PROVE HInv'
  OBVIOUS
<1>1. OInv'
  BY OwnStep DEF HInv
<1>2. ASSUME NEW k \in Calls,
             \/ Invoke(k) \/ TakeCaller(k) \/ TakeTask(k) \/ Log(k) \/ End(k)
             \/ LocalStep(k) \/ Handle(k) \/ RemoteStep(k)
      PROVE  HInv'
  BY <1>1, <1>2, HearPool, HearLog, HearLocal, HearHandle, HearRemote DEF HInv
<1>3. CASE Restart
  BY <1>1, <1>3, HearRestart DEF HInv
<1>4. CASE UNCHANGED vars
  BY <1>1, <1>4 DEF HInv, LogIds, Heard, Queued, Has, Home, vars, callerVars, taskVars, storeVars
<1> QED BY <1>2, <1>3, <1>4 DEF Next

-----------------------------------------------------------------------------
(* The contract.                                                            *)

Ended == {k \in Calls : task[k] = "ended"}

LEMMA HeardIsFirst ==
  ASSUME NEW k \in Calls, NEW s \in Seq(Events), Contiguous(s, k, 0)
  PROVE  s = Contract!FirstEvents(k, Len(s))
<1>1. Len(s) \in Nat /\ DOMAIN s = 1 .. Len(s) /\ s = [i \in 1 .. Len(s) |-> s[i]]
  BY LenProperties
<1>2. \A i \in 1 .. Len(s) : s[i] = Contract!Event(k, i)
  BY <1>1 DEF Contiguous, Event, Contract!Event
<1> QED BY <1>1, <1>2 DEF Contract!FirstEvents

(* A caller that goes on has heard what came.                               *)
LEMMA ListenHears ==
  ASSUME HInv, HInv', NEW k \in Calls, NEW e \in Seq(Events), Listen(k, e),
         pc[k] # "over", UNCHANGED <<made, task>>
  PROVE  Contract!Hear(k) \/ Contract!Answer(k)
<1>1. answer[k] = "none" /\ Ended' = Ended
  BY HearFacts DEF Heard, Ended
<1>2. CASE Return(k, "error")
  BY <1>1, <1>2 DEF Return, Contract!Answer, Ended
<1>3. CASE heard' = [heard EXCEPT ![k] = @ \o e] /\ UNCHANGED answer
  <2>1. heard[k] \in Seq(Events) /\ heard \in [Calls -> Seq(Events)] /\ made[k] \in Nat
    BY HearFacts DEF Callers, Tasks
  <2>2. /\ heard'[k] = heard[k] \o e /\ heard'[k] \in Seq(Events)
        /\ Len(heard'[k]) = Len(heard[k]) + Len(e)
        /\ Len(e) \in Nat /\ Len(heard[k]) \in Nat
    BY <1>3, <2>1, ConcatProperties, LenOfEvents
  <2>3. Contiguous(heard'[k], k, 0) /\ Len(heard'[k]) <= made[k]
    BY DEF HInv, Heard
  <2>4. Len(heard'[k]) \in Len(heard[k]) .. made[k]
    BY <2>1, <2>2, <2>3
  <2>5. heard'[k] = Contract!FirstEvents(k, Len(heard'[k]))
    BY <2>2, <2>3, HeardIsFirst
  <2>6. heard' = [heard EXCEPT ![k] = Contract!FirstEvents(k, Len(heard'[k]))]
    BY <1>3, <2>1, <2>2, <2>5
  <2> QED BY <1>1, <1>3, <2>4, <2>6 DEF Contract!Hear, Ended
<1> QED BY <1>2, <1>3 DEF Listen

LEMMA ReturnAnswers ==
  ASSUME HInv, NEW k \in Calls, NEW a, Return(k, a), a = "error" \/ (a = k /\ k \in Ended),
         pc[k] # "over", UNCHANGED <<made, task>>
  PROVE  Contract!Answer(k)
<1>1. answer[k] = "none" /\ Ended' = Ended
  BY HearFacts DEF Heard, Ended
<1> QED BY <1>1 DEF Return, Contract!Answer, Ended

LEMMA PoolUnseen ==
  ASSUME HInv, NEW k \in Calls, Invoke(k) \/ TakeCaller(k) \/ TakeTask(k)
  PROVE  UNCHANGED <<made, Ended, heard, answer>>
<1>1. CASE TakeTask(k)
  <2>1. task[k] = "queued" /\ task' = [task EXCEPT ![k] = "running"]
    BY <1>1, HearFacts, Taken DEF TakeTask, OInv, TInv, Parts, QueueInv
  <2> QED BY <1>1, <2>1, HearFacts DEF TakeTask, callerVars, Ended, Tasks
<1>2. CASE Invoke(k) \/ TakeCaller(k)
  BY <1>2 DEF Invoke, TakeCaller, taskVars, Ended
<1> QED BY <1>1, <1>2

LEMMA TaskSeen ==
  ASSUME HInv, NEW k \in Calls, Log(k) \/ End(k)
  PROVE  Contract!Log(k) \/ Contract!End(k)
<1>1. CASE Log(k)
  BY <1>1 DEF Log, callerVars, Contract!Log
<1>2. CASE End(k)
  <2>1. Ended' = Ended \cup {k}
    BY <1>2, HearFacts DEF End, Ended, Tasks
  <2> QED BY <1>2, <2>1 DEF End, callerVars, Contract!End, Ended
<1> QED BY <1>1, <1>2

LEMMA LocalSeen ==
  ASSUME HInv, HInv', NEW k \in Calls, LocalStep(k)
  PROVE  Contract!Hear(k) \/ Contract!Answer(k) \/ UNCHANGED <<made, Ended, heard, answer>>
<1>1. CASE Submit(k)
  <2>1. ~ Has(k)
    BY <1>1, HearFacts DEF Submit, CallOK, TInv, Outcomes
  <2> QED BY <1>1, <2>1, HearFacts DEF Submit, Ended, Has, Tasks
<1>2. CASE PollLogs(k)
  <2>1. Drained("manager", id[k]) \in Seq(Events)
    BY HearFacts, DrainedType DEF Processes
  <2> QED BY <1>2, <2>1, ListenHears DEF PollLogs, taskVars
<1>3. CASE IsDone(k)
  BY <1>3 DEF IsDone, Decide, taskVars, Ended
<1>4. CASE Get(k)
  BY <1>4, ReturnAnswers DEF Get, taskVars, Ended
<1> QED BY <1>1, <1>2, <1>3, <1>4 DEF LocalStep

LEMMA AgentUnseen ==
  ASSUME HInv, NEW k \in Calls, Handle(k)
  PROVE  UNCHANGED <<made, Ended, heard, answer>>
<1>1. CASE HandleSubmit(k)
  <2>1. ~ Has(k)
    BY <1>1, HearFacts DEF HandleSubmit, Requested, CallOK
  <2> QED BY <1>1, <2>1, HearFacts DEF HandleSubmit, callerVars, Ended, Has, Tasks
<1>2. CASE HandlePollLog(k) \/ HandleGetTask(k) \/ HandleDeleteTask(k)
  BY <1>2 DEF HandlePollLog, HandleGetTask, HandleDeleteTask, callerVars, taskVars, Ended
<1> QED BY <1>1, <1>2 DEF Handle

LEMMA RemoteSeen ==
  ASSUME HInv, HInv', NEW k \in Calls, RemoteStep(k)
  PROVE  Contract!Hear(k) \/ Contract!Answer(k) \/ UNCHANGED <<made, Ended, heard, answer>>
<1>1. UNCHANGED <<made, task>>
  BY DEF RemoteStep, Submitted, Polled, Checked, Fetched, Deleted, Refused, Break, Replied,
     taskVars
<1>2. CASE Submitted(k) \/ Checked(k) \/ Fetched(k)
  BY <1>1, <1>2 DEF Submitted, Checked, Fetched, Decide, callerVars, Ended
<1>3. CASE Polled(k)
  <2>1. reply[k].events \in Seq(Events)
    BY HearFacts DEF Replies
  <2> QED BY <1>1, <1>3, <2>1, ListenHears DEF Polled, Replied
<1>4. CASE Deleted(k)
  <2>1. pc[k] = "delete" /\ fetched[k] = k /\ k \in Ended
    BY <1>4, HearFacts DEF Deleted, Replied, CallOK, Ended
  <2> QED BY <1>1, <1>4, <2>1, ReturnAnswers DEF Deleted
<1>5. CASE Refused(k)
  <2>1. pc[k] # "over"
    BY <1>5, HearFacts DEF Refused, Replied, CallOK, Waiting, NoReply, Reply
  <2> QED BY <1>1, <1>5, <2>1, ReturnAnswers DEF Refused
<1>6. CASE Break(k)
  <2>1. pc[k] # "over" /\ Return(k, "error")
    BY <1>6 DEF Break, Waiting
  <2> QED BY <1>1, <2>1, ReturnAnswers
<1> QED BY <1>2, <1>3, <1>4, <1>5, <1>6 DEF RemoteStep

LEMMA ContractStep ==
  ASSUME HInv, HInv', [Next]_vars
  PROVE  [Contract!Next]_(Contract!vars)
<1>1. UNCHANGED <<made, Ended, heard, answer>> => UNCHANGED Contract!vars
  BY DEF Contract!vars, Ended
<1>2. ASSUME NEW k \in Calls,
             \/ Invoke(k) \/ TakeCaller(k) \/ TakeTask(k) \/ Log(k) \/ End(k)
             \/ LocalStep(k) \/ Handle(k) \/ RemoteStep(k)
      PROVE  [Contract!Next]_(Contract!vars)
  BY <1>1, <1>2, PoolUnseen, TaskSeen, LocalSeen, AgentUnseen, RemoteSeen DEF Contract!Next
<1>3. CASE Restart
  <2>1. Ended' = Ended
    BY <1>3 DEF Restart, Ended
  <2> QED BY <1>1, <1>3, <2>1 DEF Restart, callerVars
<1>4. CASE UNCHANGED vars
  BY <1>1, <1>4 DEF vars, callerVars, taskVars, Ended
<1> QED BY <1>2, <1>3, <1>4 DEF Next

(* Every caller, local or remote, however requests and replies are lost and *)
(* listeners fail, hears the first events of its own task in order, without *)
(* gaps or repetitions, and gets the outcome of its own task or an error,   *)
(* if the agent is not restarted or only one call is remote.                *)
THEOREM ContractIsKept ==
  ASSUME NoIdAgain
  PROVE  Spec => KeepsContract
<1>1. Init => Contract!Init
  BY DEF Init, Contract!Init
<1>2. HInv /\ [Next]_vars => HInv'
  BY HearStep
<1>3. HInv /\ HInv' /\ [Next]_vars => [Contract!Next]_(Contract!vars)
  BY ContractStep
<1> QED BY HearInit, <1>1, <1>2, <1>3, PTL DEF Spec, KeepsContract, Contract!Spec
=============================================================================
