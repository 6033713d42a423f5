---------------------------- MODULE ActionLocks ----------------------------
(***************************************************************************)
(* The monitors of a plan.  Action.getStatus, Action.setStatus and         *)
(* ActionGroup.getAvailableAction are synchronized, and each calls others  *)
(* while it holds its own monitor: getStatus of a group those of its       *)
(* children and its own setStatus, setStatus(FAILED) those of the actions  *)
(* that require it, getAvailableAction those of the dependencies and of    *)
(* the children.  ActionEngine makes each of these calls one step; here a  *)
(* call is a frame on the stack of its thread, entered when no other       *)
(* thread holds the monitor and left when all that it calls has returned.  *)
(* One Run, a pool thread for every leaf, and pages that show the plan.    *)
(***************************************************************************)
EXTENDS Naturals, Sequences, SequencesExt

CONSTANTS
  Actions,   \* every Action of the plan
  Groups,    \* the ActionGroups among them
  Top,       \* the action handed to ActionExecutor.execute
  Children,  \* the "actions" list of each group, in [Groups -> Seq(Actions)]
  Requires,  \* Action.depends, in [Actions -> SUBSET Actions]
  Coordinator, Pages   \* the thread of execute, those that serve a page

Singles == Actions \ Groups
Threads == {Coordinator} \cup Singles \cup Pages

VARIABLES
  status,   \* Action.status
  stack,    \* the calls each thread is in, the innermost first
  turn,     \* where the coordinator is in the loop of execute
  picked,   \* the leaf that getAvailableAction has returned, or "none"
  job       \* the task submitted for each leaf

vars == <<status, stack, turn, picked, job>>

Broken == {"FAILED", "NOT_RUN"}

(* A frame: the method, its action and argument, the calls it still has to  *)
(* make and what the calls it made have returned.                           *)
Frame(do, a, s, calls) == [do |-> do, of |-> a, to |-> s, next |-> calls, seen |-> {}]
Get(a) == Frame("getStatus", a, "-", <<>>)
Set(a, s) == Frame("setStatus", a, s, <<>>)
Find(a) == Frame("getAvailableAction", a, "-", <<>>)
Calls(F(_), as) == [i \in DOMAIN as |-> F(as[i])]

(* Only SingleAction.getAvailableAction takes no monitor.                   *)
Synchronized(f) ==
  f.do \in {"getStatus", "setStatus"} \/ (f.do # "main" /\ f.of \in Groups)
Holds(t) == {stack[t][i].of : i \in {j \in DOMAIN stack[t] : Synchronized(stack[t][j])}}
Free(t, a) == \A u \in Threads \ {t} : a \notin Holds(u)

GivingUp(a) ==
  Calls(LAMBDA y : Set(y, "NOT_RUN"), SetToSeq({y \in Actions : a \in Requires[y]}))

(* What a method calls, as far as that is known when it is entered.         *)
Body(f) ==
  CASE f.do = "getStatus" /\ f.of \in Groups /\ status[f.of] # "NOT_RUN"
         -> Calls(Get, Children[f.of])
    [] f.do = "setStatus" /\ f.to \in Broken -> GivingUp(f.of)
    [] f.do = "getAvailableAction" -> <<Get(f.of)>>
    [] OTHER -> <<>>

Base(calls) == Frame("main", Top, "-", calls)
In(t) == Head(stack[t])
Idle(t) == stack[t] = <<Base(<<>>)>>

Init ==
  /\ status = [a \in Actions |-> "PENDING"]
  /\ stack = [t \in Threads |-> <<Base(<<>>)>>]
  /\ turn = "idle"
  /\ picked = "none"
  /\ job = [a \in Singles |-> "none"]

-----------------------------------------------------------------------------
(* The loops that end early: getStatus of a group at the first RUNNING      *)
(* child, or when a RUNNING group has finished and unfinished ones;         *)
(* getAvailableAction of a group at the first leaf found.                   *)
Over(f) ==
  \/ f.next = <<>>
  \/ f.do = "getStatus" /\ "RUNNING" \in f.seen
  \/ /\ f.do = "getStatus" /\ status[f.of] = "RUNNING"
     /\ "PENDING" \in f.seen /\ f.seen \ {"PENDING", "RUNNING"} # {}
  \/ f.do = "children" /\ picked # "none"

(* The next call of the innermost frame: wait for the monitor, enter.       *)
Call(t) ==
  LET f == In(t)
      g == Head(f.next)
  IN  /\ ~ Over(f)
      /\ Synchronized(g) => Free(t, g.of)
      /\ stack' = [stack EXCEPT ![t] =
           <<[g EXCEPT !.next = Body(g)], [f EXCEPT !.next = Tail(@)]>> \o Tail(@)]
      /\ status' = IF g.do = "setStatus" THEN [status EXCEPT ![g.of] = g.to] ELSE status
      /\ UNCHANGED <<turn, picked, job>>

(* Leaving a frame and its monitor; the caller sees the status.             *)
Returned(t) ==
  <<[stack[t][2] EXCEPT !.seen = @ \cup {status[In(t).of]}]>> \o Tail(Tail(stack[t]))

(* What a group computes from the statuses its children returned.           *)
GroupStatus(old, seen) ==
  IF "RUNNING" \in seen THEN "RUNNING"
  ELSE IF "PENDING" \in seen
       THEN IF old = "RUNNING" /\ seen # {"PENDING"} THEN "RUNNING" ELSE "PENDING"
  ELSE IF seen \cap Broken # {} THEN "FAILED" ELSE "SUCCESSFUL"

(* getStatus of a group ends with its own setStatus, the monitor in hand.   *)
Compute(t) ==
  LET f == In(t)
      s == GroupStatus(status[f.of], f.seen)
  IN  /\ f.do = "getStatus" /\ Over(f)
      /\ f.of \in Groups /\ status[f.of] # "NOT_RUN"
      /\ status' = [status EXCEPT ![f.of] = s]
      /\ stack' = [stack EXCEPT ![t][1] =
           Frame("setStatus", f.of, s, IF s \in Broken THEN GivingUp(f.of) ELSE <<>>)]
      /\ UNCHANGED <<turn, picked, job>>

(* isReady has its own status: a PENDING action asks its dependencies, a    *)
(* RUNNING group goes on to its children, another is passed over.           *)
AskDependencies(t) ==
  LET f == In(t) IN
  /\ f.do = "getAvailableAction" /\ Over(f)
  /\ "PENDING" \in f.seen
  /\ stack' = [stack EXCEPT ![t][1] =
       Frame("isReady", f.of, "-", Calls(Get, SetToSeq(Requires[f.of])))]
  /\ UNCHANGED <<status, turn, picked, job>>

EnterGroup(t) ==
  LET f == In(t) IN
  /\ f.of \in Groups
  /\ Over(f)
  /\ \/ f.do = "getAvailableAction" /\ "RUNNING" \in f.seen
     \/ f.do = "isReady" /\ f.seen \subseteq {"SUCCESSFUL"}
  /\ stack' = [stack EXCEPT ![t][1] =
       Frame("children", f.of, "-", Calls(Find, Children[f.of]))]
  /\ UNCHANGED <<status, turn, picked, job>>

(* A FAILED or NOT_RUN dependency: setStatus(NOT_RUN) on itself.            *)
GiveUp(t) ==
  LET f == In(t) IN
  /\ f.do = "isReady" /\ Over(f)
  /\ f.seen \cap Broken # {}
  /\ stack' = [stack EXCEPT ![t][1] = Frame("children", f.of, "-", <<Set(f.of, "NOT_RUN")>>)]
  /\ UNCHANGED <<status, turn, picked, job>>

Found(t) ==
  LET f == In(t) IN
  /\ f.do = "isReady" /\ Over(f) /\ f.of \in Singles
  /\ f.seen \subseteq {"SUCCESSFUL"}
  /\ picked' = f.of
  /\ stack' = [stack EXCEPT ![t] = Returned(t)]
  /\ UNCHANGED <<status, turn, job>>

Return(t) ==
  LET f == In(t) IN
  /\ Over(f)
  /\ \/ f.do \in {"setStatus", "children"}
     \/ f.do = "getStatus" /\ (f.of \in Singles \/ status[f.of] = "NOT_RUN")
     \/ f.do = "getAvailableAction" /\ "PENDING" \notin f.seen
        /\ (f.of \in Groups => "RUNNING" \notin f.seen)
     \/ f.do = "isReady" /\ f.seen \cap Broken = {} /\ ~ f.seen \subseteq {"SUCCESSFUL"}
  /\ stack' = [stack EXCEPT ![t] = Returned(t)]
  /\ UNCHANGED <<status, turn, picked, job>>

Step(t) ==
  \/ Call(t) \/ Compute(t) \/ AskDependencies(t) \/ EnterGroup(t)
  \/ GiveUp(t) \/ Found(t) \/ Return(t)

-----------------------------------------------------------------------------
(* The loop of ActionExecutor.execute.                                      *)
Ready(t) == In(t).do = "main" /\ In(t).next = <<>>
Answer == In(Coordinator).seen

Goes(from, to, calls) ==
  /\ Ready(Coordinator)
  /\ turn = from
  /\ turn' = to
  /\ stack' = [stack EXCEPT ![Coordinator] = <<Base(calls)>>]
  /\ UNCHANGED status

Execute == Goes("idle", "isDone", <<Get(Top)>>) /\ UNCHANGED <<picked, job>>

Walk ==
  /\ Answer \cap {"FAILED", "SUCCESSFUL"} = {}
  /\ Goes("isDone", "walk", <<Find(Top)>>)
  /\ UNCHANGED <<picked, job>>

Report ==
  /\ Answer \cap {"FAILED", "SUCCESSFUL"} # {}
  /\ Goes("isDone", "reported", <<>>)
  /\ UNCHANGED <<picked, job>>

Sleep ==
  /\ picked = "none"
  /\ Goes("walk", "isDone", <<Get(Top)>>)
  /\ UNCHANGED <<picked, job>>

Launch ==
  /\ picked # "none"
  /\ Goes("walk", "launch", <<Set(picked, "RUNNING")>>)
  /\ UNCHANGED <<picked, job>>

Submit ==
  /\ Goes("launch", "isDone", <<Get(Top)>>)
  /\ job' = [job EXCEPT ![picked] = "queued"]
  /\ picked' = "none"

(* SingleAction.apply: getStatus, the callable, setStatus of its outcome.   *)
Begin(a) ==
  /\ job[a] = "queued"
  /\ Free(a, a) /\ status[a] = "RUNNING"
  /\ job' = [job EXCEPT ![a] = "running"]
  /\ UNCHANGED <<status, stack, turn, picked>>

End(a) ==
  /\ job[a] = "running"
  /\ job' = [job EXCEPT ![a] = "ended"]
  /\ \E s \in {"SUCCESSFUL", "FAILED"} : stack' = [stack EXCEPT ![a] = <<Base(<<Set(a, s)>>)>>]
  /\ UNCHANGED <<status, turn, picked>>

(* loadActionStatuses and canExecuteAction ask any action for its status.   *)
Poll(p) ==
  /\ Ready(p)
  /\ \E a \in Actions : stack' = [stack EXCEPT ![p] = <<Base(<<Get(a)>>)>>]
  /\ UNCHANGED <<status, turn, picked, job>>

Coordinate == Walk \/ Report \/ Sleep \/ Launch \/ Submit

Next ==
  \/ Execute \/ Coordinate
  \/ \E t \in Threads : Step(t)
  \/ \E a \in Singles : Begin(a) \/ End(a)
  \/ \E p \in Pages : Poll(p)

(* Every thread goes on when it can, also one that finds the monitor it     *)
(* waits for free only now and then.  Nobody has to press Run or poll.      *)
FairSpec ==
  /\ Init /\ [][Next]_vars
  /\ WF_vars(Coordinate)
  /\ \A t \in Threads : SF_vars(Step(t))
  /\ \A a \in Singles : SF_vars(Begin(a)) /\ WF_vars(End(a))

-----------------------------------------------------------------------------
(* Action.java:166 explains NOT_RUN as "has FAILED dependencies": an action *)
(* that requires a FAILED one is given up sooner or later, which needs      *)
(* threads in setStatus, getStatus and getAvailableAction never to wait for *)
(* each other in a circle.                                                  *)
FollowersAreGivenUp ==
  \A a \in Actions : \A d \in Requires[a] :
    status[d] = "FAILED" ~> status[a] = "NOT_RUN"
=============================================================================
