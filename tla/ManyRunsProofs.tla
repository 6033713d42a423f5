--------------------------- MODULE ManyRunsProofs ---------------------------
(***************************************************************************)
(* What holds of the engine however often Run was pressed at once: for any *)
(* finite number of coordinators and any plan, with empty groups or not.   *)
(***************************************************************************)
EXTENDS ActionEngine, FiniteSetTheorems, TLAPS

FinitelyOften == IsFiniteSet(Coordinators)

(* The coordinators whose task for a leaf has called its callable.          *)
HasRun == {"running", "ended", "died"}
Callers(a) == {c \in Coordinators : job[c][a] \in HasRun}

(* Each call of a callable is that of another coordinator's only task.      *)
CallersInv == \A a \in Singles : runs[a] = Cardinality(Callers(a))

(* A leaf with a task is not PENDING, and the leaf that a coordinator holds *)
(* has none of its own.                                                     *)
OnceInv ==
  /\ \A c \in Coordinators : \A a \in Singles :
       job[c][a] # "none" => status[a] # "PENDING"
  /\ \A c \in Coordinators : pc[c] = "picked" => job[c][Visited(c)] = "none"

MInv == TypeOK /\ OnceInv /\ CallersInv
-----------------------------------------------------------------------------
(* setStatus(a, s) makes nothing PENDING but a.                             *)
LEMMA NoneBackToPending ==
  ASSUME TypeOK, NEW a \in Actions, NEW s \in Statuses, SetStatus(a, s),
         s = "PENDING" => a \notin Singles
  PROVE  /\ status' \in [Actions -> Statuses]
         /\ \A x \in Singles : status[x] # "PENDING" => status'[x] # "PENDING"
BY DEF TypeOK, SetStatus, Statuses, Singles

(* Steps that leave the tasks and calls alone.                              *)
LEMMA SameJobs ==
  ASSUME MInv, TypeOK', UNCHANGED <<job, runs>>,
         \A x \in Singles : status[x] # "PENDING" => status'[x] # "PENDING",
         \A c \in Coordinators : pc'[c] = "picked" => job[c][Visited(c)'] = "none"
  PROVE  MInv'
BY DEF MInv, OnceInv, CallersInv, Callers

(* A walk goes on with a tail of its list, or with the members of a group.  *)
LEMMA WalkTyped ==
  ASSUME TypeOK, NEW c \in Coordinators, Visiting(c)
  PROVE  /\ Visited(c) \in Actions
         /\ Tail(todo[c]) \in Seq(Actions)
         /\ Visited(c) \in Groups => Children[Visited(c)] \o Tail(todo[c]) \in Seq(Actions)
<1>1. todo[c] \in Seq(Actions) /\ todo[c] # <<>>
  BY DEF TypeOK, Visiting
<1>2. Visited(c) \in Actions /\ Tail(todo[c]) \in Seq(Actions)
  BY <1>1 DEF Visited
<1>3. Visited(c) \in Groups => Children[Visited(c)] \in Seq(Actions)
  BY PlanAssumption
<1>. QED
  BY <1>2, <1>3

(* The steps of a coordinator after which it holds no leaf.                 *)
LEMMA WalkKeeps ==
  ASSUME MInv, NEW c \in Coordinators,
         Execute(c) \/ StartWalk(c) \/ Report(c) \/ Sleep(c)
         \/ Enter(c) \/ PassOver(c) \/ GiveUp(c)
  PROVE  MInv'
<1>1. UNCHANGED <<job, runs>>
  BY DEF Execute, StartWalk, Report, Sleep, Enter, PassOver, GiveUp
<1>2. /\ status' \in [Actions -> Statuses]
      /\ \A x \in Singles : status[x] # "PENDING" => status'[x] # "PENDING"
  <2>1. CASE UNCHANGED status
    BY <2>1 DEF MInv, TypeOK
  <2>2. CASE GiveUp(c)
    <3>1. Visited(c) \in Actions /\ "NOT_RUN" \in Statuses
      BY <2>2, WalkTyped DEF GiveUp, MInv, Statuses
    <3>. QED
      BY <2>2, <3>1, NoneBackToPending DEF GiveUp, MInv
  <2>. QED
    BY <2>1, <2>2 DEF Execute, StartWalk, Report, Sleep, Enter, PassOver
<1>3. PICK p \in {"check", "walk", "reported"}, q \in Seq(Actions) :
        pc' = [pc EXCEPT ![c] = p] /\ todo' = [todo EXCEPT ![c] = q]
  <2>1. todo[c] \in Seq(Actions) /\ <<Top>> \in Seq(Actions)
        /\ todo = [todo EXCEPT ![c] = todo[c]] /\ pc = [pc EXCEPT ![c] = pc[c]]
    BY PlanAssumption DEF MInv, TypeOK
  <2>2. CASE Execute(c) \/ Report(c) \/ Sleep(c)
    <3>1. todo' = [todo EXCEPT ![c] = todo[c]]
      BY <2>1, <2>2 DEF Execute, Report, Sleep
    <3>2. \E p \in {"check", "walk", "reported"} : pc' = [pc EXCEPT ![c] = p]
      BY <2>2 DEF Execute, Report, Sleep
    <3>. QED
      BY <2>1, <3>1, <3>2
  <2>3. CASE StartWalk(c)
    BY <2>1, <2>3 DEF StartWalk
  <2>4. CASE Enter(c) \/ PassOver(c) \/ GiveUp(c)
    <3>1. Visiting(c) /\ pc[c] = "walk" /\ UNCHANGED pc
      BY <2>4 DEF Enter, PassOver, GiveUp, Visiting
    <3>2. pc' = [pc EXCEPT ![c] = "walk"]
      BY <2>1, <3>1
    <3>3. \E q \in Seq(Actions) : todo' = [todo EXCEPT ![c] = q]
      BY <2>4, <3>1, WalkTyped DEF Enter, PassOver, GiveUp, MInv
    <3>. QED
      BY <3>2, <3>3
  <2>. QED
    BY <2>2, <2>3, <2>4
<1>4. /\ pc'[c] = p
      /\ \A d \in Coordinators : d # c => pc'[d] = pc[d] /\ todo'[d] = todo[d]
  BY <1>3 DEF MInv, TypeOK
<1>5. ASSUME NEW d \in Coordinators, pc'[d] = "picked"
      PROVE  pc[d] = "picked" /\ todo'[d] = todo[d]
  BY <1>4, <1>5
<1>6. TypeOK'
  <2>1. \A d \in Coordinators :
          pc'[d] = "picked" => todo'[d] # <<>> /\ Head(todo'[d]) \in Singles
    BY <1>5 DEF MInv, TypeOK, Visited
  <2>. QED
    BY <1>1, <1>2, <1>3, <2>1 DEF MInv, TypeOK, Visited
<1>7. \A d \in Coordinators : pc'[d] = "picked" => job[d][Visited(d)'] = "none"
  BY <1>5 DEF MInv, OnceInv, Visited
<1>. QED
  BY <1>1, <1>2, <1>6, <1>7, SameJobs

LEMMA PickKeeps ==
  ASSUME MInv, NEW c \in Coordinators, Pick(c)
  PROVE  MInv'
<1>1. /\ Visited(c) \in Singles /\ status[Visited(c)] = "PENDING" /\ todo[c] # <<>>
      /\ pc' = [pc EXCEPT ![c] = "picked"]
      /\ UNCHANGED <<status, todo, job, runs>>
  BY DEF Pick, Ready, Visiting
<1>2. \A d \in Coordinators : Visited(d)' = Visited(d)
  BY <1>1 DEF Visited
<1>3. \A d \in Coordinators : pc'[d] = "picked" => d = c \/ pc[d] = "picked"
  BY <1>1 DEF MInv, TypeOK
<1>4. TypeOK'
  <2>1. pc' \in [Coordinators -> {"idle", "check", "walk", "picked", "reported"}]
    BY <1>1 DEF MInv, TypeOK
  <2>. QED
    BY <1>1, <1>2, <1>3, <2>1 DEF MInv, TypeOK
<1>5. job[c][Visited(c)] = "none"
  BY <1>1 DEF MInv, OnceInv
<1>6. \A d \in Coordinators : pc'[d] = "picked" => job[d][Visited(d)'] = "none"
  BY <1>2, <1>3, <1>5 DEF MInv, OnceInv
<1>. QED
  BY <1>1, <1>4, <1>6, SameJobs

LEMMA RefreshKeeps ==
  ASSUME MInv, NEW g \in Groups, Refresh(g)
  PROVE  MInv'
<1>1. UNCHANGED <<pc, todo, job, runs>>
  BY DEF Refresh
<1>2. g \in Actions /\ g \notin Singles
  BY PlanAssumption DEF Singles
<1>3. GroupStatus(status[g], {status[a] : a \in Kids(g)}) \in Statuses
  BY DEF GroupStatus, Statuses
<1>4. /\ status' \in [Actions -> Statuses]
      /\ \A x \in Singles : status[x] # "PENDING" => status'[x] # "PENDING"
  BY <1>2, <1>3, NoneBackToPending DEF Refresh, MInv
<1>5. TypeOK'
  BY <1>1, <1>4 DEF MInv, TypeOK, Visited
<1>6. \A d \in Coordinators : pc'[d] = "picked" => job[d][Visited(d)'] = "none"
  BY <1>1 DEF MInv, OnceInv, Visited
<1>. QED
  BY <1>1, <1>4, <1>5, <1>6, SameJobs

-----------------------------------------------------------------------------
(* Steps that give a coordinator's task for a leaf another state.           *)

LEMMA JobEffect ==
  ASSUME TypeOK, NEW c \in Coordinators, NEW a \in Singles,
         NEW j \in {"queued", "running", "refused", "ended", "died"},
         job' = [job EXCEPT ![c][a] = j]
  PROVE  /\ job' \in [Coordinators -> [Singles ->
               {"none", "queued", "running", "refused", "ended", "died"}]]
         /\ job'[c][a] = j
         /\ \A d \in Coordinators : \A x \in Singles :
              d # c \/ x # a => job'[d][x] = job[d][x]
BY DEF TypeOK

(* The calls stay counted.                                                  *)
LEMMA StillCounted ==
  ASSUME FinitelyOften, TypeOK, CallersInv,
         NEW c \in Coordinators, NEW a \in Singles,
         \A d \in Coordinators : \A x \in Singles :
           d # c \/ x # a => job'[d][x] = job[d][x],
         \/ runs' = runs /\ (job[c][a] \in HasRun <=> job'[c][a] \in HasRun)
         \/ /\ runs' = [runs EXCEPT ![a] = @ + 1]
            /\ job[c][a] \notin HasRun /\ job'[c][a] \in HasRun
  PROVE  CallersInv'
<1>1. ASSUME NEW x \in Singles, x # a
      PROVE  runs'[x] = Cardinality(Callers(x)')
  <2>1. Callers(x)' = Callers(x)
    BY <1>1 DEF Callers
  <2>2. runs'[x] = runs[x]
    BY <1>1 DEF TypeOK
  <2>. QED
    BY <2>1, <2>2 DEF CallersInv
<1>2. runs'[a] = Cardinality(Callers(a)')
  <2>1. CASE runs' = runs /\ (job[c][a] \in HasRun <=> job'[c][a] \in HasRun)
    <3>1. Callers(a)' = Callers(a)
      BY <2>1 DEF Callers
    <3>. QED
      BY <2>1, <3>1 DEF CallersInv
  <2>2. CASE /\ runs' = [runs EXCEPT ![a] = @ + 1]
             /\ job[c][a] \notin HasRun /\ job'[c][a] \in HasRun
    <3>1. Callers(a)' = Callers(a) \cup {c} /\ c \notin Callers(a)
      BY <2>2 DEF Callers
    <3>2. IsFiniteSet(Callers(a))
      BY FS_Subset DEF FinitelyOften, Callers
    <3>3. Cardinality(Callers(a)') = Cardinality(Callers(a)) + 1
      BY <3>1, <3>2, FS_AddElement
    <3>4. runs'[a] = runs[a] + 1
      BY <2>2 DEF TypeOK
    <3>. QED
      BY <3>3, <3>4 DEF CallersInv
  <2>. QED
    BY <2>1, <2>2
<1>. QED
  BY <1>1, <1>2 DEF CallersInv

LEMMA LaunchKeeps ==
  ASSUME FinitelyOften, MInv, NEW c \in Coordinators, Launch(c)
  PROVE  MInv'
<1>. DEFINE a == Visited(c)
<1>1. a \in Singles /\ a \in Actions /\ job[c][a] = "none" /\ pc[c] = "picked"
  BY DEF Launch, MInv, TypeOK, OnceInv, Singles
<1>2. /\ job' \in [Coordinators -> [Singles ->
            {"none", "queued", "running", "refused", "ended", "died"}]]
      /\ job'[c][a] = "queued"
      /\ \A d \in Coordinators : \A x \in Singles :
           d # c \/ x # a => job'[d][x] = job[d][x]
  <2>1. job' = [job EXCEPT ![c][a] = "queued"]
    BY DEF Launch
  <2>. HIDE DEF a
  <2>. QED
    BY <1>1, <2>1, JobEffect DEF MInv
<1>3. /\ status' \in [Actions -> Statuses]
      /\ \A x \in Singles : status[x] # "PENDING" => status'[x] # "PENDING"
  BY <1>1, NoneBackToPending DEF Launch, MInv, Statuses
<1>4. status'[a] # "PENDING"
  BY <1>1 DEF Launch, SetStatus
<1>5. /\ pc' = [pc EXCEPT ![c] = "check"] /\ todo' = [todo EXCEPT ![c] = <<>>]
      /\ runs' = runs /\ <<>> \in Seq(Actions)
  BY DEF Launch
<1>6. \A d \in Coordinators : pc'[d] = "picked" =>
        d # c /\ pc[d] = "picked" /\ todo'[d] = todo[d]
  BY <1>5 DEF MInv, TypeOK
<1>7. \A d \in Coordinators : pc'[d] = "picked" =>
        Head(todo'[d]) = Visited(d) /\ todo'[d] # <<>> /\ Visited(d) \in Singles
  BY <1>6 DEF MInv, TypeOK, Visited
<1>8. TypeOK'
  <2>1. /\ pc' \in [Coordinators -> {"idle", "check", "walk", "picked", "reported"}]
        /\ todo' \in [Coordinators -> Seq(Actions)]
        /\ runs' \in [Singles -> Nat]
    BY <1>5 DEF MInv, TypeOK
  <2>. HIDE DEF a
  <2>2. \A d \in Coordinators :
          pc'[d] = "picked" => todo'[d] # <<>> /\ Head(todo'[d]) \in Singles
    BY <1>7
  <2>. QED
    BY <1>2, <1>3, <2>1, <2>2 DEF TypeOK, Visited
<1>9. OnceInv'
  <2>. HIDE DEF a
  <2>1. \A d \in Coordinators : \A x \in Singles :
          job'[d][x] # "none" => status'[x] # "PENDING"
    BY <1>2, <1>3, <1>4 DEF MInv, OnceInv
  <2>2. \A d \in Coordinators :
          pc'[d] = "picked" => job'[d][Head(todo'[d])] = "none"
    BY <1>2, <1>6, <1>7 DEF MInv, OnceInv
  <2>. QED
    BY <2>1, <2>2 DEF OnceInv, Visited
<1>10. CallersInv'
  <2>. HIDE DEF a
  <2>1. job[c][a] \notin HasRun /\ job'[c][a] \notin HasRun
    BY <1>1, <1>2 DEF HasRun
  <2>. QED
    BY <1>1, <1>2, <1>5, <2>1, StillCounted DEF MInv
<1>. QED
  BY <1>8, <1>9, <1>10 DEF MInv

LEMMA WorkKeeps ==
  ASSUME FinitelyOften, MInv, NEW c \in Coordinators, NEW a \in Singles, Work(c, a)
  PROVE  MInv'
<1>1. PICK j \in {"running", "refused", "ended", "died"} :
        /\ job' = [job EXCEPT ![c][a] = j]
        /\ \/ j = "running" /\ job[c][a] = "queued" /\ runs' = [runs EXCEPT ![a] = @ + 1]
           \/ j = "refused" /\ job[c][a] = "queued" /\ runs' = runs
           \/ j \in {"ended", "died"} /\ job[c][a] = "running" /\ runs' = runs
  BY DEF Work, Begin, Refuse, Succeed, Fail, Finish, Die
<1>2. UNCHANGED <<pc, todo>>
  BY DEF Work, Begin, Refuse, Succeed, Fail, Finish, Die
<1>3. /\ job' \in [Coordinators -> [Singles ->
            {"none", "queued", "running", "refused", "ended", "died"}]]
      /\ job'[c][a] = j
      /\ \A d \in Coordinators : \A x \in Singles :
           d # c \/ x # a => job'[d][x] = job[d][x]
  BY <1>1, JobEffect DEF MInv
<1>4. /\ status' \in [Actions -> Statuses]
      /\ \A x \in Singles : status[x] # "PENDING" => status'[x] # "PENDING"
  <2>1. CASE UNCHANGED status
    BY <2>1 DEF MInv, TypeOK
  <2>2. ASSUME NEW s \in {"SUCCESSFUL", "FAILED"}, SetStatus(a, s)
        PROVE  /\ status' \in [Actions -> Statuses]
               /\ \A x \in Singles : status[x] # "PENDING" => status'[x] # "PENDING"
    BY <2>2, NoneBackToPending DEF MInv, Singles, Statuses
  <2>. QED
    BY <2>1, <2>2 DEF Work, Begin, Refuse, Succeed, Fail, Finish, Die
<1>5. runs' \in [Singles -> Nat]
  <2>1. runs \in [Singles -> Nat]
    BY DEF MInv, TypeOK
  <2>2. CASE runs' = [runs EXCEPT ![a] = @ + 1]
    BY <2>1, <2>2
  <2>3. CASE runs' = runs
    BY <2>1, <2>3
  <2>. QED
    BY <1>1, <2>2, <2>3
<1>6. TypeOK'
  BY <1>2, <1>3, <1>4, <1>5 DEF MInv, TypeOK, Visited
<1>7. OnceInv'
  <2>1. job[c][a] # "none"
    BY <1>1
  <2>2. \A d \in Coordinators : \A x \in Singles :
          job'[d][x] # "none" => status'[x] # "PENDING"
    BY <1>3, <1>4, <2>1 DEF MInv, OnceInv
  <2>3. ASSUME NEW d \in Coordinators, pc[d] = "picked"
        PROVE  job'[d][Visited(d)] = "none"
    <3>1. Visited(d) \in Singles /\ job[d][Visited(d)] = "none"
      BY <2>3 DEF MInv, TypeOK, OnceInv
    <3>. QED
      BY <1>3, <2>1, <3>1
  <2>. QED
    BY <1>2, <2>2, <2>3 DEF OnceInv, Visited
<1>8. CallersInv'
  BY <1>1, <1>3, StillCounted DEF MInv, HasRun
<1>. QED
  BY <1>6, <1>7, <1>8 DEF MInv

LEMMA InitCounted ==
  ASSUME Init
  PROVE  MInv
<1>1. TypeOK
  BY PlanAssumption DEF Init, TypeOK, Statuses
<1>2. OnceInv
  BY DEF Init, OnceInv
<1>3. \A a \in Singles : Callers(a) = {}
  BY DEF Init, Callers, HasRun
<1>4. CallersInv
  BY <1>3, FS_EmptySet DEF Init, CallersInv
<1>. QED
  BY <1>1, <1>2, <1>4 DEF MInv

THEOREM CountedInvariant ==
  ASSUME FinitelyOften
  PROVE  Spec => []MInv
<1>1. Init => MInv
  BY InitCounted
<1>2. MInv /\ [Next]_vars => MInv'
  <2>. SUFFICES ASSUME MInv, [Next]_vars
                PROVE  MInv'
    OBVIOUS
  <2>1. CASE \E g \in Groups : Refresh(g)
    BY <2>1, RefreshKeeps
  <2>2. ASSUME NEW c \in Coordinators, Execute(c) \/ Coordinate(c)
        PROVE  MInv'
    BY <2>2, WalkKeeps, PickKeeps, LaunchKeeps DEF Coordinate
  <2>3. ASSUME NEW c \in Coordinators, NEW a \in Singles, Work(c, a)
        PROVE  MInv'
    BY <2>3, WorkKeeps
  <2>4. CASE UNCHANGED vars
    BY <2>4 DEF vars, MInv, TypeOK, Visited, OnceInv, CallersInv, Callers
  <2>. QED
    BY <2>1, <2>2, <2>3, <2>4 DEF Next
<1>. QED
  BY <1>1, <1>2, PTL DEF Spec

(* The types hold of any number of coordinators and any plan.               *)
THEOREM TypeAlwaysCorrect ==
  ASSUME FinitelyOften
  PROVE  Spec => []TypeOK
<1>1. MInv => TypeOK
  BY DEF MInv
<1>. QED
  BY <1>1, CountedInvariant, PTL

(* However many coordinators ActionExecutor.execute has started on one plan *)
(* and however they interleave, the callable of a leaf is called at most    *)
(* once by each.                                                            *)
THEOREM OncePerCoordinator ==
  ASSUME FinitelyOften
  PROVE  Spec => []RunsOncePerCoordinator
<1>1. ASSUME MInv
      PROVE  RunsOncePerCoordinator
  <2>1. SUFFICES ASSUME NEW a \in Singles
                 PROVE  runs[a] <= Cardinality(Coordinators)
    BY DEF RunsOncePerCoordinator
  <2>2. Callers(a) \subseteq Coordinators
    BY DEF Callers
  <2>3. Cardinality(Callers(a)) <= Cardinality(Coordinators)
    BY <2>2, FS_Subset DEF FinitelyOften
  <2>. QED
    BY <1>1, <2>3 DEF MInv, CallersInv
<1>. QED
  BY <1>1, CountedInvariant, PTL
=============================================================================
