------------------------- MODULE ActionReportProofs -------------------------
(***************************************************************************)
(* What the completion that ActionExecutor.execute reports says of a plan, *)
(* for every plan without hollow groups that one coordinator executes.     *)
(***************************************************************************)
EXTENDS ActionEngineProofs

(* A plan has finitely many actions, none inside itself or required by      *)
(* itself: among any of its groups, one has no other inside or before it.   *)
PlanEnds ==
  \A S \in SUBSET Groups : S # {} =>
    \E g \in S : (Kids(g) \cup Requires[g]) \cap S = {}

(* An action is given up only behind one that has failed or was given up.   *)
NotRunInv ==
  \A b \in Actions : status[b] = "NOT_RUN" =>
    \E d \in Dependencies(b) : status[d] \in Broken

(* Only a plan that is done is reported.                                    *)
ReportInv == \A c \in Coordinators : pc[c] = "reported" => status[Top] \in Done

RInv == IInv /\ NotRunInv /\ ReportInv
-----------------------------------------------------------------------------
(* What is above an action, as a closure.                                   *)

LEMMA AboveIsClosed ==
  ASSUME NEW a \in Actions
  PROVE  UpClosed(Above[a])
<1>1. SUFFICES ASSUME NEW g \in Groups, Kids(g) \cap Above[a] # {}
               PROVE  g \in Above[a]
  BY DEF UpClosed
<1>2. PICK x \in Kids(g) : x \in Above[a]
  BY <1>1
<1>3. ASSUME NEW S \in SUBSET Actions, a \in S, UpClosed(S)
      PROVE  g \in S
  <2>1. x \in S
    BY <1>2, <1>3, ClosureAssumption
  <2>. QED
    BY <1>2, <1>3, <2>1 DEF UpClosed
<1>4. g \in Actions
  BY KidsAreActions
<1>. QED
  BY <1>3, <1>4, ClosureAssumption

-----------------------------------------------------------------------------
(* What setStatus gives up has reason to be given up.                       *)

LEMMA SetStatusKeepsReason ==
  ASSUME IInv, NotRunInv,
         NEW a \in Actions, NEW s \in Statuses, Legal(a, s), SetStatus(a, s),
         s = "NOT_RUN" =>
           status[a] = "NOT_RUN" \/ \E d \in Dependencies(a) : status[d] \in Broken
  PROVE  NotRunInv'
<1>1. \A x \in Actions : Steady(x) => Advances(x)
  BY LegalAdvances
<1>2. ASSUME NEW b \in Actions, \E d \in Dependencies(b) : status[d] \in Broken
      PROVE  \E d \in Dependencies(b) : status'[d] \in Broken
  <2>1. PICK d \in Dependencies(b) : status[d] \in Broken
    BY <1>2
  <2>2. d \in Actions /\ Steady(d)
    BY DependenciesSteady
  <2>3. status'[d] = status[d]
    BY <1>1, <2>1, <2>2 DEF Advances, Final
  <2>. QED
    BY <2>1, <2>3
<1>3. SUFFICES ASSUME NEW b \in Actions, status'[b] = "NOT_RUN"
               PROVE  \E d \in Dependencies(b) : status'[d] \in Broken
  BY DEF NotRunInv, Dependencies
<1>4. CASE s \in Broken /\ b \in Downstream[a]
  <2>1. PICK d \in Requires[b] : d \in Downstream[a] \cup {a}
    BY <1>4, DownstreamRequires
  <2>2. d \in Actions
    BY <2>1, DownstreamActions
  <2>3. status'[d] \in Broken
    BY <1>4, <2>1, <2>2 DEF SetStatus, Broken
  <2>. QED
    BY <2>1, <2>3 DEF Dependencies
<1>5. CASE ~ (s \in Broken /\ b \in Downstream[a]) /\ b = a
  <2>1. s = "NOT_RUN"
    BY <1>3, <1>5 DEF SetStatus
  <2>2. \E d \in Dependencies(a) : status[d] \in Broken
    BY <2>1 DEF NotRunInv
  <2>. QED
    BY <1>2, <1>5, <2>2
<1>6. CASE ~ (s \in Broken /\ b \in Downstream[a]) /\ b # a
  <2>1. status[b] = "NOT_RUN"
    BY <1>3, <1>6 DEF SetStatus
  <2>. QED
    BY <1>2, <2>1 DEF NotRunInv
<1>. QED
  BY <1>4, <1>5, <1>6

LEMMA ReasonKept ==
  ASSUME IInv, NotRunInv, NoHollowGroups, [Next]_vars
  PROVE  NotRunInv'
<1>1. CASE UNCHANGED status
  BY <1>1 DEF NotRunInv, Dependencies
<1>2. ASSUME NEW g \in Groups, Refresh(g)
      PROVE  NotRunInv'
  <2>. DEFINE s == GroupStatus(status[g], Seen(g))
  <2>1. Legal(g, s) /\ SetStatus(g, s)
    BY <1>2, RefreshIsLegal DEF Refresh, Seen
  <2>2. s = "NOT_RUN" => status[g] = "NOT_RUN"
    BY DEF GroupStatus
  <2>3. g \in Actions /\ s \in Statuses
    BY <2>1 DEF Legal
  <2>. HIDE DEF s
  <2>. QED
    BY <2>1, <2>2, <2>3, SetStatusKeepsReason
<1>3. ASSUME NEW c \in Coordinators, GiveUp(c)
      PROVE  NotRunInv'
  <2>1. Legal(Visited(c), "NOT_RUN") /\ SetStatus(Visited(c), "NOT_RUN")
        /\ \E d \in Dependencies(Visited(c)) : status[d] \in Broken
    BY <1>3, GiveUpIsLegal DEF GiveUp, HasBrokenDependency
  <2>. QED
    BY <2>1, SetStatusKeepsReason DEF Legal
<1>4. ASSUME NEW c \in Coordinators, Launch(c)
      PROVE  NotRunInv'
  BY <1>4, LaunchIsLegal, SetStatusKeepsReason DEF Launch, Legal
<1>5. ASSUME NEW c \in Coordinators, NEW a \in Singles, NEW s \in Done, Finish(c, a, s)
      PROVE  NotRunInv'
  BY <1>5, FinishIsLegal, SetStatusKeepsReason DEF Finish, Legal, Done
<1>6. ASSUME NEW c \in Coordinators,
             \/ Execute(c) \/ StartWalk(c) \/ Report(c)
             \/ Enter(c) \/ PassOver(c) \/ Pick(c) \/ Sleep(c)
      PROVE  UNCHANGED status
  BY <1>6 DEF Execute, StartWalk, Report, Enter, PassOver, Pick, Sleep
<1>7. ASSUME NEW c \in Coordinators, NEW a \in Singles,
             Begin(c, a) \/ Refuse(c, a) \/ Die(c, a)
      PROVE  UNCHANGED status
  BY <1>7 DEF Begin, Refuse, Die
<1>. QED
  BY <1>1, <1>2, <1>3, <1>4, <1>5, <1>6, <1>7
  DEF Next, Coordinate, Work, Succeed, Fail, Done, vars

LEMMA TopSteady ==
  Top \in Actions /\ Steady(Top)
<1>1. Requires[Top] = {}
  BY PlanAssumption, SequenceAssumption, TreeAssumption
<1>. QED
  BY <1>1, PlanAssumption DEF Steady

LEMMA ReportKept ==
  ASSUME IInv, ReportInv, NoHollowGroups, [Next]_vars
  PROVE  ReportInv'
<1>1. SUFFICES ASSUME NEW c \in Coordinators, pc'[c] = "reported"
               PROVE  status'[Top] \in Done
  BY DEF ReportInv
<1>2. Top \in Actions /\ Advances(Top)
  BY TopSteady, StepAdvances
<1>3. CASE pc[c] = "reported"
  BY <1>2, <1>3 DEF ReportInv, Advances, Final
<1>4. CASE pc[c] # "reported"
  <2>1. pc \in [Coordinators -> {"idle", "check", "walk", "picked", "reported"}]
    BY DEF IInv, TypeOK
  <2>2. ASSUME NEW d \in Coordinators, Execute(d) \/ Coordinate(d)
        PROVE  Report(c)
    BY <1>1, <1>4, <2>1, <2>2
       DEF Execute, Coordinate, StartWalk, Report, GiveUp, Enter, PassOver, Pick, Launch, Sleep
  <2>3. pc' # pc
    BY <1>1, <1>4
  <2>4. ASSUME NEW d \in Coordinators, NEW a \in Singles, Work(d, a)
        PROVE  FALSE
    BY <2>3, <2>4 DEF Work, Begin, Refuse, Succeed, Fail, Finish, Die
  <2>5. Report(c)
    BY <2>2, <2>3, <2>4 DEF Next, Refresh, vars
  <2>. QED
    BY <2>5 DEF Report
<1>. QED
  BY <1>3, <1>4

THEOREM ReportInvariant ==
  ASSUME OneCoordinator, NoHollowGroups
  PROVE  Spec => []RInv
<1>1. Init => RInv
  <2>. SUFFICES ASSUME Init PROVE RInv
    OBVIOUS
  <2>. QED
    BY InitEstablishes DEF Init, RInv, NotRunInv, ReportInv
<1>2. RInv /\ [Next]_vars => RInv'
  BY StepKeeps, ReasonKept, ReportKept DEF RInv
<1>. QED
  BY <1>1, <1>2, PTL DEF Spec

-----------------------------------------------------------------------------
(* An action under one that is done is done, or lies in or under an action  *)
(* that was given up.                                                       *)
LEMMA DoneBelow ==
  ASSUME IInv, NEW a \in Actions, NEW top \in Above[a], status[top] \in Done,
         \A b \in Above[a] : status[b] # "NOT_RUN"
  PROVE  status[a] \in Done
<1>. DEFINE T == {b \in Above[a] : status[b] \notin Done}
<1>1. SUFFICES ASSUME a \in T
               PROVE  FALSE
  BY AboveReflexive
<1>2. T \in SUBSET Actions
  BY AboveReflexive
<1>3. ASSUME NEW g \in Groups, NEW x \in Kids(g), x \in T
      PROVE  g \in T
  <2>1. g \in Above[a]
    BY <1>3, AboveIsClosed DEF UpClosed
  <2>2. status[x] \notin Final
    BY <1>3 DEF Final, Done, Broken
  <2>3. status[g] \notin Done
    BY <2>2 DEF IInv, GroupInv, Final, Done, Broken
  <2>. QED
    BY <2>1, <2>3
<1>4. UpClosed(T)
  BY <1>3 DEF UpClosed
<1>5. top \in T
  BY <1>1, <1>2, <1>4, ClosureAssumption
<1>. QED
  BY <1>5

(* Nothing above a leaf that was started is given up.                       *)
LEMMA StartedNotGivenUp ==
  ASSUME RInv, NEW a \in Singles, Started(a), NEW b \in Above[a]
  PROVE  status[b] # "NOT_RUN"
<1>1. \A d \in Dependencies(b) : status[d] = "SUCCESSFUL"
  BY DEF RInv, IInv, OrderInv, InOrder, Solid, Singles
<1>2. b \in Actions
  BY AboveReflexive DEF Singles
<1>. QED
  BY <1>1, <1>2 DEF RInv, NotRunInv, Broken

(* What lies in a SUCCESSFUL group is SUCCESSFUL.                           *)
LEMMA SuccessBelow ==
  ASSUME IInv, NEW a \in Actions, NEW b \in Above[a], status[b] = "SUCCESSFUL"
  PROVE  status[a] = "SUCCESSFUL"
<1>. DEFINE T == {x \in Actions : status[x] # "SUCCESSFUL"}
<1>1. ASSUME NEW g \in Groups, Kids(g) \cap T # {}
      PROVE  g \in T
  BY <1>1, KidsAreActions DEF IInv, GroupInv
<1>2. UpClosed(T)
  BY <1>1 DEF UpClosed
<1>3. a \in T => b \in T
  BY <1>2, ClosureAssumption
<1>. QED
  BY <1>3

(* A plan that did not succeed has a leaf that did not.                     *)
LEMMA FailureBelow ==
  ASSUME RInv, PlanEnds, status[Top] = "FAILED"
  PROVE  \E a \in Singles : status[a] # "SUCCESSFUL"
<1>1. SUFFICES ASSUME \A a \in Singles : status[a] = "SUCCESSFUL"
               PROVE  FALSE
  OBVIOUS
<1>. DEFINE B == {g \in Groups : status[g] \in Broken}
<1>2. ASSUME NEW x \in Actions, status[x] \in Broken
      PROVE  x \in B
  BY <1>1, <1>2 DEF Singles, Broken
<1>3. Top \in B
  BY <1>2, PlanAssumption DEF Broken
<1>4. PICK g \in B : (Kids(g) \cup Requires[g]) \cap B = {}
  BY <1>3 DEF PlanEnds
<1>5. CASE status[g] = "FAILED"
  <2>1. PICK x \in Kids(g) : status[x] \in Broken
    BY <1>5 DEF RInv, IInv, GroupInv
  <2>. QED
    BY <1>2, <1>4, <2>1, KidsAreActions
<1>6. CASE status[g] = "NOT_RUN"
  <2>1. g \in Actions
    BY KidsAreActions
  <2>2. PICK d \in Dependencies(g) : status[d] \in Broken
    BY <1>6, <2>1 DEF RInv, NotRunInv
  <2>3. d \in Requires[g] /\ d \in Actions
    BY <2>1, <2>2, PlanAssumption DEF Dependencies
  <2>. QED
    BY <1>2, <1>4, <2>2, <2>3
<1>. QED
  BY <1>5, <1>6 DEF Broken

(* What is so of a plan that is done.                                       *)
LEMMA VerdictHolds ==
  ASSUME RInv, PlanEnds, status[Top] \in Done
  PROVE  /\ \A a \in Singles : status[a] # "RUNNING"
         /\ status[Top] = "SUCCESSFUL" <=> \A a \in Singles : status[a] = "SUCCESSFUL"
         /\ \A a \in Singles : status[a] = "PENDING" =>
              \E b \in Above[a] : status[b] = "NOT_RUN"
<1>1. IInv /\ Singles \subseteq Actions
  BY DEF RInv, Singles
<1>2. ASSUME NEW a \in Singles, status[a] = "RUNNING"
      PROVE  FALSE
  <2>1. \A b \in Above[a] : status[b] # "NOT_RUN"
    BY <1>1, <1>2, StartedNotGivenUp DEF Started
  <2>. QED
    BY <1>1, <1>2, <2>1, DoneBelow, TreeAssumption DEF Done
<1>3. ASSUME NEW a \in Singles, status[a] = "PENDING"
      PROVE  \E b \in Above[a] : status[b] = "NOT_RUN"
  BY <1>1, <1>3, DoneBelow, TreeAssumption DEF Done
<1>4. status[Top] = "SUCCESSFUL" => \A a \in Singles : status[a] = "SUCCESSFUL"
  BY <1>1, SuccessBelow, TreeAssumption
<1>5. (\A a \in Singles : status[a] = "SUCCESSFUL") => status[Top] = "SUCCESSFUL"
  BY FailureBelow DEF Done
<1>. QED
  BY <1>2, <1>3, <1>4, <1>5

(* When ActionExecutor.execute reports completion no task of the plan is    *)
(* queued or running, the verdict is that of the leaves, and each leaf that *)
(* did not run lies in or under an action that was given up.                *)
THEOREM FaithfulReport ==
  ASSUME OneCoordinator, NoHollowGroups, PlanEnds
  PROVE  Spec => []ReportIsFaithful
<1>1. ASSUME RInv
      PROVE  ReportIsFaithful
  <2>1. ASSUME NEW c \in Coordinators, NEW a \in Singles, status[a] # "RUNNING"
        PROVE  job[c][a] \notin {"queued", "running"}
    BY <1>1, <2>1 DEF RInv, IInv, JobInv
  <2>2. ASSUME NEW c \in Coordinators, pc[c] = "reported"
        PROVE  status[Top] \in Done
    BY <1>1, <2>2 DEF RInv, ReportInv
  <2>. QED
    BY <1>1, <2>1, <2>2, VerdictHolds DEF ReportIsFaithful
<1>. QED
  BY <1>1, ReportInvariant, PTL
=============================================================================
