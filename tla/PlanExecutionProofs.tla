------------------------ MODULE PlanExecutionProofs ------------------------
(***************************************************************************)
(* The engine implements PlanExecution and never walks in vain, for every  *)
(* plan without hollow groups or cycles that one coordinator executes.     *)
(***************************************************************************)
EXTENDS ActionReportProofs, WellFoundedInduction

Members(a) == IF a \in Groups THEN Kids(a) ELSE {}

(* Among any actions, one has none of them inside it and awaits none.       *)
NoCycles ==
  \A S \in SUBSET Actions : S # {} =>
    \E a \in S : (Members(a) \cup Dependencies(a)) \cap S = {}

LEMMA CyclesEnd ==
  ASSUME NoCycles
  PROVE  PlanEnds
<1>1. SUFFICES ASSUME NEW S \in SUBSET Groups, S # {}
               PROVE  \E g \in S : (Kids(g) \cup Requires[g]) \cap S = {}
  BY DEF PlanEnds
<1>2. S \in SUBSET Actions
  BY PlanAssumption
<1>3. PICK g \in S : (Members(g) \cup Dependencies(g)) \cap S = {}
  BY <1>1, <1>2 DEF NoCycles
<1>. QED
  BY <1>3 DEF Members, Dependencies

LEMMA LeastRank ==
  ASSUME NEW A, NEW f \in [A -> Nat], NEW S \in SUBSET A, S # {}
  PROVE  \E a \in S : \A b \in S : f[a] <= f[b]
<1>. DEFINE R == {s \in Nat \X Nat : s[1] < s[2]}
            T == {f[a] : a \in S}
<1>1. IsWellFoundedOn(R, Nat)
  BY NatLessThanWellFounded, Zenon DEF OpToRel
<1>2. T \subseteq Nat /\ T # {}
  OBVIOUS
<1>3. PICK n \in T : \A m \in T : <<m, n>> \notin R
  <2>. HIDE DEF R, T
  <2>. QED
    BY <1>1, <1>2, WFMin, Zenon
<1>4. ASSUME NEW m \in T
      PROVE  n <= m
  <2>1. n \in Nat /\ m \in Nat /\ ~ (m < n)
    BY <1>2, <1>3, <1>4
  <2>. QED
    BY <2>1
<1>5. PICK a \in S : f[a] = n
  BY <1>3
<1>. QED
  BY <1>4, <1>5

(* What generateCompositeAction, actionSequence and the overridden          *)
(* getDependencies have to see to: the actions can be numbered so that all  *)
(* that is in or before an action comes before it, and the leaves so that   *)
(* each comes after those that have to succeed before it.                   *)
THEOREM NumberedPlansEnd ==
  ASSUME NEW f \in [Actions -> Nat],
         \A a \in Actions : \A b \in Members(a) \cup Dependencies(a) : f[b] < f[a]
  PROVE  NoCycles /\ PlanEnds
<1>1. ASSUME NEW S \in SUBSET Actions, S # {}
      PROVE  \E a \in S : (Members(a) \cup Dependencies(a)) \cap S = {}
  <2>1. PICK a \in S : \A b \in S : f[a] <= f[b]
    BY <1>1, LeastRank
  <2>2. ASSUME NEW b \in (Members(a) \cup Dependencies(a)) \cap S
        PROVE  FALSE
    <3>1. f[b] < f[a] /\ f[a] <= f[b] /\ f[a] \in Nat /\ f[b] \in Nat
      BY <2>1, <2>2
    <3>. QED
      BY <3>1
  <2>. QED
    BY <2>2
<1>. QED
  BY <1>1, CyclesEnd DEF NoCycles

THEOREM NumberedLeavesHaveTurns ==
  ASSUME NEW f \in [Singles -> Nat],
         \A a \in Singles : \A x \in Directly(a) : f[x] < f[a]
  PROVE  TurnsCome
<1>1. ASSUME NEW S \in SUBSET Singles, S # {}
      PROVE  \E a \in S : Directly(a) \cap S = {}
  <2>1. PICK a \in S : \A b \in S : f[a] <= f[b]
    BY <1>1, LeastRank
  <2>2. ASSUME NEW b \in Directly(a) \cap S
        PROVE  FALSE
    <3>1. f[b] < f[a] /\ f[a] <= f[b] /\ f[a] \in Nat /\ f[b] \in Nat
      BY <2>1, <2>2
    <3>. QED
      BY <3>1
  <2>. QED
    BY <2>2
<1>. QED
  BY <1>1 DEF TurnsCome

-----------------------------------------------------------------------------
(* BeforeLeaf as a closure.                                                 *)

LEMMA DirectlyBefore ==
  ASSUME NEW a \in Singles
  PROVE  Directly(a) \subseteq BeforeLeaf[a] /\ BeforeLeaf[a] \subseteq Singles
BY DEF BeforeLeaf, Directly

LEMMA BeforeLeast ==
  ASSUME NEW a \in Singles, NEW S \in SUBSET Singles,
         Directly(a) \subseteq S, \A y \in S : Directly(y) \subseteq S
  PROVE  BeforeLeaf[a] \subseteq S
BY DEF BeforeLeaf

LEMMA BeforeTransitive ==
  ASSUME NEW a \in Singles, NEW x \in Directly(a)
  PROVE  x \in BeforeLeaf[a] /\ BeforeLeaf[x] \subseteq BeforeLeaf[a]
<1>1. x \in BeforeLeaf[a] /\ x \in Singles
  BY DirectlyBefore
<1>2. SUFFICES ASSUME NEW S \in SUBSET Singles,
                      Directly(a) \subseteq S, \A y \in S : Directly(y) \subseteq S
               PROVE  BeforeLeaf[x] \subseteq S
  BY <1>1 DEF BeforeLeaf
<1>. QED
  BY <1>1, <1>2, BeforeLeast

(* All that comes before a leaf that is in order has succeeded.             *)
LEMMA BeforeSucceeded ==
  ASSUME IInv, NEW a \in Singles, InOrder(a)
  PROVE  \A x \in BeforeLeaf[a] : status[x] = "SUCCESSFUL"
<1>. DEFINE S == {x \in Singles : status[x] = "SUCCESSFUL"}
<1>1. ASSUME NEW y \in Singles, InOrder(y)
      PROVE  Directly(y) \subseteq S
  <2>1. SUFFICES ASSUME NEW x \in Singles, NEW b \in Above[y],
                        NEW d \in Above[x] \cap Dependencies(b)
                 PROVE  status[x] = "SUCCESSFUL"
    BY DEF Directly
  <2>2. status[d] = "SUCCESSFUL"
    BY <1>1 DEF InOrder
  <2>. QED
    BY <2>2, SuccessBelow DEF Singles
<1>2. ASSUME NEW y \in S
      PROVE  Directly(y) \subseteq S
  BY <1>1 DEF IInv, OrderInv, Started, Singles, Solid
<1>. QED
  BY <1>1, <1>2, BeforeLeast

-----------------------------------------------------------------------------
(* Every action that is FAILED or NOT_RUN has a FAILED leaf in or before it. *)

Blamed(x) == status[x] = "FAILED" \/ \E z \in BeforeLeaf[x] : status[z] = "FAILED"
Explained(b) == \E x \in Singles : b \in Above[x] /\ Blamed(x)

LEMMA AboveLeaf ==
  ASSUME NEW g \in Groups, NEW k \in Kids(g), NEW x \in Singles, k \in Above[x]
  PROVE  g \in Above[x]
BY AboveIsClosed DEF UpClosed, Singles

LEMMA LeafBelow ==
  ASSUME NoHollowGroups, NoCycles, NEW a \in Actions, Solid(a)
  PROVE  \E x \in Singles : a \in Above[x]
<1>. DEFINE S == {b \in Actions : Solid(b) /\ \A x \in Singles : b \notin Above[x]}
<1>1. SUFFICES ASSUME a \in S
               PROVE  FALSE
  OBVIOUS
<1>2. PICK b \in S : Members(b) \cap S = {}
  BY <1>1 DEF NoCycles
<1>3. b \in Groups
  BY AboveReflexive DEF Singles
<1>4. PICK k \in Kids(b) : k \in Actions /\ Solid(k) /\ k \notin S
  BY <1>2, <1>3, KidsAreActions DEF Members, NoHollowGroups, Solid
<1>. QED
  BY <1>3, <1>4, AboveLeaf

(* What an action that was given up depends on, and what is in a FAILED     *)
(* group: one that is no empty group is FAILED or was given up itself.      *)
LEMMA BrokenDependency ==
  ASSUME RInv, NEW b \in Actions, status[b] = "NOT_RUN"
  PROVE  \E d \in Dependencies(b) : status[d] \in Broken /\ Solid(d)
<1>1. PICK d \in Dependencies(b) : status[d] \in Broken
  BY DEF RInv, NotRunInv
<1>2. d \in Actions /\ Steady(d)
  BY DependenciesSteady
<1>3. CASE ~ Solid(d)
  <2>1. d \in Groups /\ Requires[d] = {}
    BY <1>2, <1>3 DEF Steady, Solid
  <2>2. Dependencies(d) = {}
    BY <2>1, PlanAssumption DEF Dependencies
  <2>3. status[d] # "NOT_RUN"
    BY <1>2, <2>2 DEF RInv, NotRunInv
  <2>. QED
    BY <1>1, <1>2, <1>3, <2>3, EmptyGroups DEF RInv, Broken
<1>. QED
  BY <1>1, <1>3

LEMMA BrokenMember ==
  ASSUME RInv, NEW g \in Groups, status[g] = "FAILED"
  PROVE  \E k \in Kids(g) : status[k] \in Broken /\ Solid(k)
<1>1. PICK k \in Kids(g) : status[k] \in Broken
  BY DEF RInv, IInv, GroupInv
<1>2. CASE ~ Solid(k)
  <2>1. k \in Actions /\ k \in Groups
    BY <1>2, KidsAreActions DEF Solid
  <2>2. status[k] = "NOT_RUN"
    BY <1>1, <1>2, <2>1, EmptyGroups DEF RInv, Broken
  <2>3. PICK d \in Dependencies(k) : status[d] \in Broken /\ Solid(d)
    BY <2>1, <2>2, BrokenDependency
  <2>4. d \in Requires[k]
    BY <2>1, <2>3, PlanAssumption DEF Dependencies
  <2>5. d \in Kids(g)
    BY <2>1, <2>4, SequenceAssumption, TreeAssumption
  <2>. QED
    BY <2>3, <2>5
<1>. QED
  BY <1>1, <1>2

(* A leaf under an action that was given up has a FAILED leaf before it if  *)
(* what the action depends on is explained.                                 *)
LEMMA ReasonBefore ==
  ASSUME RInv, NEW b \in Actions, status[b] = "NOT_RUN",
         \A d \in Dependencies(b) : status[d] \in Broken /\ Solid(d) => Explained(d),
         NEW t \in Singles, b \in Above[t]
  PROVE  \E z \in BeforeLeaf[t] : status[z] = "FAILED"
<1>1. PICK d \in Dependencies(b) : Explained(d)
  BY BrokenDependency
<1>2. PICK x \in Singles : d \in Above[x] /\ Blamed(x)
  BY <1>1 DEF Explained
<1>3. x \in Directly(t)
  BY <1>1, <1>2 DEF Directly
<1>. QED
  BY <1>2, <1>3, BeforeTransitive DEF Blamed

LEMMA AllExplained ==
  ASSUME RInv, NoHollowGroups, NoCycles,
         NEW a \in Actions, status[a] \in Broken, Solid(a)
  PROVE  Explained(a)
<1>. DEFINE S == {b \in Actions : status[b] \in Broken /\ Solid(b) /\ ~ Explained(b)}
<1>1. SUFFICES ASSUME a \in S
               PROVE  FALSE
  OBVIOUS
<1>2. PICK b \in S : (Members(b) \cup Dependencies(b)) \cap S = {}
  BY <1>1 DEF NoCycles
<1>3. CASE status[b] = "NOT_RUN"
  <2>1. \A d \in Dependencies(b) : status[d] \in Broken /\ Solid(d) => Explained(d)
    BY <1>2, DependenciesSteady
  <2>2. PICK t \in Singles : b \in Above[t]
    BY LeafBelow
  <2>. QED
    BY <1>3, <2>1, <2>2, ReasonBefore DEF Explained, Blamed
<1>4. CASE status[b] = "FAILED" /\ b \in Groups
  <2>1. PICK k \in Kids(b) : status[k] \in Broken /\ Solid(k)
    BY <1>4, BrokenMember
  <2>2. Explained(k)
    BY <1>2, <1>4, <2>1, KidsAreActions DEF Members
  <2>. QED
    BY <1>4, <2>2, AboveLeaf DEF Explained
<1>5. CASE status[b] = "FAILED" /\ b \notin Groups
  BY <1>5, AboveReflexive DEF Singles, Explained, Blamed
<1>. QED
  BY <1>3, <1>4, <1>5 DEF Broken

-----------------------------------------------------------------------------
(* The steps of the engine as steps of PlanExecution.                       *)

Progresses == [a \in Singles |-> Progress(a)]
Verdict ==
  IF \A c \in Coordinators : pc[c] # "reported" THEN "none"
  ELSE IF status[Top] = "SUCCESSFUL" THEN "succeeded" ELSE "failed"

(* Leaves that are not started show no progress when they are given up.     *)
LEMMA SameProgress ==
  ASSUME IInv, NEW a \in Actions, NEW s \in Statuses, Legal(a, s), SetStatus(a, s),
         a \in Singles => s = "NOT_RUN" /\ status[a] = "PENDING"
  PROVE  UNCHANGED Progresses
<1>1. SUFFICES ASSUME NEW x \in Singles
               PROVE  Progress(x)' = Progress(x)
  BY DEF Progresses
<1>2. x \in Actions
  BY DEF Singles
<1>3. CASE status'[x] = status[x]
  BY <1>3 DEF Progress
<1>4. CASE status'[x] # status[x]
  <2>1. status'[x] = "NOT_RUN"
    BY <1>2, <1>4 DEF SetStatus
  <2>2. ~ Started(x)
    <3>1. CASE x = a
      BY <3>1 DEF Started
    <3>2. CASE x # a
      BY <1>2, <1>4, <3>2, LegalSpares DEF Solid, Singles
    <3>. QED
      BY <3>1, <3>2
  <2>. QED
    BY <2>1, <2>2 DEF Progress, Started
<1>. QED
  BY <1>3, <1>4

(* A leaf that is set RUNNING, SUCCESSFUL or FAILED, and no other.          *)
LEMMA OneProgress ==
  ASSUME IInv, NEW a \in Singles, NEW s \in {"RUNNING", "SUCCESSFUL", "FAILED"},
         Legal(a, s), SetStatus(a, s)
  PROVE  /\ status'[a] = s
         /\ Progresses' = [Progresses EXCEPT ![a] =
              IF s = "RUNNING" THEN "underway"
              ELSE IF s = "SUCCESSFUL" THEN "succeeded" ELSE "failed"]
<1>1. a \in Actions /\ s \in Statuses
  BY DEF Singles, Statuses
<1>2. InOrder(a)
  BY DEF Legal, Solid, Singles
<1>3. ~ (s \in Broken /\ a \in Downstream[a])
  <2>1. s \in Broken => status[a] # "SUCCESSFUL"
    BY DEF Legal, Final, Done, Broken
  <2>. QED
    BY <1>1, <1>2, <2>1, DownstreamWaits DEF IInv
<1>4. status'[a] = s
  BY <1>1, <1>3 DEF SetStatus
<1>5. ASSUME NEW x \in Singles, x # a
      PROVE  Progress(x)' = Progress(x)
  <2>1. x \in Actions
    BY DEF Singles
  <2>2. CASE Started(x)
    <3>1. status'[x] = status[x]
      BY <1>1, <1>5, <2>1, <2>2, LegalSpares DEF Solid, Singles
    <3>. QED
      BY <3>1 DEF Progress
  <2>3. CASE ~ Started(x)
    <3>1. status'[x] \in {status[x], "NOT_RUN"}
      BY <1>5, <2>1 DEF SetStatus
    <3>. QED
      BY <2>3, <3>1 DEF Progress, Started
  <2>. QED
    BY <2>2, <2>3
<1>6. Progress(a)' = IF s = "RUNNING" THEN "underway"
                     ELSE IF s = "SUCCESSFUL" THEN "succeeded" ELSE "failed"
  BY <1>4 DEF Progress
<1>. QED
  BY <1>4, <1>5, <1>6 DEF Progresses

(* The verdict changes only when completion is reported.                    *)
LEMMA SameVerdict ==
  ASSUME RInv, NoHollowGroups, [Next]_vars,
         \A c \in Coordinators : pc[c] = "reported" <=> pc'[c] = "reported"
  PROVE  UNCHANGED Verdict
<1>1. Top \in Actions /\ Advances(Top)
  BY TopSteady, StepAdvances DEF RInv
<1>2. CASE \A c \in Coordinators : pc[c] # "reported"
  BY <1>2 DEF Verdict
<1>3. CASE \E c \in Coordinators : pc[c] = "reported"
  <2>1. status'[Top] = status[Top]
    BY <1>1, <1>3 DEF RInv, ReportInv, Advances, Final
  <2>. QED
    BY <1>3, <2>1 DEF Verdict
<1>. QED
  BY <1>2, <1>3

LEMMA NotReporting ==
  ASSUME RInv, [Next]_vars, \A c \in Coordinators : ~ Report(c)
  PROVE  \A c \in Coordinators : pc[c] = "reported" <=> pc'[c] = "reported"
<1>1. pc \in [Coordinators -> {"idle", "check", "walk", "picked", "reported"}]
  BY DEF RInv, IInv, TypeOK
<1>2. ASSUME NEW d \in Coordinators, Execute(d) \/ Coordinate(d)
      PROVE  \A c \in Coordinators : pc[c] = "reported" <=> pc'[c] = "reported"
  BY <1>1, <1>2
     DEF Execute, Coordinate, StartWalk, GiveUp, Enter, PassOver, Pick, Launch, Sleep,
         Visiting
<1>3. ASSUME NEW d \in Coordinators, NEW a \in Singles, Work(d, a)
      PROVE  UNCHANGED pc
  BY <1>3 DEF Work, Begin, Refuse, Succeed, Fail, Finish, Die
<1>. QED
  BY <1>2, <1>3 DEF Next, Refresh, vars

(* A worker starts nothing new: launching a leaf starts it.                 *)
LEMMA LaunchStarts ==
  ASSUME RInv, OneCoordinator, NEW c \in Coordinators, Launch(c), UNCHANGED Verdict
  PROVE  Plan!Start(Visited(c))
<1>1. Visited(c) \in Singles /\ status[Visited(c)] = "PENDING" /\ InOrder(Visited(c))
  BY DEF Launch, RInv, IInv, TypeOK, PickInv
<1>2. Legal(Visited(c), "RUNNING") /\ SetStatus(Visited(c), "RUNNING")
  BY LaunchIsLegal DEF Launch, RInv
<1>3. Progresses' = [Progresses EXCEPT ![Visited(c)] = "underway"]
  BY <1>1, <1>2, OneProgress DEF RInv
<1>4. Verdict = "none"
  BY DEF Launch, OneCoordinator, Verdict
<1>5. Progresses[Visited(c)] = "waiting"
  BY <1>1 DEF Progresses, Progress
<1>6. \A x \in BeforeLeaf[Visited(c)] : Progresses[x] = "succeeded"
  <2>1. \A x \in BeforeLeaf[Visited(c)] : status[x] = "SUCCESSFUL" /\ x \in Singles
    BY <1>1, BeforeSucceeded, DirectlyBefore DEF RInv
  <2>. QED
    BY <2>1 DEF Progresses, Progress
<1>. QED
  BY <1>3, <1>4, <1>5, <1>6 DEF Plan!Start, Progresses, Verdict

LEMMA FinishEnds ==
  ASSUME RInv, NEW c \in Coordinators, NEW a \in Singles, NEW s \in Done,
         Finish(c, a, s), UNCHANGED Verdict
  PROVE  Plan!End(a)
<1>1. status[a] = "RUNNING" /\ SetStatus(a, s)
  BY DEF Finish, RInv, IInv, JobInv
<1>2. Legal(a, s)
  BY FinishIsLegal DEF RInv
<1>3. Progresses[a] = "underway"
  BY <1>1 DEF Progresses, Progress
<1>4. Progresses' = [Progresses EXCEPT ![a] =
                       IF s = "SUCCESSFUL" THEN "succeeded" ELSE "failed"]
  BY <1>1, <1>2, OneProgress DEF Done, RInv
<1>. QED
  BY <1>3, <1>4 DEF Plan!End, Progresses, Verdict

LEMMA ReportConcludes ==
  ASSUME RInv, OneCoordinator, NoHollowGroups, NoCycles,
         NEW c \in Coordinators, Report(c)
  PROVE  Plan!Conclude
<1>1. /\ status[Top] \in Done /\ status' = status
      /\ pc[c] = "check" /\ pc' = [pc EXCEPT ![c] = "reported"]
  BY DEF Report
<1>2. /\ \A a \in Singles : status[a] # "RUNNING"
      /\ status[Top] = "SUCCESSFUL" <=> \A a \in Singles : status[a] = "SUCCESSFUL"
      /\ \A a \in Singles : status[a] = "PENDING" =>
           \E b \in Above[a] : status[b] = "NOT_RUN"
  BY <1>1, VerdictHolds, CyclesEnd
<1>3. Verdict = "none"
  BY <1>1 DEF OneCoordinator, Verdict
<1>4. Verdict' = IF status[Top] = "SUCCESSFUL" THEN "succeeded" ELSE "failed"
  <2>1. pc'[c] = "reported"
    BY <1>1 DEF RInv, IInv, TypeOK
  <2>. QED
    BY <1>1, <2>1 DEF Verdict
<1>5. UNCHANGED Progresses
  BY <1>1 DEF Progresses, Progress
<1>6. \A a \in Singles : Progresses[a] # "underway"
  BY <1>2 DEF Progresses, Progress
<1>7. (\A a \in Singles : Progresses[a] = "succeeded") <=> status[Top] = "SUCCESSFUL"
  BY <1>2 DEF Progresses, Progress
<1>8. ASSUME NEW t \in Singles, Progresses[t] = "waiting"
      PROVE  \E z \in BeforeLeaf[t] : Progresses[z] = "failed"
  <2>1. t \in Actions /\ status[t] \in {"PENDING", "NOT_RUN"}
    <3>1. t \in Actions /\ status[t] \in Statuses
      BY DEF Singles, RInv, IInv, TypeOK
    <3>. QED
      BY <1>8, <3>1 DEF Progresses, Progress, Statuses
  <2>2. PICK b \in Above[t] : status[b] = "NOT_RUN"
    BY <1>2, <2>1, AboveReflexive
  <2>3. b \in Actions
    BY <2>1, AboveReflexive
  <2>4. \A d \in Dependencies(b) : status[d] \in Broken /\ Solid(d) => Explained(d)
    BY <2>3, AllExplained, DependenciesSteady
  <2>5. PICK z \in BeforeLeaf[t] : status[z] = "FAILED"
    BY <2>2, <2>3, <2>4, ReasonBefore
  <2>6. z \in Singles
    BY DirectlyBefore
  <2>. QED
    BY <2>5, <2>6 DEF Progresses, Progress
<1>. QED
  BY <1>3, <1>4, <1>5, <1>6, <1>7, <1>8 DEF Plan!Conclude, Progresses, Verdict

LEMMA StepsExecute ==
  ASSUME RInv, OneCoordinator, NoHollowGroups, NoCycles, [Next]_vars
  PROVE  [Plan!Next]_<<Progresses, Verdict>>
<1>1. ASSUME NEW c \in Coordinators, Report(c)
      PROVE  Plan!Next
  BY <1>1, ReportConcludes DEF Plan!Next
<1>2. ASSUME \A c \in Coordinators : ~ Report(c)
      PROVE  UNCHANGED Verdict
  BY <1>2, NotReporting, SameVerdict
<1>3. ASSUME NEW c \in Coordinators, Launch(c), UNCHANGED Verdict
      PROVE  Plan!Next
  <2>1. Visited(c) \in Singles
    BY <1>3 DEF Launch, RInv, IInv, TypeOK
  <2>. QED
    BY <1>3, <2>1, LaunchStarts DEF Plan!Next
<1>4. ASSUME NEW c \in Coordinators, NEW a \in Singles, NEW s \in Done, Finish(c, a, s),
             UNCHANGED Verdict
      PROVE  Plan!Next
  BY <1>4, FinishEnds DEF Plan!Next
<1>5. ASSUME NEW g \in Groups, Refresh(g)
      PROVE  UNCHANGED Progresses
  <2>. DEFINE s == GroupStatus(status[g], Seen(g))
  <2>1. Legal(g, s) /\ SetStatus(g, s)
    BY <1>5, RefreshIsLegal DEF Refresh, Seen, RInv
  <2>2. g \in Actions /\ g \notin Singles /\ s \in Statuses
    BY <2>1 DEF Legal, Singles
  <2>. HIDE DEF s
  <2>. QED
    BY <2>1, <2>2, SameProgress DEF RInv
<1>6. ASSUME NEW c \in Coordinators, GiveUp(c)
      PROVE  UNCHANGED Progresses
  <2>1. Legal(Visited(c), "NOT_RUN") /\ SetStatus(Visited(c), "NOT_RUN")
        /\ status[Visited(c)] = "PENDING"
    BY <1>6, GiveUpIsLegal DEF GiveUp, HasBrokenDependency, RInv
  <2>. QED
    BY <2>1, SameProgress DEF RInv, Legal
<1>7. CASE UNCHANGED status
  BY <1>1, <1>2, <1>7 DEF Progresses, Progress
<1>8. ASSUME NEW c \in Coordinators,
             \/ Execute(c) \/ StartWalk(c)
             \/ Enter(c) \/ PassOver(c) \/ Pick(c) \/ Sleep(c)
      PROVE  UNCHANGED status
  BY <1>8 DEF Execute, StartWalk, Enter, PassOver, Pick, Sleep
<1>9. ASSUME NEW c \in Coordinators, NEW a \in Singles,
             Begin(c, a) \/ Refuse(c, a) \/ Die(c, a)
      PROVE  UNCHANGED status
  BY <1>9 DEF Begin, Refuse, Die
<1>10. CASE \E c \in Coordinators : Report(c)
  BY <1>1, <1>10
<1>11. CASE \A c \in Coordinators : ~ Report(c)
  <2>1. UNCHANGED Verdict
    BY <1>2, <1>11
  <2>. QED
    BY <2>1, <1>3, <1>4, <1>5, <1>6, <1>7, <1>8, <1>9, <1>11
    DEF Next, Coordinate, Work, Succeed, Fail, Done, vars
<1>. QED
  BY <1>10, <1>11

(* ActionExecutor.execute runs each leaf once and after all that its place  *)
(* in the nested sequences puts before it, and reports when nothing is left *)
(* to run, with the verdict of the leaves.                                  *)
THEOREM EngineExecutesPlan ==
  ASSUME OneCoordinator, NoHollowGroups, NoCycles
  PROVE  Spec => ExecutesPlan
<1>1. Init => Plan!Init
  <2>. SUFFICES ASSUME Init PROVE Plan!Init
    OBVIOUS
  <2>1. \A a \in Singles : Progress(a) = "waiting"
    BY DEF Init, Progress, Singles
  <2>. QED
    BY <2>1 DEF Init, Plan!Init
<1>2. RInv /\ [Next]_vars => [Plan!Next]_<<Progresses, Verdict>>
  BY StepsExecute
<1>. QED
  BY <1>1, <1>2, ReportInvariant, PTL DEF Spec, ExecutesPlan, Plan!Spec, Progresses, Verdict
-----------------------------------------------------------------------------
(* The coordinator never walks in vain.                                     *)

Open(a) == \A b \in Above[a] : status[b] \notin Final

LEMMA AboveTransitive ==
  ASSUME NEW a \in Actions, NEW b \in Above[a]
  PROVE  Above[b] \subseteq Above[a]
<1>1. UpClosed(Above[a]) /\ Above[a] \in SUBSET Actions /\ b \in Actions
  BY AboveIsClosed, AboveReflexive
<1>. QED
  BY <1>1, ClosureAssumption

LEMMA OnlyGroupsAbove ==
  ASSUME NEW a \in Actions
  PROVE  Above[a] \subseteq {a} \cup Groups
<1>. DEFINE S == {a} \cup Groups
<1>1. S \in SUBSET Actions /\ a \in S /\ UpClosed(S)
  BY PlanAssumption DEF UpClosed
<1>. QED
  BY <1>1, ClosureAssumption

(* Among actions on one path, one has none of the others above it.          *)
LEMMA Topmost ==
  ASSUME NEW a \in Actions, NEW B \in SUBSET Above[a], B # {}
  PROVE  \E b \in B : Above[b] \cap B \subseteq {b}
<1>1. SUFFICES ASSUME \A b \in B : ~ (Above[b] \cap B \subseteq {b})
               PROVE  FALSE
  OBVIOUS
<1>. DEFINE S == {x \in Above[a] : Above[x] \cap B # {}}
<1>2. S \in SUBSET Actions /\ a \in S
  BY AboveReflexive
<1>3. ASSUME NEW g \in Groups, NEW x \in Kids(g), x \in S
      PROVE  g \in S
  <2>1. g \in Above[a]
    BY <1>3, AboveIsClosed DEF UpClosed
  <2>2. Above[x] \subseteq {x} \cup Above[g]
    BY AboveKid
  <2>. QED
    BY <1>1, <1>3, <2>1, <2>2
<1>4. UpClosed(S)
  BY <1>3 DEF UpClosed
<1>5. Top \in S
  BY <1>2, <1>4, PlanAssumption, TreeAssumption, ClosureAssumption
<1>6. Above[Top] = {Top}
  BY PlanAssumption, TreeAssumption, AboveRoot
<1>. QED
  BY <1>1, <1>5, <1>6

(* A group that is up to date and not ended has a member that is not.       *)
LEMMA OpenMember ==
  ASSUME TypeOK, NEW g \in Groups, ~ OutOfDate(g), status[g] \notin Final
  PROVE  \E k \in Kids(g) : status[k] \notin Final
<1>. DEFINE seen == {status[k] : k \in Kids(g)}
<1>1. GroupStatus(status[g], seen) \notin Final
  BY DEF OutOfDate
<1>. HIDE DEF seen
<1>2. "RUNNING" \in seen \/ "PENDING" \in seen
  BY <1>1 DEF GroupStatus, Final, Done, Broken
<1>. QED
  BY <1>2 DEF seen, Final, Done, Broken

LEMMA OpenLeaf ==
  ASSUME TypeOK, PlanEnds, \A g \in Groups : ~ OutOfDate(g),
         NEW a \in Actions, Open(a)
  PROVE  \E x \in Singles : Open(x) /\ a \in Above[x]
<1>. DEFINE S == {g \in Groups : Open(g) /\ a \in Above[g]}
<1>1. CASE a \in Singles
  BY <1>1, AboveReflexive
<1>2. CASE a \in Groups
  <2>1. a \in S
    BY <1>2, AboveReflexive
  <2>2. PICK g \in S : Kids(g) \cap S = {}
    BY <2>1 DEF PlanEnds
  <2>3. g \in Actions /\ status[g] \notin Final
    BY KidsAreActions, AboveReflexive DEF Open
  <2>4. PICK k \in Kids(g) : status[k] \notin Final
    BY <2>3, OpenMember
  <2>5. k \in Actions /\ Open(k) /\ a \in Above[k]
    BY <2>4, KidsAreActions, AboveKid, AboveParent DEF Open
  <2>. QED
    BY <2>2, <2>5 DEF Singles
<1>. QED
  BY <1>1, <1>2 DEF Singles

(* The plan itself is never given up.                                       *)
LEMMA TopIsOpen ==
  ASSUME RInv, TurnsCome, status[Top] \notin Done
  PROVE  Top \in Actions /\ Open(Top)
<1>1. Top \in Actions /\ Above[Top] = {Top}
  BY PlanAssumption, TreeAssumption, AboveRoot
<1>2. ASSUME status[Top] = "NOT_RUN"
      PROVE  FALSE
  <2>1. PICK d \in Dependencies(Top) : status[d] \in Broken
    BY <1>1, <1>2 DEF RInv, NotRunInv
  <2>2. d \in Awaits[Top] /\ d \in Singles
    BY <1>1, <2>1, PlanAssumption, SequenceAssumption, TreeAssumption DEF Dependencies
  <2>3. Top \in Above[d] /\ d \in Above[d]
    BY <2>2, AboveReflexive, TreeAssumption DEF Singles
  <2>4. d \in Directly(d)
    BY <2>1, <2>2, <2>3 DEF Directly
  <2>5. \E x \in {d} : Directly(x) \cap {d} = {}
    BY <2>2 DEF TurnsCome
  <2>. QED
    BY <2>4, <2>5
<1>. QED
  BY <1>1, <1>2 DEF Open, Final, Done, Broken

(* What a leaf depends on, when no other leaf could have its turn before it.*)
LEMMA TurnHasCome ==
  ASSUME RInv, PlanEnds, \A g \in Groups : ~ OutOfDate(g),
         \A x \in Singles : status[x] # "RUNNING",
         \A x \in Singles : status[x] = "PENDING" =>
           \A d \in Awaits[x] : ~ Abandoned(d),
         NEW a \in Singles, Open(a), \A x \in Directly(a) : ~ Open(x),
         NEW b \in Above[a], NEW d \in Dependencies(b)
  PROVE  status[d] \in Final
<1>1. SUFFICES ASSUME status[d] \notin Final
               PROVE  FALSE
  OBVIOUS
<1>2. a \in Actions /\ b \in Actions /\ d \in Actions /\ TypeOK
  BY AboveReflexive, DependenciesSteady DEF Singles, RInv, IInv
<1>3. ~ Open(d)
  <2>1. SUFFICES ASSUME Open(d) PROVE FALSE
    OBVIOUS
  <2>2. PICK x \in Singles : Open(x) /\ d \in Above[x]
    BY <1>2, <2>1, OpenLeaf
  <2>. QED
    BY <2>2 DEF Directly
<1>4. CASE d \in Requires[b]
  <2>1. PICK g \in Groups : b \in Kids(g) /\ d \in Kids(g)
    BY <1>2, <1>4, SequenceAssumption
  <2>2. Above[g] \subseteq Above[a] /\ Above[d] \subseteq {d} \cup Above[g]
    BY <1>2, <2>1, AboveParent, AboveKid, AboveTransitive
  <2>. QED
    BY <1>1, <1>3, <2>2 DEF Open
<1>5. CASE d \in Awaits[b]
  <2>1. b = a /\ d \in Singles
    BY <1>2, <1>5, OnlyGroupsAbove, PlanAssumption
  <2>2. status[a] = "PENDING" /\ status[d] = "PENDING"
    BY <1>1, <1>2, <2>1, AboveReflexive
    DEF Open, TypeOK, Statuses, Final, Done, Broken
  <2>3. \A x \in Above[d] : status[x] # "NOT_RUN"
    BY <1>5, <2>1, <2>2 DEF Abandoned
  <2>4. PICK x \in Above[d] : status[x] \in Done
    BY <1>3, <2>3 DEF Open, Final, Done, Broken
  <2>. QED
    BY <1>1, <1>2, <2>3, <2>4, DoneBelow DEF RInv, Final
<1>. QED
  BY <1>4, <1>5 DEF Dependencies

LEMMA SomethingIsAvailable ==
  ASSUME RInv, PlanEnds, TurnsCome, status[Top] \notin Done,
         \A g \in Groups : ~ OutOfDate(g),
         \A x \in Singles : status[x] # "RUNNING",
         \A x \in Singles : status[x] = "PENDING" =>
           \A d \in Awaits[x] : ~ Abandoned(d)
  PROVE  \E a \in Actions : Available(a)
<1>1. TypeOK
  BY DEF RInv, IInv
<1>. DEFINE Leaves == {x \in Singles : Open(x)}
<1>2. Leaves # {}
  BY <1>1, TopIsOpen, OpenLeaf
<1>3. PICK a \in Leaves : Directly(a) \cap Leaves = {}
  BY <1>2 DEF TurnsCome
<1>4. a \in Singles /\ a \in Actions /\ Open(a) /\ \A x \in Directly(a) : ~ Open(x)
  BY <1>3 DEF Directly, Singles
<1>5. ASSUME NEW b \in Above[a], NEW d \in Dependencies(b)
      PROVE  status[d] \in Final
  BY <1>4, TurnHasCome
<1>6. ASSUME NEW b \in Above[a]
      PROVE  b \in Actions /\ status[b] \in {"PENDING", "RUNNING"}
  BY <1>1, <1>4, AboveReflexive DEF Open, TypeOK, Statuses, Final, Done, Broken
<1>. DEFINE Fallen(b) == \E d \in Dependencies(b) : status[d] \in Broken
            B == {b \in Above[a] : Fallen(b)}
<1>7. ASSUME NEW b \in Above[a], ~ Fallen(b)
      PROVE  Ready(b) \/ status[b] = "RUNNING"
  BY <1>5, <1>6, <1>7 DEF Ready, Final, Done, Broken
<1>8. CASE B = {}
  <2>1. Ready(a)
    BY <1>4, <1>7, <1>8, AboveReflexive
  <2>2. \A g \in Above[a] \ {a} : Ready(g) \/ status[g] = "RUNNING"
    BY <1>7, <1>8
  <2>. QED
    BY <1>4, <2>1, <2>2 DEF Available
<1>9. CASE B # {}
  <2>1. PICK b \in B : Above[b] \cap B \subseteq {b}
    <3>1. B \in SUBSET Above[a]
      OBVIOUS
    <3>. HIDE DEF B
    <3>. QED
      BY <1>4, <1>9, <3>1, Topmost
  <2>2. b \in Actions /\ Above[b] \subseteq Above[a] /\ Fallen(b)
    BY <1>4, <1>6, AboveTransitive
  <2>3. status[b] = "PENDING"
    <3>1. SUFFICES ASSUME status[b] = "RUNNING" PROVE FALSE
      BY <1>6
    <3>2. Solid(b)
      BY <1>1, <3>1, OpenMember DEF Solid, Final, Done, Broken
    <3>3. InOrder(b)
      BY <2>2, <3>1, <3>2 DEF RInv, IInv, OrderInv, Started
    <3>. QED
      BY <2>2, <3>3, AboveReflexive DEF InOrder, Broken
  <2>4. \A g \in Above[b] \ {b} : Ready(g) \/ status[g] = "RUNNING"
    BY <1>7, <2>1, <2>2
  <2>. QED
    BY <2>2, <2>3, <2>4 DEF Available, HasBrokenDependency
<1>. QED
  BY <1>8, <1>9

(* As long as the plan is not done there is something to wait for or to do  *)
(* for ActionExecutor.execute, unless a leaf awaits one that was abandoned: *)
(* in every plan whose leaves can have their turn one after the other.      *)
THEOREM NoWalkInVain ==
  ASSUME OneCoordinator, NoHollowGroups, PlanEnds, TurnsCome
  PROVE  Spec => []NeverStuck
<1>1. RInv => NeverStuck
  BY SomethingIsAvailable DEF NeverStuck
<1>. QED
  BY <1>1, ReportInvariant, PTL
=============================================================================
