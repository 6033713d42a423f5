------------------------- MODULE ActionEngineProofs -------------------------
(***************************************************************************)
(* What holds of the engine for every plan without hollow groups that one  *)
(* coordinator executes.                                                   *)
(***************************************************************************)
EXTENDS ActionEngine, TLAPS

OneCoordinator == \A c, d \in Coordinators : c = d

(* A group may be empty, but not gather empty groups only.                  *)
Solid(a) == a \in Groups => Kids(a) # {}
NoHollowGroups == \A g \in Groups : Kids(g) # {} => \E k \in Kids(g) : Solid(k)

(* Every dependency of an action and of the groups around it is SUCCESSFUL. *)
InOrder(a) ==
  \A b \in Above[a] : \A d \in Dependencies(b) : status[d] = "SUCCESSFUL"

(* StartsInOrder, of groups that are not empty too.                         *)
OrderInv == \A a \in Actions : Solid(a) /\ Started(a) => InOrder(a)

(* Only members of a group that was entered, or of one whose turn has come, *)
(* are NOT_RUN.                                                             *)
SkipInv ==
  \A g \in Groups : \A a \in Kids(g) : status[a] = "NOT_RUN" => InOrder(g)

(* The stored status of a group is one its children still justify.          *)
GroupInv ==
  \A g \in Groups :
    /\ status[g] = "SUCCESSFUL" => \A a \in Kids(g) : status[a] = "SUCCESSFUL"
    /\ status[g] = "FAILED" => /\ \A a \in Kids(g) : status[a] \in Final
                               /\ \E a \in Kids(g) : status[a] \in Broken
    /\ status[g] = "RUNNING" => \E a \in Kids(g) : status[a] # "PENDING"

(* A task under way is of a RUNNING leaf; a queued one has not run yet.     *)
JobInv ==
  \A c \in Coordinators : \A a \in Singles :
    /\ job[c][a] \in {"queued", "running"} => status[a] = "RUNNING"
    /\ job[c][a] = "queued" => runs[a] = 0

(* The leaf a coordinator holds is still the one isReady found ready.       *)
PickInv ==
  \A c \in Coordinators : pc[c] = "picked" =>
    status[Visited(c)] = "PENDING" /\ InOrder(Visited(c))

(* The walk only visits members of groups whose turn has come.              *)
WalkInv ==
  \A c \in Coordinators : \A i \in DOMAIN todo[c] : \A g \in Groups :
    todo[c][i] \in Kids(g) => InOrder(g)

IInv ==
  /\ TypeOK
  /\ OrderInv /\ SkipInv /\ GroupInv
  /\ JobInv /\ RunsAtMostOnce
  /\ PickInv /\ WalkInv
-----------------------------------------------------------------------------
(* What lies above an action: itself, and what lies above its group.        *)

LEMMA AboveReflexive ==
  ASSUME NEW a \in Actions
  PROVE  a \in Above[a] /\ Above[a] \subseteq Actions
BY ClosureAssumption

LEMMA KidsAreActions ==
  ASSUME NEW g \in Groups
  PROVE  g \in Actions /\ Kids(g) \subseteq Actions
BY PlanAssumption DEF Kids

LEMMA AboveParent ==
  ASSUME NEW g \in Groups, NEW a \in Kids(g)
  PROVE  Above[g] \subseteq Above[a]
<1>1. a \in Actions /\ g \in Actions
  BY KidsAreActions
<1>2. SUFFICES ASSUME NEW b \in Above[g], NEW S \in SUBSET Actions,
                      a \in S, UpClosed(S)
               PROVE  b \in S
  BY <1>1, ClosureAssumption
<1>3. g \in S
  BY <1>2 DEF UpClosed
<1>. QED
  BY <1>1, <1>2, <1>3, ClosureAssumption

LEMMA AboveKid ==
  ASSUME NEW g \in Groups, NEW a \in Kids(g)
  PROVE  Above[a] \subseteq {a} \cup Above[g]
<1>1. a \in Actions /\ g \in Actions
  BY KidsAreActions
<1>. DEFINE S == {a} \cup Above[g]
<1>2. S \in SUBSET Actions /\ a \in S
  BY <1>1, AboveReflexive
<1>3. ASSUME NEW h \in Groups, Kids(h) \cap S # {}
      PROVE  h \in S
  <2>1. PICK x \in Kids(h) : x \in S
    BY <1>3
  <2>2. CASE x = a
    <3>1. h = g
      BY <2>1, <2>2, TreeAssumption
    <3>. QED
      BY <3>1, <1>1, AboveReflexive
  <2>3. CASE x \in Above[g]
    <3>1. ASSUME NEW T \in SUBSET Actions, g \in T, UpClosed(T)
          PROVE  h \in T
      <4>1. x \in T
        BY <2>3, <3>1, <1>1, ClosureAssumption
      <4>. QED
        BY <4>1, <3>1, <2>1 DEF UpClosed
    <3>2. h \in Actions
      BY KidsAreActions
    <3>3. h \in Above[g]
      BY <3>1, <3>2, <1>1, ClosureAssumption
    <3>. QED
      BY <3>3
  <2>. QED
    BY <2>1, <2>2, <2>3
<1>4. UpClosed(S)
  BY <1>3 DEF UpClosed
<1>. QED
  BY <1>1, <1>2, <1>4, ClosureAssumption

LEMMA AboveRoot ==
  ASSUME NEW a \in Actions, \A g \in Groups : a \notin Kids(g)
  PROVE  Above[a] = {a}
<1>1. {a} \in SUBSET Actions /\ UpClosed({a})
  BY DEF UpClosed
<1>. QED
  BY <1>1, AboveReflexive, ClosureAssumption

(* An action is in order when its own dependencies are SUCCESSFUL and its   *)
(* group is in order.                                                       *)
LEMMA InOrderStep ==
  ASSUME NEW a \in Actions,
         \A d \in Dependencies(a) : status[d] = "SUCCESSFUL",
         \A g \in Groups : a \in Kids(g) => InOrder(g)
  PROVE  InOrder(a)
<1>1. CASE \E g \in Groups : a \in Kids(g)
  <2>1. PICK g \in Groups : a \in Kids(g)
    BY <1>1
  <2>2. Above[a] \subseteq {a} \cup Above[g]
    BY <2>1, AboveKid
  <2>. QED
    BY <2>1, <2>2 DEF InOrder
<1>2. CASE \A g \in Groups : a \notin Kids(g)
  BY <1>2, AboveRoot DEF InOrder
<1>. QED
  BY <1>1, <1>2

LEMMA InOrderParent ==
  ASSUME NEW g \in Groups, NEW a \in Kids(g), InOrder(a)
  PROVE  InOrder(g)
BY AboveParent DEF InOrder

LEMMA InOrderOwn ==
  ASSUME NEW a \in Actions, InOrder(a)
  PROVE  \A d \in Dependencies(a) : status[d] = "SUCCESSFUL"
BY AboveReflexive DEF InOrder

(* An empty group is the first of its sequence or nobody depends on it.     *)
Steady(a) == Solid(a) \/ Requires[a] = {}

LEMMA DependenciesSteady ==
  ASSUME NEW a \in Actions, NEW d \in Dependencies(a)
  PROVE  d \in Actions /\ Steady(d)
<1>1. d \in Actions
  BY PlanAssumption DEF Dependencies, Singles
<1>2. CASE d \in Awaits[a]
  BY <1>1, <1>2, PlanAssumption DEF Steady, Solid, Singles
<1>3. CASE d \in Requires[a]
  BY <1>1, <1>3, EmptyGroupAssumption DEF Steady, Solid
<1>. QED
  BY <1>1, <1>2, <1>3 DEF Dependencies

-----------------------------------------------------------------------------
(* What setStatus reaches.                                                  *)

(* Every closed set contains it.                                            *)
LEMMA DownstreamLeast ==
  ASSUME NEW a \in Actions, NEW S \in SUBSET Actions, DownClosed(a, S)
  PROVE  Downstream[a] \subseteq S
BY ClosureAssumption

LEMMA DownstreamActions ==
  ASSUME NEW a \in Actions
  PROVE  Downstream[a] \subseteq Actions
BY ClosureAssumption

LEMMA DownstreamIsClosed ==
  ASSUME NEW a \in Actions
  PROVE  DownClosed(a, Downstream[a])
<1>1. SUFFICES ASSUME NEW x \in Actions, Requires[x] \cap (Downstream[a] \cup {a}) # {}
               PROVE  x \in Downstream[a]
  BY DEF DownClosed
<1>2. PICK d \in Requires[x] : d \in Downstream[a] \cup {a}
  BY <1>1
<1>3. ASSUME NEW S \in SUBSET Actions, DownClosed(a, S)
      PROVE  x \in S
  <2>1. d \in S \cup {a}
    BY <1>2, <1>3, DownstreamLeast
  <2>. QED
    BY <1>2, <1>3, <2>1 DEF DownClosed
<1>. QED
  BY <1>3, ClosureAssumption

(* Whatever is downstream of an action requires it, or what else is.        *)
LEMMA DownstreamRequires ==
  ASSUME NEW a \in Actions, NEW x \in Downstream[a]
  PROVE  Requires[x] \cap (Downstream[a] \cup {a}) # {}
<1>. DEFINE S == {y \in Downstream[a] : Requires[y] \cap (Downstream[a] \cup {a}) # {}}
<1>1. ASSUME NEW y \in Actions, Requires[y] \cap (S \cup {a}) # {}
      PROVE  y \in S
  <2>1. Requires[y] \cap (Downstream[a] \cup {a}) # {}
    BY <1>1
  <2>2. y \in Downstream[a]
    BY <2>1, DownstreamIsClosed DEF DownClosed
  <2>. QED
    BY <2>1, <2>2
<1>2. DownClosed(a, S) /\ S \in SUBSET Actions
  BY <1>1, DownstreamActions DEF DownClosed
<1>3. Downstream[a] \subseteq S
  BY <1>2, DownstreamLeast
<1>. QED
  BY <1>3

(* It stays within the sequence of the action.                              *)
LEMMA DownstreamSiblings ==
  ASSUME NEW a \in Actions, NEW x \in Downstream[a],
         NEW g \in Groups, x \in Kids(g)
  PROVE  a \in Kids(g)
<1>. DEFINE S == {y \in Actions : \A h \in Groups : y \in Kids(h) => a \in Kids(h)}
<1>1. ASSUME NEW y \in Actions, Requires[y] \cap (S \cup {a}) # {}
      PROVE  y \in S
  <2>1. PICK d \in Requires[y] : d \in S \cup {a}
    BY <1>1
  <2>2. PICK h \in Groups : {y, d} \subseteq Kids(h)
    BY <2>1, SequenceAssumption
  <2>3. a \in Kids(h)
    BY <2>1, <2>2
  <2>4. ASSUME NEW k \in Groups, y \in Kids(k) PROVE a \in Kids(k)
    BY <2>2, <2>3, <2>4, TreeAssumption
  <2>. QED
    BY <2>4
<1>2. DownClosed(a, S)
  BY <1>1 DEF DownClosed
<1>3. Downstream[a] \subseteq S
  BY <1>2, DownstreamLeast
<1>. QED
  BY <1>3

(* As long as the action is not SUCCESSFUL, everything downstream of it has *)
(* a dependency that is not, so it is not in order, nor has it started.     *)
LEMMA DownstreamWaits ==
  ASSUME TypeOK, OrderInv,
         NEW a \in Actions, status[a] # "SUCCESSFUL",
         NEW x \in Downstream[a]
  PROVE  ~ InOrder(x) /\ (Solid(x) => ~ Started(x)) /\ x \in Actions
<1>. DEFINE S == {y \in Actions : \E d \in Requires[y] : status[d] # "SUCCESSFUL"}
<1>1. ASSUME NEW y \in S
      PROVE  ~ InOrder(y) /\ (Solid(y) => ~ Started(y)) /\ y \in Actions
  BY InOrderOwn DEF OrderInv, Dependencies
<1>2. ASSUME NEW y \in Actions, Requires[y] \cap (S \cup {a}) # {}
      PROVE  y \in S
  <2>1. PICK d \in Requires[y] : d \in S \cup {a}
    BY <1>2
  <2>2. Steady(d) /\ d \in Actions
    BY <2>1, DependenciesSteady DEF Dependencies
  <2>3. status[d] # "SUCCESSFUL"
    BY <2>1, <2>2, <1>1 DEF Started, Steady
  <2>. QED
    BY <2>1, <2>3
<1>3. DownClosed(a, S)
  BY <1>2 DEF DownClosed
<1>4. x \in S
  BY <1>3, DownstreamLeast
<1>. QED
  BY <1>1, <1>4

-----------------------------------------------------------------------------
(* Every step sets at most one status, and may do so.                       *)

Seen(g) == {status[a] : a \in Kids(g)}

Legal(a, s) ==
  /\ a \in Actions /\ s \in Statuses
  /\ status[a] \in Final => s = status[a]
  /\ status[a] # "PENDING" => s # "PENDING"
  /\ s \in Broken => \A g \in Groups : a \in Kids(g) => InOrder(g)
  /\ s \in {"RUNNING", "SUCCESSFUL", "FAILED"} /\ Solid(a) => InOrder(a)
  /\ a \in Groups => s = "NOT_RUN" \/ s = GroupStatus(status[a], Seen(a))

(* Even an empty group does not go back from what is final or broken.       *)
Lasts(x) ==
  /\ status[x] # "PENDING" => status'[x] # "PENDING"
  /\ status[x] \in Final => status'[x] \in Final
  /\ status[x] \in Broken => status'[x] \in Broken

LEMMA LegalAdvances ==
  ASSUME IInv, NEW a \in Actions, NEW s \in Statuses, Legal(a, s), SetStatus(a, s)
  PROVE  /\ status' \in [Actions -> Statuses]
         /\ \A x \in Actions : Lasts(x)
         /\ \A x \in Actions : Steady(x) => Advances(x)
<1>1. status \in [Actions -> Statuses]
  BY DEF IInv, TypeOK
<1>2. status' \in [Actions -> Statuses]
  BY <1>1 DEF SetStatus, Statuses
<1>3. ASSUME NEW x \in Actions
      PROVE  Lasts(x) /\ (Steady(x) => Advances(x))
  <2>1. CASE s \in Broken /\ x \in Downstream[a]
    <3>1. status[a] # "SUCCESSFUL"
      BY <2>1 DEF Legal, Final, Done, Broken
    <3>2. Steady(x) => ~ Started(x)
      BY <2>1, <3>1, DownstreamWaits, DownstreamRequires DEF IInv, Steady
    <3>3. status'[x] = "NOT_RUN"
      BY <2>1 DEF SetStatus
    <3>. QED
      BY <3>2, <3>3, <1>1 DEF Advances, Lasts, Started, Statuses, Final, Done, Broken
  <2>2. CASE ~ (s \in Broken /\ x \in Downstream[a]) /\ x = a
    <3>1. status'[x] = s
      BY <2>2 DEF SetStatus
    <3>. QED
      BY <2>2, <3>1 DEF Advances, Lasts, Legal, Final
  <2>3. CASE ~ (s \in Broken /\ x \in Downstream[a]) /\ x # a
    BY <2>3 DEF SetStatus, Advances, Lasts
  <2>. QED
    BY <2>1, <2>2, <2>3
<1>. QED
  BY <1>2, <1>3

(* What is in order stays in order.                                         *)
LEMMA InOrderStays ==
  ASSUME \A x \in Actions : Steady(x) => Advances(x), NEW a \in Actions, InOrder(a)
  PROVE  InOrder(a)'
<1>1. ASSUME NEW b \in Above[a], NEW d \in Dependencies(b)
      PROVE  status'[d] = "SUCCESSFUL"
  <2>1. b \in Actions
    BY AboveReflexive
  <2>2. d \in Actions /\ Steady(d)
    BY <2>1, DependenciesSteady
  <2>3. status[d] = "SUCCESSFUL"
    BY DEF InOrder
  <2>. QED
    BY <2>2, <2>3 DEF Advances, Final, Done
<1>. QED
  BY <1>1 DEF InOrder, Dependencies

(* The members of a SUCCESSFUL group stay SUCCESSFUL.                       *)
LEMMA SuccessLasts ==
  ASSUME IInv, NEW a \in Actions, NEW s \in Statuses, Legal(a, s), SetStatus(a, s),
         NEW g \in Groups, \A x \in Kids(g) : status[x] = "SUCCESSFUL"
  PROVE  \A x \in Kids(g) : status'[x] = "SUCCESSFUL"
<1>1. SUFFICES ASSUME NEW x \in Kids(g)
               PROVE  status'[x] = "SUCCESSFUL"
  OBVIOUS
<1>2. x \in Actions
  BY KidsAreActions
<1>3. CASE s \in Broken /\ x \in Downstream[a]
  <2>1. a \in Kids(g)
    BY <1>3, DownstreamSiblings
  <2>. QED
    BY <1>3, <2>1 DEF Legal, Final, Done, Broken
<1>4. CASE ~ (s \in Broken /\ x \in Downstream[a])
  BY <1>2, <1>4 DEF SetStatus, Legal, Final, Done
<1>. QED
  BY <1>3, <1>4

LEMMA LegalKeepsOrder ==
  ASSUME IInv, NEW a \in Actions, NEW s \in Statuses, Legal(a, s), SetStatus(a, s)
  PROVE  OrderInv' /\ SkipInv' /\ GroupInv'
<1>1. status \in [Actions -> Statuses] /\ status' \in [Actions -> Statuses]
  BY LegalAdvances DEF IInv, TypeOK
<1>2. \A x \in Actions : Lasts(x) /\ (Steady(x) => Advances(x))
  BY LegalAdvances
<1>3. OrderInv'
  <2>1. SUFFICES ASSUME NEW x \in Actions, Solid(x), Started(x)'
                 PROVE  InOrder(x)'
    BY DEF OrderInv, Solid, Kids
  <2>2. InOrder(x)
    <3>1. CASE x = a
      <4>1. status'[x] = s
        BY <2>1, <3>1 DEF SetStatus, Started
      <4>. QED
        BY <2>1, <3>1, <4>1 DEF Legal, Started
    <3>2. CASE x # a
      <4>1. status'[x] = status[x]
        BY <2>1, <3>2 DEF SetStatus, Started
      <4>. QED
        BY <2>1, <4>1 DEF Started, IInv, OrderInv
    <3>. QED
      BY <3>1, <3>2
  <2>. QED
    BY <2>2, <1>2, InOrderStays
<1>4. SkipInv'
  <2>1. SUFFICES ASSUME NEW g \in Groups, NEW x \in Kids(g), status'[x] = "NOT_RUN"
                 PROVE  InOrder(g)'
    BY DEF SkipInv, Kids
  <2>2. g \in Actions /\ x \in Actions
    BY KidsAreActions
  <2>3. InOrder(g)
    <3>1. CASE s \in Broken /\ x \in Downstream[a]
      <4>1. a \in Kids(g)
        BY <3>1, DownstreamSiblings
      <4>. QED
        BY <3>1, <4>1 DEF Legal
    <3>2. CASE ~ (s \in Broken /\ x \in Downstream[a]) /\ x = a
      <4>1. status'[x] = s
        BY <3>2, <2>2 DEF SetStatus
      <4>. QED
        BY <4>1, <3>2, <2>1 DEF Legal, Broken
    <3>3. CASE ~ (s \in Broken /\ x \in Downstream[a]) /\ x # a
      <4>1. status[x] = "NOT_RUN"
        BY <3>3, <2>1, <2>2 DEF SetStatus
      <4>. QED
        BY <4>1 DEF IInv, SkipInv
    <3>. QED
      BY <3>1, <3>2, <3>3
  <2>. QED
    BY <2>2, <2>3, <1>2, InOrderStays
<1>5. GroupInv'
  <2>1. SUFFICES ASSUME NEW g \in Groups
        PROVE
        /\ status'[g] = "SUCCESSFUL" => \A x \in Kids(g) : status'[x] = "SUCCESSFUL"
        /\ status'[g] = "FAILED" => /\ \A x \in Kids(g) : status'[x] \in Final
                                    /\ \E x \in Kids(g) : status'[x] \in Broken
        /\ status'[g] = "RUNNING" => \E x \in Kids(g) : status'[x] # "PENDING"
    BY DEF GroupInv, Kids
  <2>2. g \in Actions /\ Kids(g) \subseteq Actions
    BY KidsAreActions
  <2>3. \A x \in Kids(g) : Lasts(x)
    BY <2>2, <1>2
  <2>4. CASE status'[g] = status[g]
    <3>1. status[g] = "SUCCESSFUL" => \A x \in Kids(g) : status'[x] = "SUCCESSFUL"
      BY SuccessLasts DEF IInv, GroupInv
    <3>. QED
      BY <2>3, <2>4, <3>1 DEF IInv, GroupInv, Lasts
  <2>5. CASE status'[g] # status[g] /\ status'[g] = "NOT_RUN"
    BY <2>5
  <2>6. CASE status'[g] # status[g] /\ status'[g] # "NOT_RUN"
    <3>1. g = a /\ status'[g] = s
      BY <2>6, <2>2 DEF SetStatus
    <3>2. s = GroupStatus(status[g], Seen(g)) /\ status[g] # "NOT_RUN"
      BY <3>1, <2>6 DEF Legal, Final, Broken
    <3>3. \A x \in Kids(g) : status[x] \in Seen(g) /\ status[x] \in Statuses
      BY <1>1, <2>2 DEF Seen
    <3>4. ASSUME s = "SUCCESSFUL" PROVE \A x \in Kids(g) : status[x] = "SUCCESSFUL"
      BY <3>2, <3>3, <3>4 DEF GroupStatus, Statuses, Broken
    <3>5. ASSUME s = "FAILED"
          PROVE  /\ \A x \in Kids(g) : status[x] \in Final
                 /\ \E x \in Kids(g) : status[x] \in Broken
      <4>1. "RUNNING" \notin Seen(g) /\ "PENDING" \notin Seen(g)
            /\ Seen(g) \cap Broken # {}
        BY <3>2, <3>5 DEF GroupStatus
      <4>. QED
        BY <4>1, <3>3 DEF Seen, Statuses, Final, Done, Broken
    <3>6. ASSUME s = "RUNNING" PROVE \E x \in Kids(g) : status[x] # "PENDING"
      <4>1. "RUNNING" \in Seen(g) \/ Seen(g) \cap Final # {}
        BY <3>2, <3>6 DEF GroupStatus
      <4>. QED
        BY <4>1 DEF Seen, Final, Done, Broken
    <3>7. s = "SUCCESSFUL" => \A x \in Kids(g) : status'[x] = "SUCCESSFUL"
      BY <3>4, SuccessLasts
    <3>. QED
      BY <3>1, <3>5, <3>6, <3>7, <2>3 DEF Lasts
  <2>. QED
    BY <2>4, <2>5, <2>6
<1>. QED
  BY <1>3, <1>4, <1>5

-----------------------------------------------------------------------------
(* The four ways in which a status is set are legal.                        *)

(* An empty group is never RUNNING or FAILED.                               *)
LEMMA EmptyGroups ==
  ASSUME IInv, NEW g \in Actions, ~ Solid(g)
  PROVE  status[g] \in {"PENDING", "SUCCESSFUL", "NOT_RUN"}
BY DEF IInv, TypeOK, GroupInv, Solid, Statuses

(* The members of a group justify that it is in order.                      *)
LEMMA GroupInOrder ==
  ASSUME IInv, NoHollowGroups, NEW g \in Groups, Kids(g) # {},
         GroupStatus(status[g], Seen(g)) \in {"RUNNING", "SUCCESSFUL", "FAILED"}
  PROVE  InOrder(g)
<1>. DEFINE s == GroupStatus(status[g], Seen(g))
<1>1. g \in Actions /\ Kids(g) \subseteq Actions /\ status \in [Actions -> Statuses]
  BY KidsAreActions DEF IInv, TypeOK
<1>2. \A x \in Kids(g) : status[x] \in Seen(g) /\ status[x] \in Statuses
  BY <1>1 DEF Seen
<1>3. ASSUME NEW x \in Kids(g), (Started(x) /\ Solid(x)) \/ status[x] \in Broken
             \/ status[x] = "RUNNING"
      PROVE  InOrder(g)
  <2>1. CASE status[x] = "NOT_RUN"
    BY <2>1 DEF IInv, SkipInv
  <2>2. CASE status[x] # "NOT_RUN"
    <3>1. Started(x) /\ Solid(x)
      BY <1>1, <1>3, <2>2, EmptyGroups DEF Started, Broken
    <3>2. InOrder(x)
      BY <1>1, <3>1 DEF IInv, OrderInv
    <3>. QED
      BY <3>2, InOrderParent
  <2>. QED
    BY <2>1, <2>2
<1>4. CASE s = "RUNNING"
  <2>1. "RUNNING" \in Seen(g) \/ status[g] = "RUNNING"
    BY <1>4 DEF GroupStatus
  <2>2. CASE "RUNNING" \in Seen(g)
    BY <1>3, <2>2 DEF Seen
  <2>3. CASE status[g] = "RUNNING"
    BY <1>1, <2>3 DEF IInv, OrderInv, Started, Solid
  <2>. QED
    BY <2>1, <2>2, <2>3
<1>5. CASE s = "SUCCESSFUL"
  <2>1. PICK k \in Kids(g) : Solid(k)
    BY DEF NoHollowGroups
  <2>2. status[k] = "SUCCESSFUL"
    BY <1>2, <1>5 DEF GroupStatus, Statuses, Broken
  <2>. QED
    BY <1>3, <2>1, <2>2 DEF Started
<1>6. CASE s = "FAILED"
  <2>1. Seen(g) \cap Broken # {}
    BY <1>6 DEF GroupStatus
  <2>. QED
    BY <1>3, <2>1 DEF Seen
<1>. QED
  BY <1>4, <1>5, <1>6

LEMMA RefreshIsLegal ==
  ASSUME IInv, NoHollowGroups, NEW g \in Groups
  PROVE  Legal(g, GroupStatus(status[g], Seen(g)))
<1>. DEFINE s == GroupStatus(status[g], Seen(g))
<1>1. status \in [Actions -> Statuses] /\ g \in Actions /\ Kids(g) \subseteq Actions
  BY KidsAreActions DEF IInv, TypeOK
<1>2. \A x \in Kids(g) : status[x] \in Seen(g) /\ status[x] \in Statuses
  BY <1>1 DEF Seen
<1>3. s \in Statuses
  BY DEF GroupStatus, Statuses
<1>4. status[g] \in Final => s = status[g]
  <2>1. CASE status[g] = "SUCCESSFUL"
    <3>1. Seen(g) \subseteq {"SUCCESSFUL"}
      BY <2>1 DEF Seen, IInv, GroupInv
    <3>. QED
      BY <3>1, <2>1 DEF GroupStatus, Broken
  <2>2. CASE status[g] = "FAILED"
    <3>1. Seen(g) \subseteq Final /\ Seen(g) \cap Broken # {}
      BY <2>2 DEF Seen, IInv, GroupInv
    <3>. QED
      BY <3>1, <2>2 DEF GroupStatus, Final, Done, Broken
  <2>3. CASE status[g] = "NOT_RUN"
    BY <2>3 DEF GroupStatus
  <2>. QED
    BY <2>1, <2>2, <2>3 DEF Final, Done, Broken
<1>5. status[g] # "PENDING" => s # "PENDING"
  <2>1. CASE status[g] = "RUNNING"
    <3>1. PICK x \in Kids(g) : status[x] # "PENDING"
      BY <2>1 DEF IInv, GroupInv
    <3>2. status[x] = "RUNNING" \/ status[x] \in Final
      BY <3>1, <1>2 DEF Statuses, Final, Done, Broken
    <3>. QED
      BY <2>1, <3>2, <1>2 DEF GroupStatus
  <2>. QED
    BY <2>1, <1>4, <1>1 DEF Statuses, Final, Done, Broken
<1>6. s \in {"RUNNING", "SUCCESSFUL", "FAILED"} /\ Solid(g) => InOrder(g)
  BY GroupInOrder DEF Solid
<1>7. s \in Broken => \A h \in Groups : g \in Kids(h) => InOrder(h)
  <2>1. SUFFICES ASSUME s \in Broken, NEW h \in Groups, g \in Kids(h)
                 PROVE  InOrder(h)
    OBVIOUS
  <2>2. CASE s = "NOT_RUN"
    <3>1. status[g] = "NOT_RUN"
      BY <2>2 DEF GroupStatus
    <3>. QED
      BY <2>1, <3>1 DEF IInv, SkipInv
  <2>3. CASE s = "FAILED"
    <3>1. Kids(g) # {}
      BY <2>3 DEF GroupStatus, Seen
    <3>2. InOrder(g)
      BY <2>3, <3>1, GroupInOrder
    <3>. QED
      BY <2>1, <3>2, InOrderParent
  <2>. QED
    BY <2>1, <2>2, <2>3 DEF Broken
<1>. QED
  BY <1>1, <1>3, <1>4, <1>5, <1>6, <1>7 DEF Legal

LEMMA VisitedInOrder ==
  ASSUME IInv, NEW c \in Coordinators, todo[c] # <<>>
  PROVE  /\ Visited(c) \in Actions
         /\ \A g \in Groups : Visited(c) \in Kids(g) => InOrder(g)
<1>1. todo[c] \in Seq(Actions)
  BY DEF IInv, TypeOK
<1>2. 1 \in DOMAIN todo[c] /\ Visited(c) = todo[c][1] /\ Visited(c) \in Actions
  BY <1>1 DEF Visited
<1>. QED
  BY <1>2 DEF IInv, WalkInv

LEMMA GiveUpIsLegal ==
  ASSUME IInv, NEW c \in Coordinators, GiveUp(c)
  PROVE  Legal(Visited(c), "NOT_RUN")
<1>1. status[Visited(c)] = "PENDING" /\ todo[c] # <<>>
  BY DEF GiveUp, Visiting, HasBrokenDependency
<1>. QED
  BY <1>1, VisitedInOrder DEF Legal, Statuses, Final, Done, Broken

LEMMA LaunchIsLegal ==
  ASSUME IInv, NEW c \in Coordinators, Launch(c)
  PROVE  Legal(Visited(c), "RUNNING")
<1>1. Visited(c) \in Singles /\ todo[c] # <<>>
  BY DEF Launch, IInv, TypeOK
<1>2. status[Visited(c)] = "PENDING" /\ InOrder(Visited(c))
  BY DEF Launch, IInv, PickInv
<1>. QED
  BY <1>1, <1>2, VisitedInOrder
  DEF Legal, Singles, Statuses, Final, Done, Broken

LEMMA FinishIsLegal ==
  ASSUME IInv, NEW c \in Coordinators, NEW a \in Singles,
         NEW s \in Done, Finish(c, a, s)
  PROVE  Legal(a, s)
<1>1. status[a] = "RUNNING"
  BY DEF Finish, IInv, JobInv
<1>2. a \in Actions /\ InOrder(a)
  BY <1>1 DEF Singles, Solid, IInv, OrderInv, Started
<1>. QED
  BY <1>1, <1>2, InOrderParent DEF Legal, Singles, Statuses, Final, Done, Broken

-----------------------------------------------------------------------------
(* IInv is inductive.                                                       *)

(* Apart from the action it is called on, setStatus changes nothing that is *)
(* in order.                                                                *)
LEMMA LegalSpares ==
  ASSUME IInv, NEW a \in Actions, NEW s \in Statuses, Legal(a, s), SetStatus(a, s),
         NEW x \in Actions, x # a, InOrder(x) \/ (Solid(x) /\ Started(x))
  PROVE  status'[x] = status[x]
<1>1. InOrder(x)
  BY DEF IInv, OrderInv
<1>2. CASE s \in Broken /\ x \in Downstream[a]
  <2>1. status[a] # "SUCCESSFUL"
    BY <1>2 DEF Legal, Final, Done, Broken
  <2>. QED
    BY <1>1, <1>2, <2>1, DownstreamWaits DEF IInv
<1>3. CASE ~ (s \in Broken /\ x \in Downstream[a])
  BY <1>3 DEF SetStatus
<1>. QED
  BY <1>2, <1>3

LEMMA TailElements ==
  ASSUME NEW S, NEW q \in Seq(S), q # <<>>
  PROVE  /\ Tail(q) \in Seq(S)
         /\ \A i \in DOMAIN Tail(q) : \E j \in DOMAIN q : Tail(q)[i] = q[j]
<1>1. Tail(q) \in Seq(S) /\ Len(Tail(q)) = Len(q) - 1
  OBVIOUS
<1>2. ASSUME NEW i \in DOMAIN Tail(q)
      PROVE  Tail(q)[i] = q[i + 1] /\ i + 1 \in DOMAIN q
  BY <1>1
<1>. QED
  BY <1>1, <1>2

LEMMA AppendedElements ==
  ASSUME NEW S, NEW p \in Seq(S), NEW q \in Seq(S)
  PROVE  /\ p \o q \in Seq(S)
         /\ \A i \in DOMAIN (p \o q) :
              \/ \E j \in DOMAIN p : (p \o q)[i] = p[j]
              \/ \E j \in DOMAIN q : (p \o q)[i] = q[j]
<1>1. p \o q \in Seq(S) /\ Len(p \o q) = Len(p) + Len(q)
  OBVIOUS
<1>2. ASSUME NEW i \in DOMAIN (p \o q)
      PROVE  \/ \E j \in DOMAIN p : (p \o q)[i] = p[j]
             \/ \E j \in DOMAIN q : (p \o q)[i] = q[j]
  <2>1. CASE i <= Len(p)
    <3>1. i \in DOMAIN p /\ (p \o q)[i] = p[i]
      BY <1>1, <2>1
    <3>. QED
      BY <3>1
  <2>2. CASE i > Len(p)
    <3>1. i - Len(p) \in DOMAIN q /\ (p \o q)[i] = q[i - Len(p)]
      BY <1>1, <2>2
    <3>. QED
      BY <3>1
  <2>. QED
    BY <1>1, <2>1, <2>2
<1>. QED
  BY <1>1, <1>2

(* A leaf that has run keeps showing it, whichever status is set.           *)
LEMMA LegalKeepsRuns ==
  ASSUME IInv, NEW a \in Actions, NEW s \in Statuses, Legal(a, s), SetStatus(a, s),
         runs' = runs,
         a \in Singles => s \in {"RUNNING", "SUCCESSFUL", "FAILED"}
                          \/ status[a] = "PENDING"
  PROVE  RunsAtMostOnce'
<1>1. SUFFICES ASSUME NEW x \in Singles
               PROVE  /\ runs[x] <= 1
                      /\ status'[x] \in {"PENDING", "NOT_RUN"} => runs[x] = 0
  BY DEF RunsAtMostOnce
<1>2. x \in Actions /\ status[x] \in Statuses /\ Solid(x)
  BY DEF Singles, Solid, IInv, TypeOK
<1>3. /\ runs[x] <= 1
      /\ status[x] \in {"PENDING", "NOT_RUN"} => runs[x] = 0
  BY DEF IInv, RunsAtMostOnce
<1>4. CASE Started(x) /\ x # a
  <2>1. status'[x] = status[x]
    BY <1>2, <1>4, LegalSpares
  <2>. QED
    BY <2>1, <1>3
<1>5. CASE Started(x) /\ x = a
  <2>1. s \in {"RUNNING", "SUCCESSFUL", "FAILED"}
    BY <1>5 DEF Started
  <2>2. s \in Broken => status[a] # "SUCCESSFUL"
    BY DEF Legal, Final, Done, Broken
  <2>3. ~ (s \in Broken /\ x \in Downstream[a])
    BY <1>2, <1>5, <2>2, DownstreamWaits DEF IInv
  <2>4. status'[x] = s
    BY <1>2, <1>5, <2>3 DEF SetStatus
  <2>. QED
    BY <2>1, <2>4, <1>3
<1>6. CASE ~ Started(x)
  BY <1>2, <1>3, <1>6 DEF Started, Statuses
<1>. QED
  BY <1>4, <1>5, <1>6

(* What a step that sets a status leaves to be shown of it.                 *)
LEMMA LegalKeeps ==
  ASSUME IInv, NEW a \in Actions, NEW s \in Statuses, Legal(a, s), SetStatus(a, s)
  PROVE  /\ status' \in [Actions -> Statuses]
         /\ OrderInv' /\ SkipInv' /\ GroupInv'
         /\ \A x \in Actions : InOrder(x) => InOrder(x)'
         /\ \A x \in Actions : x # a /\ (InOrder(x) \/ (Solid(x) /\ Started(x)))
                               => status'[x] = status[x]
<1>1. /\ status' \in [Actions -> Statuses]
      /\ \A x \in Actions : Steady(x) => Advances(x)
  BY LegalAdvances
<1>2. \A x \in Actions : InOrder(x) => InOrder(x)'
  BY <1>1, InOrderStays
<1>. QED
  BY <1>1, <1>2, LegalKeepsOrder, LegalSpares

(* Steps of a coordinator that change no status, and none of what the       *)
(* workers keep.                                                            *)
LEMMA WalkingKeeps ==
  ASSUME IInv, status' = status, job' = job, runs' = runs
  PROVE  /\ OrderInv' /\ SkipInv' /\ GroupInv' /\ JobInv' /\ RunsAtMostOnce'
         /\ \A x \in Actions : InOrder(x) => InOrder(x)'
<1>1. \A x \in Actions : InOrder(x) <=> InOrder(x)'
  BY DEF InOrder, Dependencies
<1>2. OrderInv'
  BY <1>1 DEF IInv, OrderInv, Started
<1>3. SkipInv'
  BY <1>1, KidsAreActions DEF IInv, SkipInv, Kids
<1>4. GroupInv'
  BY DEF IInv, GroupInv, Kids
<1>5. JobInv' /\ RunsAtMostOnce'
  BY DEF IInv, JobInv, RunsAtMostOnce
<1>. QED
  BY <1>1, <1>2, <1>3, <1>4, <1>5

-----------------------------------------------------------------------------
(* Every step keeps IInv.                                                   *)

LEMMA RefreshKeeps ==
  ASSUME IInv, NoHollowGroups, NEW g \in Groups, Refresh(g)
  PROVE  IInv'
<1>. DEFINE s == GroupStatus(status[g], Seen(g))
<1>1. g \in Actions /\ g \notin Singles /\ Singles \subseteq Actions
  BY KidsAreActions DEF Singles
<1>2. Legal(g, s) /\ s \in Statuses
  BY RefreshIsLegal DEF Legal
<1>3. SetStatus(g, s)
  BY DEF Refresh, Seen
<1>4. pc' = pc /\ todo' = todo /\ job' = job /\ runs' = runs
  BY DEF Refresh
<1>5. /\ status' \in [Actions -> Statuses]
      /\ OrderInv' /\ SkipInv' /\ GroupInv'
      /\ \A x \in Actions : InOrder(x) => InOrder(x)'
      /\ \A x \in Actions : x # g /\ (InOrder(x) \/ (Solid(x) /\ Started(x)))
                            => status'[x] = status[x]
  BY <1>1, <1>2, <1>3, LegalKeeps
<1>6. TypeOK'
  BY <1>4, <1>5 DEF IInv, TypeOK, Visited
<1>7. RunsAtMostOnce'
  BY <1>1, <1>2, <1>3, <1>4, LegalKeepsRuns
<1>8. JobInv'
  BY <1>1, <1>4, <1>5 DEF IInv, JobInv, Started, Singles, Solid
<1>9. PickInv'
  <2>1. SUFFICES ASSUME NEW c \in Coordinators, pc[c] = "picked"
                 PROVE  status'[Visited(c)] = "PENDING" /\ InOrder(Visited(c))'
    BY <1>4 DEF PickInv, Visited
  <2>2. Visited(c) \in Singles /\ status[Visited(c)] = "PENDING" /\ InOrder(Visited(c))
    BY <2>1 DEF IInv, TypeOK, PickInv
  <2>3. Visited(c)' = Visited(c)
    BY <1>4 DEF Visited
  <2>4. \A x \in Actions : x # g /\ InOrder(x) => status'[x] = status[x]
    BY <1>5
  <2>5. Visited(c) # g /\ Visited(c) \in Actions
    BY <1>1, <2>2
  <2>6. status'[Visited(c)] = "PENDING"
    BY <2>2, <2>4, <2>5
  <2>. QED
    BY <1>5, <2>2, <2>3, <2>5, <2>6
<1>10. WalkInv'
  BY <1>1, <1>4, <1>5, KidsAreActions DEF IInv, WalkInv, Kids
<1>. QED
  BY <1>5, <1>6, <1>7, <1>8, <1>9, <1>10 DEF IInv

(* The steps of a walk that only move it.                                   *)
LEMMA WalkKeeps ==
  ASSUME IInv, NEW c \in Coordinators,
         status' = status, job' = job, runs' = runs,
         NEW p \in {"check", "walk", "reported"},
         pc' = [pc EXCEPT ![c] = p],
         NEW q \in Seq(Actions),
         todo' = [todo EXCEPT ![c] = q],
         \A i \in DOMAIN q : \A g \in Groups : q[i] \in Kids(g) => InOrder(g)
  PROVE  IInv'
<1>1. /\ OrderInv' /\ SkipInv' /\ GroupInv' /\ JobInv' /\ RunsAtMostOnce'
      /\ \A x \in Actions : InOrder(x) => InOrder(x)'
  BY WalkingKeeps
<1>2. pc' \in [Coordinators -> {"idle", "check", "walk", "picked", "reported"}]
      /\ todo' \in [Coordinators -> Seq(Actions)]
  BY DEF IInv, TypeOK
<1>3. \A d \in Coordinators : d # c => pc'[d] = pc[d] /\ todo'[d] = todo[d]
  BY DEF IInv, TypeOK
<1>4. pc'[c] # "picked" /\ todo'[c] = q
  BY DEF IInv, TypeOK
<1>5. TypeOK'
  <2>1. \A d \in Coordinators :
          pc'[d] = "picked" => todo'[d] # <<>> /\ Head(todo'[d]) \in Singles
    BY <1>3, <1>4 DEF IInv, TypeOK, Visited
  <2>. QED
    BY <1>2, <2>1 DEF IInv, TypeOK, Visited
<1>6. PickInv'
  <2>1. SUFFICES ASSUME NEW d \in Coordinators, pc'[d] = "picked"
                 PROVE  status'[Visited(d)'] = "PENDING" /\ InOrder(Visited(d))'
    BY DEF PickInv
  <2>2. pc[d] = "picked" /\ Visited(d)' = Visited(d)
    BY <2>1, <1>3, <1>4 DEF Visited
  <2>3. Visited(d) \in Actions /\ status[Visited(d)] = "PENDING" /\ InOrder(Visited(d))
    BY <2>2 DEF IInv, TypeOK, PickInv, Singles
  <2>. QED
    BY <1>1, <2>2, <2>3
<1>7. WalkInv'
  <2>1. SUFFICES ASSUME NEW d \in Coordinators, NEW i \in DOMAIN todo'[d],
                        NEW g \in Groups, todo'[d][i] \in Kids(g)
                 PROVE  InOrder(g)'
    BY DEF WalkInv, Kids
  <2>2. InOrder(g)
    BY <2>1, <1>3, <1>4 DEF IInv, WalkInv
  <2>. QED
    BY <2>2, <1>1, KidsAreActions
<1>. QED
  BY <1>1, <1>5, <1>6, <1>7 DEF IInv

LEMMA EnterKeeps ==
  ASSUME IInv, NEW c \in Coordinators, Enter(c)
  PROVE  IInv'
<1>. DEFINE g == Visited(c)
            q == Children[g] \o Tail(todo[c])
<1>1. /\ todo[c] \in Seq(Actions) /\ todo[c] # <<>> /\ pc[c] = "walk"
      /\ g \in Groups /\ g \in Actions /\ Children[g] \in Seq(Actions)
  BY PlanAssumption DEF IInv, TypeOK, Enter, Visiting
<1>2. Tail(todo[c]) \in Seq(Actions)
      /\ \A i \in DOMAIN Tail(todo[c]) :
           \E j \in DOMAIN todo[c] : Tail(todo[c])[i] = todo[c][j]
  BY <1>1, TailElements
<1>3. InOrder(g)
  <2>1. CASE Ready(g)
    BY <2>1, <1>1, VisitedInOrder, InOrderStep DEF Ready
  <2>2. CASE status[g] = "RUNNING"
    BY <2>2, <1>1 DEF IInv, OrderInv, GroupInv, Started, Solid
  <2>. QED
    BY <2>1, <2>2 DEF Enter
<1>4. q \in Seq(Actions)
      /\ \A i \in DOMAIN q : \/ \E j \in DOMAIN Children[g] : q[i] = Children[g][j]
                             \/ \E j \in DOMAIN Tail(todo[c]) : q[i] = Tail(todo[c])[j]
  <2>. DEFINE p == Children[g]
              r == Tail(todo[c])
  <2>1. p \in Seq(Actions) /\ r \in Seq(Actions)
    BY <1>1, <1>2
  <2>. HIDE DEF p, r
  <2>2. /\ p \o r \in Seq(Actions)
        /\ \A i \in DOMAIN (p \o r) : \/ \E j \in DOMAIN p : (p \o r)[i] = p[j]
                                     \/ \E j \in DOMAIN r : (p \o r)[i] = r[j]
    BY <2>1, AppendedElements
  <2>. QED
    BY <2>2 DEF p, r
<1>5. ASSUME NEW i \in DOMAIN q, NEW h \in Groups, q[i] \in Kids(h)
      PROVE  InOrder(h)
  <2>1. CASE \E j \in DOMAIN Children[g] : q[i] = Children[g][j]
    <3>1. q[i] \in Kids(g)
      BY <2>1 DEF Kids
    <3>2. h = g
      BY <3>1, <1>1, <1>5, TreeAssumption
    <3>. QED
      BY <3>2, <1>3
  <2>2. CASE \E j \in DOMAIN Tail(todo[c]) : q[i] = Tail(todo[c])[j]
    <3>1. PICK j \in DOMAIN todo[c] : q[i] = todo[c][j]
      BY <2>2, <1>2
    <3>. QED
      BY <3>1, <1>5 DEF IInv, WalkInv
  <2>. QED
    BY <2>1, <2>2, <1>4
<1>6. pc' = [pc EXCEPT ![c] = "walk"]
  BY <1>1 DEF IInv, TypeOK, Enter
<1>7. todo' = [todo EXCEPT ![c] = q]
  BY DEF Enter
<1>. QED
  BY <1>4, <1>5, <1>6, <1>7, WalkKeeps DEF Enter

(* The steps that leave the list of the walk alone, drop its head or begin  *)
(* at the top of the plan.                                                  *)
LEMMA MoveKeeps ==
  ASSUME IInv, NEW c \in Coordinators,
         Execute(c) \/ StartWalk(c) \/ Report(c) \/ Sleep(c) \/ PassOver(c)
  PROVE  IInv'
<1>. DEFINE fits(q) ==
       /\ q \in Seq(Actions)
       /\ \A i \in DOMAIN q : \A g \in Groups : q[i] \in Kids(g) => InOrder(g)
<1>1. fits(todo[c]) /\ todo = [todo EXCEPT ![c] = todo[c]]
  BY DEF IInv, TypeOK, WalkInv
<1>2. ASSUME NEW p \in {"check", "walk", "reported"},
             pc' = [pc EXCEPT ![c] = p],
             UNCHANGED <<status, todo, job, runs>>
      PROVE  IInv'
  <2>1. todo' = [todo EXCEPT ![c] = todo[c]]
    BY <1>1, <1>2
  <2>. QED
    BY <1>1, <1>2, <2>1, WalkKeeps
<1>3. CASE Execute(c) \/ Sleep(c)
  BY <1>2, <1>3 DEF Execute, Sleep
<1>4. CASE Report(c)
  BY <1>2, <1>4 DEF Report
<1>5. CASE StartWalk(c)
  <2>1. fits(<<Top>>)
    BY PlanAssumption, TreeAssumption
  <2>. QED
    BY <2>1, <1>5, WalkKeeps DEF StartWalk
<1>6. CASE PassOver(c)
  <2>1. todo[c] # <<>> /\ pc[c] = "walk"
    BY <1>6 DEF PassOver, Visiting
  <2>2. fits(Tail(todo[c]))
    BY <1>1, <2>1, TailElements
  <2>3. pc' = [pc EXCEPT ![c] = "walk"]
    BY <1>6, <2>1 DEF PassOver, IInv, TypeOK
  <2>. QED
    BY <2>2, <2>3, <1>6, WalkKeeps DEF PassOver
<1>. QED
  BY <1>3, <1>4, <1>5, <1>6

LEMMA PickKeeps ==
  ASSUME IInv, NEW c \in Coordinators, Pick(c)
  PROVE  IInv'
<1>1. /\ OrderInv' /\ SkipInv' /\ GroupInv' /\ JobInv' /\ RunsAtMostOnce'
      /\ \A x \in Actions : InOrder(x) => InOrder(x)'
  BY WalkingKeeps DEF Pick
<1>2. todo[c] # <<>> /\ Visited(c) \in Singles /\ Ready(Visited(c))
  BY DEF Pick, Visiting
<1>3. status[Visited(c)] = "PENDING" /\ InOrder(Visited(c))
  BY <1>2, VisitedInOrder, InOrderStep DEF Ready
<1>4. TypeOK'
  BY <1>2 DEF IInv, TypeOK, Pick, Visited
<1>5. PickInv'
  <2>1. SUFFICES ASSUME NEW d \in Coordinators, pc'[d] = "picked"
                 PROVE  status'[Visited(d)'] = "PENDING" /\ InOrder(Visited(d))'
    BY DEF PickInv
  <2>2. Visited(d)' = Visited(d) /\ status' = status
    BY DEF Pick, Visited
  <2>3. d = c \/ pc[d] = "picked"
    BY <2>1 DEF IInv, TypeOK, Pick
  <2>4. Visited(d) \in Actions /\ status[Visited(d)] = "PENDING" /\ InOrder(Visited(d))
    BY <2>3, <1>2, <1>3 DEF IInv, TypeOK, PickInv, Singles
  <2>. QED
    BY <1>1, <2>2, <2>4
<1>6. WalkInv'
  BY <1>1, KidsAreActions DEF IInv, WalkInv, Pick, Kids
<1>. QED
  BY <1>1, <1>4, <1>5, <1>6 DEF IInv

LEMMA GiveUpKeeps ==
  ASSUME IInv, OneCoordinator, NEW c \in Coordinators, GiveUp(c)
  PROVE  IInv'
<1>. DEFINE a == Visited(c)
<1>1. /\ todo[c] # <<>> /\ todo[c] \in Seq(Actions) /\ pc[c] = "walk"
      /\ a \in Actions /\ status[a] = "PENDING"
  BY VisitedInOrder DEF GiveUp, Visiting, HasBrokenDependency, IInv, TypeOK
<1>2. Legal(a, "NOT_RUN") /\ "NOT_RUN" \in Statuses /\ SetStatus(a, "NOT_RUN")
  BY GiveUpIsLegal DEF GiveUp, Statuses
<1>3. pc' = pc /\ job' = job /\ runs' = runs /\ todo' = [todo EXCEPT ![c] = Tail(@)]
  BY DEF GiveUp
<1>4. /\ status' \in [Actions -> Statuses]
      /\ OrderInv' /\ SkipInv' /\ GroupInv'
      /\ \A x \in Actions : InOrder(x) => InOrder(x)'
      /\ \A x \in Actions : x # a /\ (InOrder(x) \/ (Solid(x) /\ Started(x)))
                            => status'[x] = status[x]
  BY <1>1, <1>2, LegalKeeps
<1>5. \A d \in Coordinators : d = c
  BY DEF OneCoordinator
<1>6. /\ Tail(todo[c]) \in Seq(Actions)
      /\ \A i \in DOMAIN Tail(todo[c]) :
           \E j \in DOMAIN todo[c] : Tail(todo[c])[i] = todo[c][j]
  BY <1>1, TailElements
<1>7. TypeOK'
  BY <1>1, <1>3, <1>4, <1>5, <1>6 DEF IInv, TypeOK
<1>8. RunsAtMostOnce'
  BY <1>1, <1>2, <1>3, LegalKeepsRuns
<1>9. JobInv'
  BY <1>1, <1>3, <1>4 DEF IInv, JobInv, Started, Singles, Solid
<1>10. PickInv'
  BY <1>1, <1>3, <1>5 DEF PickInv
<1>11. WalkInv'
  <2>1. SUFFICES ASSUME NEW i \in DOMAIN Tail(todo[c]), NEW g \in Groups,
                        Tail(todo[c])[i] \in Kids(g)
                 PROVE  InOrder(g)'
    BY <1>1, <1>3, <1>5 DEF WalkInv, Kids, IInv, TypeOK
  <2>2. InOrder(g)
    BY <2>1, <1>6 DEF IInv, WalkInv
  <2>. QED
    BY <2>2, <1>4, KidsAreActions
<1>. QED
  BY <1>4, <1>7, <1>8, <1>9, <1>10, <1>11 DEF IInv

LEMMA LaunchKeeps ==
  ASSUME IInv, OneCoordinator, NEW c \in Coordinators, Launch(c)
  PROVE  IInv'
<1>. DEFINE a == Visited(c)
<1>1. /\ pc[c] = "picked" /\ a \in Singles /\ a \in Actions
      /\ status[a] = "PENDING" /\ runs[a] = 0
  BY DEF Launch, IInv, TypeOK, PickInv, RunsAtMostOnce, Singles
<1>2. Legal(a, "RUNNING") /\ "RUNNING" \in Statuses /\ SetStatus(a, "RUNNING")
  BY LaunchIsLegal DEF Launch, Statuses
<1>3. /\ pc' = [pc EXCEPT ![c] = "check"] /\ todo' = [todo EXCEPT ![c] = <<>>]
      /\ job' = [job EXCEPT ![c][a] = "queued"] /\ runs' = runs
  BY DEF Launch
<1>4. /\ status' \in [Actions -> Statuses]
      /\ OrderInv' /\ SkipInv' /\ GroupInv'
      /\ \A x \in Actions : x # a /\ (InOrder(x) \/ (Solid(x) /\ Started(x)))
                            => status'[x] = status[x]
  BY <1>1, <1>2, LegalKeeps
<1>5. \A d \in Coordinators : d = c
  BY DEF OneCoordinator
<1>6. pc'[c] = "check" /\ todo'[c] = <<>> /\ job'[c] = [job[c] EXCEPT ![a] = "queued"]
  BY <1>3 DEF IInv, TypeOK
<1>7. TypeOK'
  <2>1. <<>> \in Seq(Actions)
    OBVIOUS
  <2>. QED
    BY <1>3, <1>4, <1>5, <1>6, <2>1 DEF IInv, TypeOK
<1>8. RunsAtMostOnce'
  BY <1>1, <1>2, <1>3, LegalKeepsRuns
<1>9. JobInv'
  <2>1. status'[a] = "RUNNING"
    BY <1>1 DEF Launch, SetStatus, Broken
  <2>2. ASSUME NEW x \in Singles, x # a
        PROVE  /\ job'[c][x] = job[c][x]
               /\ status[x] = "RUNNING" => status'[x] = "RUNNING"
    BY <2>2, <1>4, <1>6 DEF IInv, TypeOK, Started, Singles, Solid
  <2>. QED
    BY <1>1, <1>3, <1>5, <2>1, <2>2 DEF IInv, JobInv
<1>10. PickInv'
  BY <1>5, <1>6 DEF PickInv
<1>11. WalkInv'
  BY <1>5, <1>6 DEF WalkInv
<1>. QED
  BY <1>4, <1>7, <1>8, <1>9, <1>10, <1>11 DEF IInv

(* A leaf changes status when its callable has ended.                       *)
LEMMA FinishKeeps ==
  ASSUME IInv, OneCoordinator, NEW c \in Coordinators, NEW a \in Singles,
         NEW s \in Done, Finish(c, a, s)
  PROVE  IInv'
<1>1. a \in Actions /\ a \in Singles /\ job[c][a] = "running" /\ status[a] = "RUNNING"
  BY DEF Finish, IInv, JobInv, Singles
<1>2. Legal(a, s) /\ s \in Statuses /\ SetStatus(a, s)
  BY FinishIsLegal DEF Finish, Done, Statuses
<1>3. pc' = pc /\ todo' = todo /\ runs' = runs
      /\ job' = [job EXCEPT ![c][a] = "ended"]
  BY DEF Finish
<1>4. /\ status' \in [Actions -> Statuses]
      /\ OrderInv' /\ SkipInv' /\ GroupInv'
      /\ \A x \in Actions : InOrder(x) => InOrder(x)'
      /\ \A x \in Actions : x # a /\ (InOrder(x) \/ (Solid(x) /\ Started(x)))
                            => status'[x] = status[x]
  BY <1>1, <1>2, LegalKeeps
<1>5. \A d \in Coordinators : d = c
  BY DEF OneCoordinator
<1>6. job'[c] = [job[c] EXCEPT ![a] = "ended"]
  BY <1>3 DEF IInv, TypeOK
<1>7. TypeOK'
  BY <1>3, <1>4, <1>5, <1>6 DEF IInv, TypeOK, Visited
<1>8. RunsAtMostOnce'
  BY <1>1, <1>2, <1>3, LegalKeepsRuns DEF Done
<1>9. JobInv'
  <2>1. ASSUME NEW x \in Singles, x # a
        PROVE  /\ job'[c][x] = job[c][x]
               /\ status[x] = "RUNNING" => status'[x] = "RUNNING"
    BY <2>1, <1>4, <1>6 DEF IInv, TypeOK, Started, Singles, Solid
  <2>2. job'[c][a] = "ended"
    BY <1>6 DEF IInv, TypeOK
  <2>. QED
    BY <1>3, <1>5, <2>1, <2>2 DEF IInv, JobInv
<1>10. PickInv'
  <2>1. SUFFICES ASSUME NEW d \in Coordinators, pc[d] = "picked"
                 PROVE  status'[Visited(d)'] = "PENDING" /\ InOrder(Visited(d))'
    BY <1>3 DEF PickInv
  <2>2. Visited(d)' = Visited(d)
    BY <1>3 DEF Visited
  <2>3. /\ Visited(d) \in Actions /\ status[Visited(d)] = "PENDING"
        /\ InOrder(Visited(d))
    BY <2>1 DEF IInv, TypeOK, PickInv, Singles
  <2>4. \A x \in Actions : x # a /\ InOrder(x) => status'[x] = status[x]
    BY <1>4
  <2>5. Visited(d) # a /\ Visited(d) \in Actions
    BY <1>1, <2>3
  <2>6. status'[Visited(d)] = "PENDING"
    BY <2>3, <2>4, <2>5
  <2>. QED
    BY <1>4, <2>2, <2>3, <2>5, <2>6
<1>11. WalkInv'
  BY <1>3, <1>4, KidsAreActions DEF IInv, WalkInv, Kids
<1>. QED
  BY <1>4, <1>7, <1>8, <1>9, <1>10, <1>11 DEF IInv

(* The steps of a worker that set no status.                                *)
LEMMA WorkerKeeps ==
  ASSUME IInv, OneCoordinator, NEW c \in Coordinators, NEW a \in Singles,
         Begin(c, a) \/ Refuse(c, a) \/ Die(c, a)
  PROVE  IInv'
<1>1. status' = status /\ pc' = pc /\ todo' = todo
  BY DEF Begin, Refuse, Die
<1>2. \A x \in Actions : InOrder(x) <=> InOrder(x)'
  BY <1>1 DEF InOrder, Dependencies
<1>3. OrderInv'
  BY <1>1, <1>2 DEF IInv, OrderInv, Started
<1>4. SkipInv'
  BY <1>1, <1>2, KidsAreActions DEF IInv, SkipInv, Kids
<1>5. GroupInv'
  BY <1>1 DEF IInv, GroupInv, Kids
<1>6. \A d \in Coordinators : d = c
  BY DEF OneCoordinator
<1>7. PickInv'
  <2>1. SUFFICES ASSUME NEW d \in Coordinators, pc[d] = "picked"
                 PROVE  status[Visited(d)'] = "PENDING" /\ InOrder(Visited(d))'
    BY <1>1 DEF PickInv
  <2>2. Visited(d)' = Visited(d)
    BY <1>1 DEF Visited
  <2>3. /\ Visited(d) \in Actions /\ status[Visited(d)] = "PENDING"
        /\ InOrder(Visited(d))
    BY <2>1 DEF IInv, TypeOK, PickInv, Singles
  <2>. QED
    BY <1>2, <2>2, <2>3
<1>8. WalkInv'
  BY <1>1, <1>2, KidsAreActions DEF IInv, WalkInv, Kids
<1>9. PICK j \in {"running", "refused", "died"} :
        /\ job' = [job EXCEPT ![c][a] = j]
        /\ j = "running" => /\ job[c][a] = "queued" /\ status[a] = "RUNNING"
                            /\ runs' = [runs EXCEPT ![a] = @ + 1]
        /\ j # "running" => runs' = runs
  BY DEF Begin, Refuse, Die
<1>10. job'[c] = [job[c] EXCEPT ![a] = j]
  BY <1>9 DEF IInv, TypeOK
<1>11. runs' \in [Singles -> Nat] /\ \A x \in Singles : x # a => runs'[x] = runs[x]
  <2>1. runs \in [Singles -> Nat]
    BY DEF IInv, TypeOK
  <2>2. CASE j = "running"
    BY <2>1, <2>2, <1>9
  <2>3. CASE j # "running"
    BY <2>1, <2>3, <1>9
  <2>. QED
    BY <2>2, <2>3
<1>12. TypeOK'
  BY <1>1, <1>6, <1>9, <1>10, <1>11 DEF IInv, TypeOK, Visited
<1>13. JobInv'
  <2>1. /\ job'[c][a] = j
        /\ \A x \in Singles : x # a => job'[c][x] = job[c][x]
    BY <1>10 DEF IInv, TypeOK
  <2>. QED
    BY <1>1, <1>6, <1>9, <1>11, <2>1 DEF IInv, JobInv
<1>14. RunsAtMostOnce'
  <2>1. CASE j = "running"
    <3>1. runs[a] = 0 /\ runs'[a] = 1 /\ status'[a] = "RUNNING"
      BY <2>1, <1>1, <1>9 DEF IInv, TypeOK, JobInv
    <3>. QED
      BY <3>1, <1>1, <1>11 DEF IInv, RunsAtMostOnce
  <2>2. CASE j # "running"
    BY <2>2, <1>1, <1>9 DEF IInv, RunsAtMostOnce
  <2>. QED
    BY <2>1, <2>2
<1>. QED
  BY <1>3, <1>4, <1>5, <1>7, <1>8, <1>12, <1>13, <1>14 DEF IInv

LEMMA InitEstablishes ==
  ASSUME Init
  PROVE  IInv
<1>1. \A a \in Actions : status[a] = "PENDING"
  BY DEF Init
<1>2. Groups \subseteq Actions /\ Singles \subseteq Actions
      /\ \A g \in Groups : Kids(g) \subseteq Actions
  BY PlanAssumption, KidsAreActions DEF Singles
<1>3. TypeOK
  BY DEF Init, TypeOK, Statuses
<1>4. OrderInv /\ SkipInv /\ GroupInv
  BY <1>1, <1>2 DEF OrderInv, SkipInv, GroupInv, Started
<1>5. JobInv /\ RunsAtMostOnce
  BY DEF Init, JobInv, RunsAtMostOnce
<1>6. PickInv /\ WalkInv
  BY DEF Init, PickInv, WalkInv
<1>. QED
  BY <1>3, <1>4, <1>5, <1>6 DEF IInv

LEMMA StepKeeps ==
  ASSUME IInv, OneCoordinator, NoHollowGroups, [Next]_vars
  PROVE  IInv'
<1>1. CASE \E g \in Groups : Refresh(g)
  BY <1>1, RefreshKeeps
<1>2. ASSUME NEW c \in Coordinators, Execute(c) \/ Coordinate(c)
      PROVE  IInv'
  BY <1>2, MoveKeeps, EnterKeeps, PickKeeps, GiveUpKeeps, LaunchKeeps DEF Coordinate
<1>3. ASSUME NEW c \in Coordinators, NEW a \in Singles, Work(c, a)
      PROVE  IInv'
  BY <1>3, FinishKeeps, WorkerKeeps DEF Work, Succeed, Fail, Done
<1>4. CASE UNCHANGED vars
  <2>1. status' = status /\ pc' = pc /\ todo' = todo /\ job' = job /\ runs' = runs
    BY <1>4 DEF vars
  <2>. QED
    BY <2>1 DEF IInv, TypeOK, OrderInv, SkipInv, GroupInv, JobInv, RunsAtMostOnce,
                PickInv, WalkInv, InOrder, Dependencies, Started, Kids, Solid, Visited
<1>. QED
  BY <1>1, <1>2, <1>3, <1>4 DEF Next

LEMMA StepAdvances ==
  ASSUME IInv, NoHollowGroups, [Next]_vars, NEW x \in Actions, Steady(x)
  PROVE  Advances(x)
<1>1. CASE \E a \in Actions, s \in Statuses : Legal(a, s) /\ SetStatus(a, s)
  BY <1>1, LegalAdvances
<1>2. CASE status' = status
  BY <1>2 DEF Advances
<1>3. ASSUME NEW g \in Groups, Refresh(g)
      PROVE  \E a \in Actions, s \in Statuses : Legal(a, s) /\ SetStatus(a, s)
  BY <1>3, RefreshIsLegal DEF Refresh, Seen, Legal
<1>4. ASSUME NEW c \in Coordinators, GiveUp(c)
      PROVE  \E a \in Actions, s \in Statuses : Legal(a, s) /\ SetStatus(a, s)
  BY <1>4, GiveUpIsLegal DEF GiveUp, Legal
<1>5. ASSUME NEW c \in Coordinators, Launch(c)
      PROVE  \E a \in Actions, s \in Statuses : Legal(a, s) /\ SetStatus(a, s)
  BY <1>5, LaunchIsLegal DEF Launch, Legal
<1>6. ASSUME NEW c \in Coordinators, NEW a \in Singles, NEW s \in Done, Finish(c, a, s)
      PROVE  \E b \in Actions, r \in Statuses : Legal(b, r) /\ SetStatus(b, r)
  BY <1>6, FinishIsLegal DEF Finish, Legal
<1>7. ASSUME NEW c \in Coordinators,
             \/ Execute(c) \/ StartWalk(c) \/ Report(c)
             \/ Enter(c) \/ PassOver(c) \/ Pick(c) \/ Sleep(c)
      PROVE  status' = status
  BY <1>7 DEF Execute, StartWalk, Report, Enter, PassOver, Pick, Sleep
<1>8. ASSUME NEW c \in Coordinators, NEW a \in Singles,
             Begin(c, a) \/ Refuse(c, a) \/ Die(c, a)
      PROVE  status' = status
  BY <1>8 DEF Begin, Refuse, Die
<1>9. CASE UNCHANGED vars
  BY <1>2, <1>9 DEF vars
<1>. QED
  BY <1>1, <1>2, <1>3, <1>4, <1>5, <1>6, <1>7, <1>8, <1>9
  DEF Next, Coordinate, Work, Succeed, Fail, Done

(* The invariant the theorems rest on.                                      *)
THEOREM Inductive ==
  ASSUME OneCoordinator, NoHollowGroups
  PROVE  Spec => []IInv
<1>1. Init => IInv
  BY InitEstablishes
<1>2. IInv /\ [Next]_vars => IInv'
  BY StepKeeps
<1>. QED
  BY <1>1, <1>2, PTL DEF Spec

(* Every value has its type, and a coordinator that has picked holds a leaf *)
(* (getAvailableAction never returns a group).                              *)
THEOREM TypeCorrect ==
  ASSUME OneCoordinator, NoHollowGroups
  PROVE  Spec => []TypeOK
<1>1. IInv => TypeOK
  BY DEF IInv
<1>. QED
  BY <1>1, Inductive, PTL

(* No leaf is set RUNNING by ActionExecutor.execute before its dependencies *)
(* and those of the groups around it are SUCCESSFUL.                        *)
THEOREM OrderIsKept ==
  ASSUME OneCoordinator, NoHollowGroups
  PROVE  Spec => []StartsInOrder
<1>1. IInv => StartsInOrder
  BY DEF IInv, OrderInv, InOrder, StartsInOrder, Singles, Solid
<1>. QED
  BY <1>1, Inductive, PTL

(* SingleAction.apply calls the callable of a leaf at most once.            *)
THEOREM NothingRunsTwice ==
  ASSUME OneCoordinator, NoHollowGroups
  PROVE  Spec => []RunsAtMostOnce
<1>1. IInv => RunsAtMostOnce
  BY DEF IInv
<1>. QED
  BY <1>1, Inductive, PTL

(* setStatus never overwrites SUCCESSFUL, FAILED or NOT_RUN, and never sets *)
(* a RUNNING action back to PENDING.                                        *)
THEOREM StatusOnlyAdvances ==
  ASSUME OneCoordinator, NoHollowGroups
  PROVE  Spec => StatusAdvances
<1>1. IInv /\ [Next]_vars => AllAdvance
  BY StepAdvances DEF AllAdvance, Steady, Solid
<1>. QED
  BY <1>1, Inductive, PTL DEF Spec, StatusAdvances

(* apply never throws IllegalStateException("Invalid action state") in a    *)
(* plan that one coordinator executes.                                      *)
THEOREM NoTaskIsRefused ==
  ASSUME OneCoordinator, NoHollowGroups
  PROVE  Spec => []NoInvalidState
<1>1. Init => NoInvalidState
  BY DEF Init, NoInvalidState
<1>2. IInv /\ NoInvalidState /\ [Next]_vars => NoInvalidState'
  <2>. SUFFICES ASSUME IInv, NoInvalidState, [Next]_vars
                PROVE  NoInvalidState'
    OBVIOUS
  <2>1. job \in [Coordinators -> [Singles ->
               {"none", "queued", "running", "refused", "ended", "died"}]]
    BY DEF IInv, TypeOK
  <2>2. ASSUME NEW c \in Coordinators, NEW a \in Singles, Work(c, a)
        PROVE  NoInvalidState'
    <3>1. ~ Refuse(c, a)
      BY DEF IInv, JobInv, Refuse
    <3>2. \E j \in {"running", "ended", "died"} : job' = [job EXCEPT ![c][a] = j]
      BY <2>2, <3>1 DEF Work, Begin, Succeed, Fail, Finish, Die
    <3>. QED
      BY <2>1, <3>2 DEF NoInvalidState
  <2>3. ASSUME NEW c \in Coordinators, Launch(c)
        PROVE  NoInvalidState'
    BY <2>1, <2>3 DEF Launch, NoInvalidState
  <2>4. CASE UNCHANGED job
    BY <2>4 DEF NoInvalidState
  <2>5. ASSUME NEW c \in Coordinators, Execute(c) \/ Coordinate(c)
        PROVE  Launch(c) \/ UNCHANGED job
    BY <2>5 DEF Execute, Coordinate, StartWalk, Report, GiveUp, Enter, PassOver,
                Pick, Sleep
  <2>6. ASSUME NEW g \in Groups, Refresh(g)
        PROVE  UNCHANGED job
    BY <2>6 DEF Refresh
  <2>. QED
    BY <2>2, <2>3, <2>4, <2>5, <2>6 DEF Next, vars
<1>. QED
  BY <1>1, <1>2, Inductive, PTL DEF Spec
=============================================================================
