------------------------- MODULE LoadBalancerProofs -------------------------
(***************************************************************************)
(* What holds of the configuration of HAProxy for any descriptions of a    *)
(* service, any gateways and keys and any number of failing calls and      *)
(* crashes: that a deployed service is served as described, and that       *)
(* nothing is left over.                                                   *)
(***************************************************************************)
EXTENDS LoadBalancer, SequenceTheorems, WellFoundedInduction, TLAPS

-----------------------------------------------------------------------------
(* What the sequences of calls are made of.                                 *)

AllKeys == Keys \cup {Frontend}
Entries == UNION {{Config(d)[i] : i \in DOMAIN Config(d)} : d \in Descriptions}
Calls == {Put(e) : e \in Entries} \cup {Delete(e) : e \in Entries}

(* A configuration is a sequence of entries with different keys.            *)
LEMMA ConfigOf ==
  ASSUME NEW d \in Descriptions
  PROVE  /\ Config(d) \in Seq(Entries)
         /\ Len(Config(d)) \in Nat
         /\ DOMAIN Config(d) = 1 .. Len(Config(d))
         /\ \A i \in DOMAIN Config(d) :
              Config(d)[i] \in Entries /\ Config(d)[i][1] \in AllKeys
         /\ \A i, j \in DOMAIN Config(d) : Config(d)[i][1] = Config(d)[j][1] => i = j
<1>. DEFINE E == {d.entries[i] : i \in DOMAIN d.entries}
            F == <<Frontend, Rules(d.weights)>>
            S == E \cup {F}
<1>1. /\ d.entries \in Seq(E)
      /\ \A i, j \in DOMAIN d.entries :
           d.entries[i][1] \in Keys /\ (d.entries[i][1] = d.entries[j][1] => i = j)
  BY LoadBalancerAssumption
<1>2. d.entries \in Seq(S) /\ <<F>> \in Seq(S) /\ Len(<<F>>) = 1 /\ <<F>>[1] = F
  <2>1. d.entries \in Seq(S)
    BY <1>1, SeqMonotonic
  <2>2. F \in S
    OBVIOUS
  <2>. HIDE DEF F, S
  <2>. QED
    BY <2>1, <2>2
<1>. DEFINE n == Len(d.entries)
<1>3. n \in Nat /\ DOMAIN d.entries = 1 .. n
  BY <1>1, LenProperties
<1>. HIDE DEF S, F, n
<1>4. /\ Config(d) \in Seq(S)
      /\ Len(Config(d)) = 1 + n
      /\ \A i \in 1 .. 1 + n : Config(d)[i] = IF i <= 1 THEN <<F>>[i] ELSE d.entries[i - 1]
  BY <1>2, ConcatProperties DEF Config, F, n
<1>5. Len(Config(d)) \in Nat /\ DOMAIN Config(d) = 1 .. 1 + n
  BY <1>3, <1>4, LenProperties
<1>6. Config(d)[1] = F /\ F[1] = Frontend
  BY <1>2, <1>3, <1>4 DEF F
<1>7. \A i \in 2 .. 1 + n : i - 1 \in 1 .. n /\ Config(d)[i] = d.entries[i - 1]
  BY <1>3, <1>4
<1>8. \A i \in 1 .. 1 + n : i = 1 \/ i \in 2 .. 1 + n
  BY <1>3
<1>9. \A i \in DOMAIN Config(d) : Config(d)[i] \in Entries
  BY DEF Entries
<1>10. Config(d) \in Seq(Entries)
  <2>1. Config(d) \in [1 .. 1 + n -> Entries]
    BY <1>4, <1>5, <1>9, LenProperties
  <2>2. 1 + n \in Nat
    BY <1>3
  <2>. QED
    BY <2>1, <2>2, SeqDef
<1>11. \A i \in DOMAIN Config(d) : Config(d)[i][1] \in AllKeys
  BY <1>1, <1>3, <1>5, <1>6, <1>7, <1>8 DEF AllKeys
<1>12. ASSUME NEW i \in DOMAIN Config(d), NEW j \in DOMAIN Config(d),
              Config(d)[i][1] = Config(d)[j][1]
       PROVE  i = j
  <2>1. CASE i = 1 /\ j = 1
    BY <2>1
  <2>2. CASE i = 1 /\ j \in 2 .. 1 + n
    BY <2>2, <1>1, <1>3, <1>6, <1>7, <1>12, LoadBalancerAssumption
  <2>3. CASE i \in 2 .. 1 + n /\ j = 1
    BY <2>3, <1>1, <1>3, <1>6, <1>7, <1>12, LoadBalancerAssumption
  <2>4. CASE i \in 2 .. 1 + n /\ j \in 2 .. 1 + n
    <3>1. i - 1 \in DOMAIN d.entries /\ j - 1 \in DOMAIN d.entries
      BY <2>4, <1>3, <1>7
    <3>2. d.entries[i - 1][1] = d.entries[j - 1][1]
      BY <2>4, <1>7, <1>12
    <3>3. i - 1 = j - 1
      BY <3>1, <3>2, <1>1
    <3>. QED
      BY <3>3, <2>4, <1>3
  <2>. QED
    BY <2>1, <2>2, <2>3, <2>4, <1>5, <1>8
<1>. QED
  BY <1>4, <1>5, <1>9, <1>10, <1>11, <1>12

LEMMA FrontendFirst ==
  ASSUME NEW d \in Descriptions
  PROVE  1 \in DOMAIN Config(d) /\ Config(d)[1] = <<Frontend, Rules(d.weights)>>
<1>. DEFINE E == {d.entries[i] : i \in DOMAIN d.entries}
            F == <<Frontend, Rules(d.weights)>>
            S == E \cup {F}
<1>1. d.entries \in Seq(S) /\ F \in S
  <2>1. d.entries \in Seq(E) /\ E \subseteq S /\ F \in S
    BY LoadBalancerAssumption
  <2>. HIDE DEF E, F, S
  <2>. QED
    BY <2>1, SeqMonotonic
<1>. HIDE DEF S, F
<1>2. <<F>> \in Seq(S) /\ Len(<<F>>) = 1 /\ <<F>>[1] = F /\ Len(d.entries) \in Nat
  BY <1>1, LenProperties
<1>3. /\ Config(d) \in Seq(S) /\ Len(Config(d)) = 1 + Len(d.entries)
      /\ Config(d)[1] = <<F>>[1]
  BY <1>1, <1>2, ConcatProperties DEF Config, F
<1>. QED
  BY <1>2, <1>3, LenProperties DEF F

LEMMA CallsOfEntries ==
  /\ \A e \in Entries : Put(e) \in Calls /\ Delete(e) \in Calls
  /\ \A c \in Calls : c.key \in AllKeys
  /\ \A c \in Calls : c.op \in {"put", "delete"}
  /\ \A e \in Entries : e[1] \in AllKeys
<1>1. ASSUME NEW e \in Entries
      PROVE  e[1] \in AllKeys
  <2>1. PICK d \in Descriptions : e \in {Config(d)[i] : i \in DOMAIN Config(d)}
    BY Zenon DEF Entries
  <2>2. PICK i \in DOMAIN Config(d) : e = Config(d)[i]
    BY <2>1
  <2>. QED
    BY <2>2, ConfigOf
<1>2. \A e \in Entries : Put(e) \in Calls /\ Delete(e) \in Calls
  BY DEF Calls
<1>3. ASSUME NEW c \in Calls
      PROVE  c.key \in AllKeys /\ c.op \in {"put", "delete"}
  <2>1. PICK e \in Entries : c = Put(e) \/ c = Delete(e)
    BY DEF Calls
  <2>2. c.key = e[1] /\ c.op \in {"put", "delete"}
    BY <2>1 DEF Put, Delete
  <2>. QED
    BY <1>1, <2>2
<1>. QED
  BY <1>1, <1>2, <1>3

(* The calls that write a configuration and those that remove it.           *)
LEMMA CallsOf ==
  ASSUME NEW d \in Descriptions
  PROVE  /\ Configure(d) \in Seq(Calls)
         /\ Len(Configure(d)) = Len(Config(d))
         /\ \A i \in 1 .. Len(Config(d)) : Configure(d)[i] = Put(Config(d)[i])
         /\ DeleteConfiguration(d) \in Seq(Calls)
         /\ Len(DeleteConfiguration(d)) = Len(Config(d))
         /\ \A i \in 1 .. Len(Config(d)) :
              DeleteConfiguration(d)[i] = Delete(Config(d)[i])
<1>. DEFINE n == Len(Config(d))
<1>1. n \in Nat /\ DOMAIN Config(d) = 1 .. n /\ \A i \in 1 .. n : Config(d)[i] \in Entries
  BY ConfigOf
<1>2. Configure(d) \in [1 .. n -> Calls] /\ DeleteConfiguration(d) \in [1 .. n -> Calls]
  BY <1>1, CallsOfEntries DEF Configure, DeleteConfiguration
<1>3. Configure(d) \in Seq(Calls) /\ DeleteConfiguration(d) \in Seq(Calls)
  BY <1>1, <1>2, SeqDef
<1>4. Len(Configure(d)) = n /\ Len(DeleteConfiguration(d)) = n
  <2>1. DOMAIN Configure(d) = 1 .. n /\ DOMAIN DeleteConfiguration(d) = 1 .. n
    BY <1>2
  <2>. HIDE DEF n
  <2>. QED
    BY <2>1, <1>1, <1>3, LenProperties
<1>. QED
  BY <1>1, <1>3, <1>4 DEF Configure, DeleteConfiguration

-----------------------------------------------------------------------------
(* The inductive invariant.                                                 *)

Types ==
  /\ TypeOK
  /\ todo \in Seq(Calls)
  /\ last.type # "none" => last.kept \in Descriptions

(* Keys are removed before any is written.                                  *)
Shape ==
  /\ \A i, j \in DOMAIN todo : i < j /\ todo[i].op = "put" => todo[j].op = "put"
  /\ attempt = "DELETE" => \A i \in DOMAIN todo : todo[i].op = "delete"

(* An entry has been written for good, or its last call writes it.          *)
Written(e) == etcd[<<gateway, e[1]>>] = e[2] /\ \A j \in DOMAIN todo : todo[j].key # e[1]
ToWrite(e) ==
  \E j \in DOMAIN todo :
    todo[j] = Put(e) /\ \A k \in DOMAIN todo : j < k => todo[k].key # e[1]
Serving ==
  exact /\ attempt \in {"CREATE", "UPDATE"} =>
    /\ gateway = wanted.gateway
    /\ \A i \in DOMAIN Config(wanted) :
         Written(Config(wanted)[i]) \/ ToWrite(Config(wanted)[i])

(* A key that is there is lost, or it is described, or both the attempt and *)
(* an update after its crash remove it.                                     *)
Described(p) == attempt # "DELETE" /\ gateway = wanted.gateway /\ p \in Places(wanted)
ToRemove(p) ==
  \E j \in DOMAIN todo : todo[j].op = "delete" /\ <<gateway, todo[j].key>> = p
Kept(p) == last.type \in {"CREATE", "UPDATE"} /\ p \in Places(last.kept)
Leftovers ==
  attempt # "none" =>
    /\ \A p \in DOMAIN etcd :
         etcd[p] # None => p \in lost \/ Described(p) \/ (ToRemove(p) /\ Kept(p))
    /\ \A j \in DOMAIN todo : todo[j].op = "put" =>
         LET p == <<gateway, todo[j].key>> IN p \in lost \/ Described(p)

Between ==
  attempt = "none" => \A p \in DOMAIN etcd : etcd[p] # None => p \in lost \/ Kept(p)

LInv == Types /\ Shape /\ Serving /\ Served /\ Leftovers /\ Between

LEMMA ServedIsServed == LInv => Served /\ NothingStale
BY DEF LInv, Types, TypeOK, Between, Kept, NothingStale

LEMMA InitLoadBalancer == Init => LInv
<1>. SUFFICES ASSUME Init PROVE LInv
  OBVIOUS
<1>1. todo \in Seq(Calls) /\ DOMAIN todo = {}
  BY EmptySeq DEF Init
<1>2. Types
  BY <1>1, LoadBalancerAssumption DEF Init, Types, TypeOK
<1>. QED
  BY <1>1, <1>2 DEF Init, LInv, Shape, Serving, Served, Deployed, Leftovers, Between

-----------------------------------------------------------------------------
(* The calls of an attempt.                                                 *)

LEMMA NextCall ==
  ASSUME todo \in Seq(Calls), todo # <<>>
  PROVE  /\ Head(todo) = todo[1] /\ Head(todo) \in Calls /\ 1 \in DOMAIN todo
         /\ Tail(todo) \in Seq(Calls)
         /\ \A j \in DOMAIN Tail(todo) :
              j + 1 \in DOMAIN todo /\ j + 1 > 1 /\ Tail(todo)[j] = todo[j + 1]
         /\ \A j \in DOMAIN todo : j = 1 \/
              (j - 1 \in DOMAIN Tail(todo) /\ Tail(todo)[j - 1] = todo[j])
         /\ DOMAIN todo \subseteq Nat /\ DOMAIN Tail(todo) \subseteq Nat
<1>. DEFINE n == Len(todo)
<1>1. n \in Nat \ {0} /\ DOMAIN todo = 1 .. n
  BY EmptySeq, LenProperties
<1>2. /\ Head(todo) \in Calls /\ Tail(todo) \in Seq(Calls)
      /\ Len(Tail(todo)) = n - 1
      /\ \A j \in 1 .. Len(Tail(todo)) : Tail(todo)[j] = todo[j + 1]
  BY HeadTailProperties
<1>3. DOMAIN Tail(todo) = 1 .. n - 1
  BY <1>2, LenProperties
<1>4. Head(todo) = todo[1]
  OBVIOUS
<1>. HIDE DEF n
<1>5. \A j \in 1 .. n : j = 1 \/ (j - 1 \in 1 .. n - 1 /\ Tail(todo)[j - 1] = todo[j])
  <2>. SUFFICES ASSUME NEW j \in 1 .. n, j # 1
                PROVE  j - 1 \in 1 .. n - 1 /\ Tail(todo)[j - 1] = todo[j]
    OBVIOUS
  <2>1. j - 1 \in 1 .. n - 1 /\ (j - 1) + 1 = j
    BY <1>1
  <2>. QED
    BY <2>1, <1>2
<1>. QED
  BY <1>1, <1>2, <1>3, <1>4, <1>5

(* A description's calls in the order they are planned.                     *)
LEMMA PlannedCreation ==
  ASSUME NEW d \in Descriptions, NEW calls, calls = Configure(d)
  PROVE  /\ calls \in Seq(Calls)
         /\ \A j \in DOMAIN calls : calls[j].op = "put" /\ calls[j].key \in KeysOf(d)
         /\ \A i \in DOMAIN Config(d) : \E j \in DOMAIN calls :
              /\ calls[j] = Put(Config(d)[i])
              /\ \A k \in DOMAIN calls : j < k => calls[k].key # Config(d)[i][1]
<1>. DEFINE n == Len(Config(d))
<1>1. /\ n \in Nat /\ DOMAIN Config(d) = 1 .. n
      /\ \A i, j \in 1 .. n : Config(d)[i][1] = Config(d)[j][1] => i = j
  BY ConfigOf
<1>2. calls \in Seq(Calls) /\ Len(calls) = n /\ \A i \in 1 .. n : calls[i] = Put(Config(d)[i])
  BY CallsOf
<1>3. DOMAIN calls = 1 .. n
  BY <1>2, LenProperties
<1>. HIDE DEF n
<1>4. \A i \in 1 .. n : calls[i].op = "put" /\ calls[i].key = Config(d)[i][1]
  BY <1>2 DEF Put
<1>5. \A i \in 1 .. n : calls[i].key \in KeysOf(d)
  BY <1>1, <1>4 DEF KeysOf
<1>6. ASSUME NEW i \in 1 .. n
      PROVE  \A k \in 1 .. n : i < k => calls[k].key # Config(d)[i][1]
  BY <1>1, <1>4
<1>. QED
  BY <1>1, <1>2, <1>3, <1>4, <1>5, <1>6

LEMMA PlannedDeletion ==
  ASSUME NEW d \in Descriptions, NEW calls, calls = DeleteConfiguration(d)
  PROVE  /\ calls \in Seq(Calls)
         /\ \A j \in DOMAIN calls : calls[j].op = "delete"
         /\ \A k \in KeysOf(d) : \E j \in DOMAIN calls : calls[j].key = k
<1>. DEFINE n == Len(Config(d))
<1>1. n \in Nat /\ DOMAIN Config(d) = 1 .. n
  BY ConfigOf
<1>2. calls \in Seq(Calls) /\ Len(calls) = n /\ \A i \in 1 .. n : calls[i] = Delete(Config(d)[i])
  BY CallsOf
<1>3. DOMAIN calls = 1 .. n
  BY <1>2, LenProperties
<1>. HIDE DEF n
<1>4. \A i \in 1 .. n : calls[i].op = "delete" /\ calls[i].key = Config(d)[i][1]
  BY <1>2 DEF Delete
<1>. QED
  BY <1>1, <1>2, <1>3, <1>4 DEF KeysOf

LEMMA PlannedUpdate ==
  ASSUME NEW b \in Descriptions, NEW d \in Descriptions, NEW calls, calls = Update(b, d)
  PROVE  /\ calls \in Seq(Calls)
         /\ \A i, j \in DOMAIN calls : i < j /\ calls[i].op = "put" => calls[j].op = "put"
         /\ \A j \in DOMAIN calls : calls[j].op = "put" => calls[j].key \in KeysOf(d)
         /\ \A k \in KeysOf(b) : \E j \in DOMAIN calls :
              calls[j].op = "delete" /\ calls[j].key = k
         /\ \A i \in DOMAIN Config(d) : \E j \in DOMAIN calls :
              /\ calls[j] = Put(Config(d)[i])
              /\ \A k \in DOMAIN calls : j < k => calls[k].key # Config(d)[i][1]
<1>. DEFINE D == DeleteConfiguration(b)
            C == Configure(d)
            m == Len(D)
            n == Len(C)
<1>1. /\ D \in Seq(Calls)
      /\ \A j \in DOMAIN D : D[j].op = "delete"
      /\ \A k \in KeysOf(b) : \E j \in DOMAIN D : D[j].key = k
  BY PlannedDeletion
<1>2. /\ C \in Seq(Calls)
      /\ \A j \in DOMAIN C : C[j].op = "put" /\ C[j].key \in KeysOf(d)
      /\ \A i \in DOMAIN Config(d) : \E j \in DOMAIN C :
           /\ C[j] = Put(Config(d)[i])
           /\ \A k \in DOMAIN C : j < k => C[k].key # Config(d)[i][1]
  BY PlannedCreation
<1>3. calls = D \o C
  BY DEF Update
<1>. HIDE DEF D, C
<1>4. m \in Nat /\ n \in Nat /\ DOMAIN D = 1 .. m /\ DOMAIN C = 1 .. n
  BY <1>1, <1>2, LenProperties
<1>5. /\ calls \in Seq(Calls) /\ Len(calls) = m + n
      /\ \A i \in 1 .. m + n : calls[i] = IF i <= m THEN D[i] ELSE C[i - m]
  BY <1>1, <1>2, <1>3, ConcatProperties
<1>6. DOMAIN calls = 1 .. m + n
  BY <1>5, LenProperties
<1>. HIDE DEF m, n
<1>7. \A i \in 1 .. m : i \in 1 .. m + n /\ calls[i] = D[i]
  BY <1>4, <1>5
<1>8. \A i \in 1 .. n : i + m \in 1 .. m + n /\ calls[i + m] = C[i]
  <2>. SUFFICES ASSUME NEW i \in 1 .. n PROVE i + m \in 1 .. m + n /\ calls[i + m] = C[i]
    OBVIOUS
  <2>1. i + m \in 1 .. m + n /\ ~(i + m <= m) /\ (i + m) - m = i
    BY <1>4
  <2>. QED
    BY <2>1, <1>5
<1>9. \A i \in 1 .. m + n : (i <= m /\ i \in 1 .. m) \/ (i > m /\ \E l \in 1 .. n : i = l + m)
  <2>. SUFFICES ASSUME NEW i \in 1 .. m + n, ~(i <= m)
                PROVE  i > m /\ \E l \in 1 .. n : i = l + m
    BY <1>4
  <2>1. i > m /\ i - m \in 1 .. n /\ i = (i - m) + m
    BY <1>4
  <2>. QED
    BY <2>1
<1>10. \A i \in 1 .. m : calls[i].op = "delete"
  BY <1>1, <1>4, <1>7
<1>11. \A i \in 1 .. m + n : i > m => calls[i].op = "put" /\ calls[i].key \in KeysOf(d)
  <2>. SUFFICES ASSUME NEW i \in 1 .. m + n, i > m
                PROVE  calls[i].op = "put" /\ calls[i].key \in KeysOf(d)
    OBVIOUS
  <2>1. PICK l \in 1 .. n : i = l + m
    BY <1>4, <1>9
  <2>. QED
    BY <2>1, <1>2, <1>4, <1>8
<1>12. \A i \in 1 .. m + n : calls[i].op = "put" => i > m
  BY <1>4, <1>9, <1>10
<1>13. \A i, j \in 1 .. m + n : i < j /\ calls[i].op = "put" => calls[j].op = "put"
  <2>. SUFFICES ASSUME NEW i \in 1 .. m + n, NEW j \in 1 .. m + n, i < j, calls[i].op = "put"
                PROVE  calls[j].op = "put"
    OBVIOUS
  <2>1. i > m
    BY <1>12
  <2>2. j > m
    BY <2>1, <1>4
  <2>. QED
    BY <2>2, <1>11
<1>14. ASSUME NEW i \in DOMAIN Config(d)
       PROVE  \E j \in 1 .. m + n :
                /\ calls[j] = Put(Config(d)[i])
                /\ \A k \in 1 .. m + n : j < k => calls[k].key # Config(d)[i][1]
  <2>1. PICK j \in 1 .. n :
          /\ C[j] = Put(Config(d)[i])
          /\ \A k \in 1 .. n : j < k => C[k].key # Config(d)[i][1]
    BY <1>2, <1>4
  <2>2. ASSUME NEW k \in 1 .. m + n, j + m < k
        PROVE  calls[k].key # Config(d)[i][1]
    <3>1. PICK l \in 1 .. n : k = l + m
      BY <2>2, <1>4, <1>9
    <3>2. j < l
      BY <2>2, <3>1, <1>4
    <3>. QED
      BY <2>1, <3>1, <3>2, <1>8
  <2>. QED
    BY <2>1, <2>2, <1>8
<1>15. \A k \in KeysOf(b) : \E j \in 1 .. m + n : calls[j].op = "delete" /\ calls[j].key = k
  BY <1>1, <1>4, <1>7, <1>10
<1>. QED
  BY <1>5, <1>6, <1>11, <1>12, <1>13, <1>14, <1>15

-----------------------------------------------------------------------------
(* The steps.                                                               *)

LEMMA FaultsBounded ==
  ASSUME faults \in 0 .. MaxFaults, faults' = faults \/ Fault
  PROVE  faults' \in 0 .. MaxFaults
BY LoadBalancerAssumption DEF Fault

(* Descriptions that stay have the same places.                             *)
LEMMA PlacesStay ==
  ASSUME UNCHANGED <<wanted, last>>
  PROVE  /\ Places(wanted)' = Places(wanted) /\ KeysOf(wanted)' = KeysOf(wanted)
         /\ \A p : Kept(p)' <=> Kept(p)
<1>1. Config(wanted)' = Config(wanted) /\ Config(last.kept)' = Config(last.kept)
  BY DEF Config, Rules, Left
<1>2. KeysOf(wanted)' = KeysOf(wanted) /\ KeysOf(last.kept)' = KeysOf(last.kept)
  BY <1>1 DEF KeysOf
<1>3. Places(wanted)' = Places(wanted) /\ Places(last.kept)' = Places(last.kept)
  BY <1>2 DEF Places
<1>. QED
  BY <1>2, <1>3 DEF Kept

LEMMA PlacesAre ==
  ASSUME NEW d \in Descriptions
  PROVE  Places(d) \subseteq Gateways \X AllKeys /\ d.gateway \in Gateways
<1>1. KeysOf(d) \subseteq AllKeys
  BY ConfigOf DEF KeysOf
<1>. QED
  BY <1>1, LoadBalancerAssumption DEF Places

(* What an attempt writes is lost when its description changes and when it  *)
(* crashes.                                                                 *)
LEMMA WritesAre ==
  ASSUME Types, attempt # "none"
  PROVE  /\ Writes \subseteq DOMAIN etcd
         /\ \A p : Described(p) => p \in Writes
<1>1. gateway \in Gateways /\ wanted \in Descriptions
      /\ DOMAIN etcd = Gateways \X (Keys \cup {Frontend})
  BY DEF Types, TypeOK
<1>2. KeysOf(wanted) \subseteq AllKeys
  BY <1>1, ConfigOf DEF KeysOf
<1>. QED
  BY <1>1, <1>2 DEF Writes, Described, Places, AllKeys

(* At the end of an attempt the history keeps what it was made for.         *)
LEMMA DescribedIsKept ==
  ASSUME attempt \in {"CREATE", "UPDATE", "DELETE"},
         last'.type = attempt, last'.kept = wanted,
         NEW p, Described(p)
  PROVE  Kept(p)'
<1>1. attempt \in {"CREATE", "UPDATE"} /\ p \in Places(wanted)
  BY DEF Described
<1>2. Places(last.kept)' = Places(wanted)
  <2>1. KeysOf(last.kept)' = KeysOf(wanted)
    BY DEF KeysOf, Config, Rules, Left
  <2>. QED
    BY <2>1 DEF Places
<1>. QED
  BY <1>1, <1>2 DEF Kept

LEMMA EditStep == LInv /\ Edit => LInv'
<1>. SUFFICES ASSUME LInv, Edit PROVE LInv'
  OBVIOUS
<1>. USE DEF LInv
<1>1. PICK d \in Descriptions \ {wanted} : wanted' = d
  BY DEF Edit
<1>2. UNCHANGED <<etcd, last, attempt, gateway, todo>>
  BY DEF Edit, work
<1>3. CASE attempt = "none" /\ UNCHANGED mishaps
  <2>1. UNCHANGED <<faults, exact, lost>>
    BY <1>3 DEF mishaps
  <2>2. Types'
    BY <1>1, <1>2, <2>1 DEF Types, TypeOK
  <2>3. Served' /\ Between'
    <3>1. Config(last.kept)' = Config(last.kept)
      BY <1>2 DEF Config, Rules, Left
    <3>2. Places(last.kept)' = Places(last.kept)
      BY <1>2, <3>1 DEF Places, KeysOf
    <3>. QED
      BY <1>2, <1>3, <2>1, <3>1, <3>2 DEF Served, Deployed, Holds, Between, Kept
  <2>. QED
    BY <1>2, <1>3, <2>2, <2>3 DEF Shape, Serving, Leftovers
<1>4. CASE attempt # "none" /\ Fault /\ exact' = FALSE /\ lost' = lost \cup Writes
  <2>1. Writes \subseteq DOMAIN etcd /\ \A p : Described(p) => p \in lost'
    BY <1>4, WritesAre
  <2>2. faults' \in 0 .. MaxFaults
    BY <1>4, FaultsBounded DEF Types, TypeOK
  <2>3. Types'
    BY <1>1, <1>2, <1>4, <2>1, <2>2 DEF Types, TypeOK
  <2>4. Leftovers'
    <3>1. ASSUME NEW p \in DOMAIN etcd, etcd[p] # None
          PROVE  p \in lost' \/ (ToRemove(p) /\ Kept(p))
      BY <1>4, <2>1, <3>1 DEF Leftovers
    <3>2. ASSUME NEW j \in DOMAIN todo, todo[j].op = "put"
          PROVE  <<gateway, todo[j].key>> \in lost'
      BY <1>4, <2>1, <3>2 DEF Leftovers
    <3>3. \A p : (ToRemove(p)' <=> ToRemove(p)) /\ (Kept(p)' <=> Kept(p))
      BY <1>2 DEF ToRemove, Kept, Places, KeysOf, Config, Rules, Left
    <3>. QED
      BY <1>2, <3>1, <3>2, <3>3 DEF Leftovers
  <2>. QED
    BY <1>2, <1>4, <2>3, <2>4 DEF Shape, Serving, Served, Deployed, Between
<1>. QED
  BY <1>3, <1>4 DEF Edit

LEMMA CreateStep ==
  ASSUME LInv, attempt = "none", last.type \in {"none", "DELETE"},
         attempt' = "CREATE", gateway' = Configurator(wanted), todo' = Configure(wanted),
         exact' = TRUE, UNCHANGED lost, UNCHANGED <<etcd, stored, faults>>
  PROVE  LInv'
<1>. USE DEF LInv
<1>1. UNCHANGED <<etcd, wanted, last, faults, lost>>
  BY DEF stored
<1>2. /\ wanted \in Descriptions
      /\ gateway' = wanted.gateway /\ wanted.gateway \in Gateways
  BY LoadBalancerAssumption DEF Types, TypeOK, Configurator
<1>3. /\ todo' \in Seq(Calls)
      /\ \A j \in DOMAIN todo' : todo'[j].op = "put" /\ todo'[j].key \in KeysOf(wanted)
      /\ \A i \in DOMAIN Config(wanted) : \E j \in DOMAIN todo' :
           /\ todo'[j] = Put(Config(wanted)[i])
           /\ \A k \in DOMAIN todo' : j < k => todo'[k].key # Config(wanted)[i][1]
  BY <1>2, PlannedCreation
<1>4. \A i \in DOMAIN todo' : todo'[i] \in Calls
  BY <1>3, LenProperties, ElementOfSeq
<1>5. Types'
  BY <1>1, <1>2, <1>3, <1>4, CallsOfEntries DEF Types, TypeOK, AllKeys
<1>6. Shape'
  BY <1>3 DEF Shape
<1>7. Serving'
  BY <1>1, <1>2, <1>3 DEF Serving, ToWrite
<1>8. Leftovers'
  <2>1. \A p \in DOMAIN etcd : etcd[p] # None => p \in lost
    BY DEF Between, Kept
  <2>2. \A k \in KeysOf(wanted) : Described(<<gateway, k>>)'
    BY <1>1, <1>2, PlacesStay DEF Described, Places
  <2>. QED
    BY <1>1, <1>3, <2>1, <2>2 DEF Leftovers
<1>. QED
  BY <1>5, <1>6, <1>7, <1>8 DEF Served, Deployed, Between

(* An update writes where the service was, in lost places if that is not    *)
(* where it is to be.                                                       *)
LEMMA UpdateStep ==
  ASSUME LInv, attempt = "none", last.type \in {"CREATE", "UPDATE"},
         attempt' = "UPDATE", gateway' = Configurator(last.kept),
         todo' = Update(last.kept, wanted),
         exact' \in BOOLEAN, exact' => last.kept.gateway = wanted.gateway,
         lost \subseteq lost',
         lost' \subseteq lost \cup ({last.kept.gateway} \X KeysOf(wanted)),
         last.kept.gateway # wanted.gateway =>
           {last.kept.gateway} \X KeysOf(wanted) \subseteq lost',
         UNCHANGED <<etcd, stored, faults>>
  PROVE  LInv'
<1>. USE DEF LInv
<1>1. UNCHANGED <<etcd, wanted, last, faults>>
  BY DEF stored
<1>2. /\ wanted \in Descriptions /\ last.kept \in Descriptions
      /\ gateway' = last.kept.gateway /\ gateway' \in Gateways
  BY LoadBalancerAssumption DEF Types, TypeOK, Configurator
<1>3. /\ todo' \in Seq(Calls)
      /\ \A i, j \in DOMAIN todo' : i < j /\ todo'[i].op = "put" => todo'[j].op = "put"
      /\ \A j \in DOMAIN todo' : todo'[j].op = "put" => todo'[j].key \in KeysOf(wanted)
      /\ \A k \in KeysOf(last.kept) : \E j \in DOMAIN todo' :
           todo'[j].op = "delete" /\ todo'[j].key = k
      /\ \A i \in DOMAIN Config(wanted) : \E j \in DOMAIN todo' :
           /\ todo'[j] = Put(Config(wanted)[i])
           /\ \A k \in DOMAIN todo' : j < k => todo'[k].key # Config(wanted)[i][1]
  <2>1. PICK calls : calls = todo'
    OBVIOUS
  <2>2. PICK b \in Descriptions, d \in Descriptions : b = last.kept /\ d = wanted
    BY <1>2
  <2>3. calls = Update(b, d)
    BY <2>1, <2>2
  <2>4. /\ calls \in Seq(Calls)
        /\ \A i, j \in DOMAIN calls : i < j /\ calls[i].op = "put" => calls[j].op = "put"
        /\ \A j \in DOMAIN calls : calls[j].op = "put" => calls[j].key \in KeysOf(d)
        /\ \A k \in KeysOf(b) : \E j \in DOMAIN calls :
             calls[j].op = "delete" /\ calls[j].key = k
        /\ \A i \in DOMAIN Config(d) : \E j \in DOMAIN calls :
             /\ calls[j] = Put(Config(d)[i])
             /\ \A k \in DOMAIN calls : j < k => calls[k].key # Config(d)[i][1]
    BY ONLY <2>2, <2>3, PlannedUpdate
  <2>. QED
    BY <2>1, <2>2, <2>4
<1>4. \A i \in DOMAIN todo' : todo'[i] \in Calls
  BY <1>3, LenProperties, ElementOfSeq
<1>9. lost' \subseteq DOMAIN etcd
  <2>1. KeysOf(wanted) \subseteq AllKeys
    BY <1>2, ConfigOf DEF KeysOf
  <2>. QED
    BY <1>2, <2>1 DEF Types, TypeOK, AllKeys
<1>5. Types'
  BY <1>1, <1>2, <1>3, <1>4, <1>9, CallsOfEntries DEF Types, TypeOK, AllKeys
<1>6. Shape'
  BY <1>3 DEF Shape
<1>7. Serving'
  BY <1>1, <1>2, <1>3 DEF Serving, ToWrite
<1>8. Leftovers'
  <2>1. ASSUME NEW p \in DOMAIN etcd, etcd[p] # None, p \notin lost
        PROVE  ToRemove(p)' /\ Kept(p)'
    <3>1. p \in Places(last.kept)
      BY <2>1 DEF Between, Kept
    <3>2. PICK k \in KeysOf(last.kept) : p = <<gateway', k>>
      BY <1>2, <3>1 DEF Places
    <3>3. ToRemove(p)'
      BY <1>3, <3>2 DEF ToRemove
    <3>4. Kept(p)'
      BY <1>1, <3>1, PlacesStay DEF Kept
    <3>. QED
      BY <3>3, <3>4
  <2>2. ASSUME NEW k \in KeysOf(wanted)
        PROVE  <<gateway', k>> \in lost' \/ Described(<<gateway, k>>)'
    <3>1. CASE last.kept.gateway # wanted.gateway
      BY <1>2, <3>1
    <3>2. CASE last.kept.gateway = wanted.gateway
      BY <1>1, <1>2, <3>2, PlacesStay DEF Described, Places
    <3>. QED
      BY <3>1, <3>2
  <2>. QED
    BY <1>1, <1>3, <2>1, <2>2 DEF Leftovers
<1>. QED
  BY <1>5, <1>6, <1>7, <1>8 DEF Served, Deployed, Between

(* What a deletion is not told of is lost.                                  *)
LEMMA UndeployStep == LInv /\ Undeploy => LInv'
<1>. SUFFICES ASSUME LInv, Undeploy PROVE LInv'
  OBVIOUS
<1>. USE DEF LInv
<1>. DEFINE untold == Places(last.kept) \ Places(wanted)
<1>1. /\ UNCHANGED <<etcd, wanted, last, exact>>
      /\ attempt = "none" /\ last.type \in {"CREATE", "UPDATE"}
      /\ attempt' = "DELETE" /\ gateway' = wanted.gateway
      /\ todo' = DeleteConfiguration(wanted)
      /\ lost' = lost \cup untold
      /\ faults' = faults \/ Fault
  BY DEF Undeploy, Configurator, stored, mishaps
<1>2. faults' \in 0 .. MaxFaults
  BY <1>1, FaultsBounded DEF Types, TypeOK
<1>3. /\ wanted \in Descriptions /\ wanted.gateway \in Gateways
      /\ lost' \subseteq DOMAIN etcd
  BY <1>1, PlacesAre DEF Types, TypeOK, AllKeys
<1>4. /\ todo' \in Seq(Calls)
      /\ \A j \in DOMAIN todo' : todo'[j].op = "delete"
      /\ \A k \in KeysOf(wanted) : \E j \in DOMAIN todo' : todo'[j].key = k
  <2>1. todo' = DeleteConfiguration(wanted)
    BY <1>1
  <2>. QED
    BY <1>3, <2>1, PlannedDeletion
<1>5. \A i \in DOMAIN todo' : todo'[i] \in Calls
  BY <1>4, LenProperties, ElementOfSeq
<1>6. Types'
  BY <1>1, <1>2, <1>3, <1>4, <1>5, CallsOfEntries DEF Types, TypeOK, AllKeys
<1>7. Shape'
  BY <1>4 DEF Shape
<1>8. Leftovers'
  <2>1. ASSUME NEW p \in DOMAIN etcd, etcd[p] # None, p \notin lost'
        PROVE  ToRemove(p)' /\ Kept(p)'
    <3>1. p \in Places(last.kept) /\ p \in Places(wanted)
      BY <1>1, <2>1 DEF Between, Kept
    <3>2. PICK k \in KeysOf(wanted) : p = <<gateway', k>>
      BY <1>1, <3>1 DEF Places
    <3>3. ToRemove(p)'
      BY <1>4, <3>2 DEF ToRemove
    <3>4. Kept(p)'
      BY <1>1, <3>1, PlacesStay DEF Kept
    <3>. QED
      BY <3>3, <3>4
  <2>. QED
    BY <1>1, <1>4, <2>1 DEF Leftovers
<1>. QED
  BY <1>1, <1>6, <1>7, <1>8 DEF Serving, Served, Deployed, Between

LEMMA TailStep ==
  ASSUME LInv, todo # <<>>, todo' = Tail(todo),
         UNCHANGED <<stored, attempt, gateway>>, faults' = faults \/ Fault,
         UNCHANGED exact, lost' \subseteq DOMAIN etcd, DOMAIN etcd' = DOMAIN etcd
  PROVE  Types' /\ Shape' /\ attempt # "none" /\ Served' /\ Between'
<1>. USE DEF LInv
<1>1. todo \in Seq(Calls) /\ attempt # "none"
  BY DEF Types, TypeOK
<1>2. faults' \in 0 .. MaxFaults
  BY LoadBalancerAssumption DEF Fault, Types, TypeOK
<1>3. /\ todo' \in Seq(Calls)
      /\ DOMAIN todo' \subseteq Nat
      /\ \A j \in DOMAIN todo' : j + 1 \in DOMAIN todo /\ todo'[j] = todo[j + 1]
  BY <1>1, NextCall
<1>4. Types'
  BY <1>1, <1>2, <1>3 DEF stored, Types, TypeOK
<1>5. Shape'
  <2>1. ASSUME NEW i \in DOMAIN todo', NEW j \in DOMAIN todo', i < j, todo'[i].op = "put"
        PROVE  todo'[j].op = "put"
    <3>1. i + 1 < j + 1
      BY <1>3, <2>1
    <3>. QED
      BY <1>3, <2>1, <3>1 DEF Shape
  <2>2. attempt' = "DELETE" => \A i \in DOMAIN todo' : todo'[i].op = "delete"
    BY <1>3 DEF Shape
  <2>. QED
    BY <2>1, <2>2 DEF Shape
<1>. QED
  BY <1>1, <1>4, <1>5 DEF Served, Deployed, Between

(* What is not the next call's key stays what it was.                       *)
LEMMA StillToWrite ==
  ASSUME LInv, todo # <<>>, todo' = Tail(todo), NEW e \in Entries, ToWrite(e),
         ~(todo[1] = Put(e) /\ \A k \in DOMAIN todo : 1 < k => todo[k].key # e[1])
  PROVE  ToWrite(e)'
<1>. USE DEF LInv
<1>1. /\ DOMAIN todo \subseteq Nat /\ DOMAIN todo' \subseteq Nat
      /\ \A j \in DOMAIN todo' : j + 1 \in DOMAIN todo /\ todo'[j] = todo[j + 1]
      /\ \A j \in DOMAIN todo : j = 1 \/ (j - 1 \in DOMAIN todo' /\ todo'[j - 1] = todo[j])
  BY NextCall DEF Types
<1>2. PICK j \in DOMAIN todo :
        todo[j] = Put(e) /\ \A k \in DOMAIN todo : j < k => todo[k].key # e[1]
  BY DEF ToWrite
<1>3. j # 1
  BY <1>2
<1>4. j - 1 \in DOMAIN todo' /\ todo'[j - 1] = Put(e)
  BY <1>1, <1>2, <1>3
<1>5. ASSUME NEW k \in DOMAIN todo', j - 1 < k
      PROVE  todo'[k].key # e[1]
  <2>1. j < k + 1
    BY <1>1, <1>5
  <2>. QED
    BY <1>1, <1>2, <2>1
<1>6. ToWrite(e)' <=>
        \E i \in DOMAIN todo' :
          todo'[i] = Put(e) /\ \A k \in DOMAIN todo' : i < k => todo'[k].key # e[1]
  BY DEF ToWrite
<1>. QED
  BY <1>4, <1>5, <1>6

LEMMA StillWritten ==
  ASSUME LInv, todo # <<>>, todo' = Tail(todo), NEW e \in Entries, Written(e),
         UNCHANGED gateway,
         etcd' = etcd \/ etcd' = [etcd EXCEPT ![<<gateway, todo[1].key>>] = todo[1].value]
  PROVE  Written(e)'
<1>1. /\ 1 \in DOMAIN todo
      /\ \A j \in DOMAIN todo' : j + 1 \in DOMAIN todo /\ todo'[j] = todo[j + 1]
  BY NextCall DEF LInv, Types
<1>2. etcd[<<gateway, e[1]>>] = e[2] /\ todo[1].key # e[1]
  BY <1>1 DEF Written
<1>3. <<gateway, e[1]>> \in DOMAIN etcd
  <2>1. attempt # "none"
    BY DEF LInv, Types, TypeOK
  <2>. QED
    BY <2>1, CallsOfEntries DEF AllKeys, LInv, Types, TypeOK
<1>4. etcd'[<<gateway, e[1]>>] = e[2]
  BY <1>2, <1>3
<1>5. \A j \in DOMAIN todo' : todo'[j].key # e[1]
  BY <1>1 DEF Written
<1>. QED
  BY <1>4, <1>5 DEF Written

LEMMA CallStep == LInv /\ Call => LInv'
<1>. SUFFICES ASSUME LInv, Call PROVE LInv'
  OBVIOUS
<1>. USE DEF LInv
<1>1. /\ todo # <<>> /\ todo' = Tail(todo)
      /\ UNCHANGED <<stored, attempt, gateway>>
      /\ UNCHANGED <<wanted, last, faults, exact, lost>>
      /\ Head(todo) = todo[1] /\ Head(todo) \in Calls
      /\ etcd' = [etcd EXCEPT ![<<gateway, todo[1].key>>] = todo[1].value]
      /\ DOMAIN etcd' = DOMAIN etcd
  BY NextCall DEF Call, Target, stored, mishaps, Types
<1>2. Types' /\ Shape' /\ attempt # "none" /\ Served' /\ Between'
  BY <1>1, TailStep DEF Types, TypeOK
<1>3. /\ 1 \in DOMAIN todo
      /\ \A j \in DOMAIN todo' : j + 1 \in DOMAIN todo /\ j + 1 > 1 /\ todo'[j] = todo[j + 1]
      /\ \A j \in DOMAIN todo : j = 1 \/ (j - 1 \in DOMAIN todo' /\ todo'[j - 1] = todo[j])
  BY <1>1, NextCall DEF Types
<1>4. <<gateway, todo[1].key>> \in DOMAIN etcd
  BY <1>1, <1>2, CallsOfEntries DEF AllKeys, Types, TypeOK
<1>5. Serving'
  <2>. SUFFICES ASSUME exact, attempt \in {"CREATE", "UPDATE"}, NEW i \in DOMAIN Config(wanted)
                PROVE  Written(Config(wanted)[i])' \/ ToWrite(Config(wanted)[i])'
    BY <1>1 DEF Serving
  <2>1. PICK e \in Entries : e = Config(wanted)[i]
    BY ConfigOf DEF Types, TypeOK
  <2>2. Written(e)' \/ ToWrite(e)'
    <3>1. CASE Written(e)
      BY <1>1, <3>1, StillWritten
    <3>2. CASE todo[1] = Put(e) /\ \A k \in DOMAIN todo : 1 < k => todo[k].key # e[1]
      <4>1. etcd'[<<gateway, e[1]>>] = e[2]
        BY <1>1, <1>4, <3>2 DEF Put
      <4>2. \A k \in DOMAIN todo' : todo'[k].key # e[1]
        BY <1>3, <3>2
      <4>. QED
        BY <1>1, <4>1, <4>2 DEF Written
    <3>3. CASE /\ ToWrite(e)
               /\ ~(todo[1] = Put(e) /\ \A k \in DOMAIN todo : 1 < k => todo[k].key # e[1])
      BY <1>1, <3>3, StillToWrite
    <3>4. Written(e) \/ ToWrite(e)
      BY <2>1 DEF Serving
    <3>. QED
      BY <3>1, <3>2, <3>3, <3>4
  <2>3. Config(wanted)[i]' = e
    BY <1>1, <2>1 DEF Config, Rules, Left
  <2>. QED
    BY <1>1, <2>1, <2>2, <2>3 DEF Written, ToWrite
<1>6. Leftovers'
  <2>1. \A p : (Described(p)' <=> Described(p)) /\ (Kept(p)' <=> Kept(p))
    BY <1>1 DEF Described, Kept, Places, KeysOf, Config, Rules, Left
  <2>2. ASSUME NEW j \in DOMAIN todo', todo'[j].op = "put"
        PROVE  <<gateway, todo'[j].key>> \in lost \/ Described(<<gateway, todo'[j].key>>)
    BY <1>2, <1>3, <2>2 DEF Leftovers
  <2>3. ASSUME NEW p \in DOMAIN etcd', etcd'[p] # None
        PROVE  p \in lost \/ Described(p) \/ (ToRemove(p)' /\ Kept(p))
    <3>1. CASE p = <<gateway, todo[1].key>>
      <4>1. todo[1].value # None
        BY <1>1, <1>4, <2>3, <3>1
      <4>2. todo[1].op = "put"
        BY <1>1, <4>1 DEF Calls, Put, Delete
      <4>. QED
        BY <1>2, <1>3, <3>1, <4>2 DEF Leftovers
    <3>2. CASE p # <<gateway, todo[1].key>>
      <4>1. etcd[p] # None /\ p \in DOMAIN etcd
        BY <1>1, <2>3, <3>2
      <4>2. ASSUME ToRemove(p) PROVE ToRemove(p)'
        <5>1. PICK j \in DOMAIN todo :
                todo[j].op = "delete" /\ <<gateway, todo[j].key>> = p
          BY <4>2 DEF ToRemove
        <5>. QED
          BY <1>1, <1>3, <3>2, <5>1 DEF ToRemove
      <4>. QED
        BY <1>2, <4>1, <4>2 DEF Leftovers
    <3>. QED
      BY <3>1, <3>2
  <2>. QED
    BY <1>1, <2>1, <2>2, <2>3 DEF Leftovers
<1>. QED
  BY <1>2, <1>5, <1>6

LEMMA DeleteRefusedStep == LInv /\ DeleteRefused => LInv'
<1>. SUFFICES ASSUME LInv, DeleteRefused PROVE LInv'
  OBVIOUS
<1>. USE DEF LInv
<1>. DEFINE t == <<gateway, todo[1].key>>
<1>1. /\ todo # <<>> /\ todo' = Tail(todo)
      /\ UNCHANGED <<stored, attempt, gateway>> /\ UNCHANGED <<etcd, wanted, last, exact>>
      /\ Head(todo) = todo[1] /\ Head(todo) \in Calls /\ todo[1].op = "delete"
      /\ faults' = faults \/ Fault
      /\ \/ etcd[t] = None /\ lost' = lost
         \/ etcd[t] # None /\ lost' = lost \cup {t}
  BY NextCall DEF DeleteRefused, Target, stored, mishaps, Types
<1>2. attempt # "none" /\ t \in DOMAIN etcd
  BY <1>1, CallsOfEntries DEF AllKeys, Types, TypeOK
<1>3. lost \subseteq lost' /\ lost' \subseteq DOMAIN etcd
  BY <1>1, <1>2 DEF Types, TypeOK
<1>4. Types' /\ Shape' /\ Served' /\ Between'
  BY <1>1, <1>3, TailStep
<1>5. /\ 1 \in DOMAIN todo
      /\ \A j \in DOMAIN todo' : j + 1 \in DOMAIN todo /\ todo'[j] = todo[j + 1]
      /\ \A j \in DOMAIN todo : j = 1 \/ (j - 1 \in DOMAIN todo' /\ todo'[j - 1] = todo[j])
  BY <1>1, NextCall DEF Types
<1>6. Serving'
  <2>. SUFFICES ASSUME exact, attempt \in {"CREATE", "UPDATE"}, NEW i \in DOMAIN Config(wanted)
                PROVE  Written(Config(wanted)[i])' \/ ToWrite(Config(wanted)[i])'
    BY <1>1 DEF Serving
  <2>1. PICK e \in Entries : e = Config(wanted)[i]
    BY ConfigOf DEF Types, TypeOK
  <2>2. todo[1] # Put(e)
    <3>1. Put(e).op = "put"
      BY DEF Put
    <3>. QED
      BY <1>1, <3>1
  <2>3. Written(e) \/ ToWrite(e)
    BY <2>1 DEF Serving
  <2>4. Written(e)' \/ ToWrite(e)'
    BY <1>1, <2>2, <2>3, StillWritten, StillToWrite
  <2>5. Config(wanted)[i]' = e
    BY <1>1, <2>1 DEF Config, Rules, Left
  <2>. QED
    BY <2>1, <2>4, <2>5 DEF Written, ToWrite
<1>7. Leftovers'
  <2>1. \A p : (Described(p)' <=> Described(p)) /\ (Kept(p)' <=> Kept(p))
    BY <1>1 DEF Described, Kept, Places, KeysOf, Config, Rules, Left
  <2>2. ASSUME NEW j \in DOMAIN todo', todo'[j].op = "put"
        PROVE  <<gateway, todo'[j].key>> \in lost' \/ Described(<<gateway, todo'[j].key>>)
    BY <1>2, <1>3, <1>5, <2>2 DEF Leftovers
  <2>3. ASSUME NEW p \in DOMAIN etcd, etcd[p] # None, p \notin lost'
        PROVE  Described(p) \/ (ToRemove(p)' /\ Kept(p))
    <3>1. p # t /\ p \notin lost
      BY <1>1, <1>3, <2>3
    <3>2. ASSUME ToRemove(p) PROVE ToRemove(p)'
      <4>1. PICK j \in DOMAIN todo :
              todo[j].op = "delete" /\ <<gateway, todo[j].key>> = p
        BY <3>2 DEF ToRemove
      <4>. QED
        BY <1>1, <1>5, <3>1, <4>1 DEF ToRemove
    <3>. QED
      BY <1>2, <2>3, <3>1, <3>2 DEF Leftovers
  <2>. QED
    BY <1>1, <2>1, <2>2, <2>3 DEF Leftovers
<1>. QED
  BY <1>2, <1>4, <1>6, <1>7

LEMMA FinishStep == LInv /\ Finish => LInv'
<1>. SUFFICES ASSUME LInv, Finish PROVE LInv'
  OBVIOUS
<1>. USE DEF LInv
<1>1. /\ attempt # "none" /\ todo = <<>>
      /\ attempt' = "none" /\ gateway' = None /\ todo' = <<>>
      /\ last' = [type |-> attempt, kept |-> wanted, failed |-> FALSE]
      /\ UNCHANGED <<etcd, wanted, faults, exact, lost>>
  BY DEF Finish, End, mishaps
<1>2. DOMAIN todo = {} /\ DOMAIN todo' = {} /\ todo' \in Seq(Calls)
  BY <1>1, EmptySeq
<1>3. /\ last'.type = attempt /\ last'.kept = wanted /\ last'.failed = FALSE
      /\ attempt \in {"CREATE", "UPDATE", "DELETE"}
  BY <1>1 DEF Types, TypeOK
<1>4. Types'
  BY <1>1, <1>2, <1>3 DEF Types, TypeOK
<1>5. Served'
  <2>. SUFFICES ASSUME exact, attempt \in {"CREATE", "UPDATE"}
                PROVE  Holds(wanted)'
    BY <1>1, <1>3 DEF Served, Deployed, Holds
  <2>1. /\ gateway = wanted.gateway
        /\ \A i \in DOMAIN Config(wanted) : Written(Config(wanted)[i])
    BY <1>2 DEF Serving, ToWrite
  <2>2. Config(wanted)' = Config(wanted)
    BY <1>1 DEF Config, Rules, Left
  <2>. QED
    BY <1>1, <2>1, <2>2 DEF Written, Holds
<1>6. Between'
  <2>1. ASSUME NEW p \in DOMAIN etcd, etcd[p] # None, p \notin lost
        PROVE  Described(p)
    BY <1>1, <1>2, <2>1 DEF Leftovers, ToRemove
  <2>. QED
    BY <1>1, <1>3, <2>1, DescribedIsKept DEF Between
<1>. QED
  BY <1>1, <1>2, <1>4, <1>5, <1>6 DEF Shape, Serving, Leftovers

(* What a failed attempt had still to remove is lost: the history keeps the *)
(* description as it is wanted.                                             *)
LEMMA AttemptFailsStep == LInv /\ AttemptFails => LInv'
<1>. SUFFICES ASSUME LInv, AttemptFails PROVE LInv'
  OBVIOUS
<1>. USE DEF LInv
<1>1. /\ attempt # "none" /\ attempt' = "none" /\ gateway' = None /\ todo' = <<>>
      /\ last' = [type |-> attempt, kept |-> wanted, failed |-> TRUE]
      /\ UNCHANGED <<etcd, wanted, exact>>
      /\ Fault /\ lost' = lost \cup Unremoved
  BY DEF AttemptFails, End
<1>2. \A p : ToRemove(p) => p \in lost'
  BY <1>1 DEF ToRemove, Unremoved
<1>3. Unremoved \subseteq DOMAIN etcd
  BY <1>1 DEF Unremoved, Types, TypeOK
<1>4. DOMAIN todo' = {} /\ todo' \in Seq(Calls)
  <2>1. todo' = <<>>
    BY <1>1
  <2>. QED
    BY <2>1, EmptySeq
<1>5. /\ last'.type = attempt /\ last'.kept = wanted /\ last'.failed = TRUE
      /\ attempt \in {"CREATE", "UPDATE", "DELETE"}
  BY <1>1 DEF Types, TypeOK
<1>6. faults' \in 0 .. MaxFaults
  BY <1>1, FaultsBounded DEF Types, TypeOK
<1>7. Types'
  BY <1>1, <1>3, <1>4, <1>5, <1>6 DEF Types, TypeOK
<1>8. Between'
  <2>1. ASSUME NEW p \in DOMAIN etcd, etcd[p] # None, p \notin lost'
        PROVE  Described(p)
    BY <1>1, <1>2, <2>1 DEF Leftovers
  <2>. QED
    BY <1>1, <1>5, <2>1, DescribedIsKept DEF Between
<1>. QED
  BY <1>1, <1>4, <1>5, <1>7, <1>8 DEF Shape, Serving, Served, Deployed, Leftovers

LEMMA CrashStep == LInv /\ Crash => LInv'
<1>. SUFFICES ASSUME LInv, Crash PROVE LInv'
  OBVIOUS
<1>. USE DEF LInv
<1>1. /\ attempt # "none" /\ attempt' = "none" /\ gateway' = None /\ todo' = <<>>
      /\ UNCHANGED <<etcd, wanted, last>>
      /\ Fault /\ exact' = FALSE /\ lost' = lost \cup Writes
  BY DEF Crash, stored
<1>2. DOMAIN todo' = {} /\ todo' \in Seq(Calls)
  BY <1>1, EmptySeq
<1>3. faults' \in 0 .. MaxFaults
  BY <1>1, FaultsBounded DEF Types, TypeOK
<1>4. Writes \subseteq DOMAIN etcd /\ \A p : Described(p) => p \in lost'
  BY <1>1, WritesAre
<1>5. Types'
  BY <1>1, <1>2, <1>3, <1>4 DEF Types, TypeOK
<1>6. Between'
  <2>1. \A p : Kept(p)' <=> Kept(p)
    BY <1>1 DEF Kept, Places, KeysOf, Config, Rules, Left
  <2>. QED
    BY <1>1, <1>4, <2>1 DEF Between, Leftovers
<1>. QED
  BY <1>1, <1>2, <1>5, <1>6 DEF Shape, Serving, Served, Leftovers

(* The invariant of the configuration, for any number of failures.          *)
THEOREM Invariant == Spec => []LInv
<1>1. Init => LInv
  BY InitLoadBalancer
<1>2. LInv /\ [Next]_vars => LInv'
  <2>. SUFFICES ASSUME LInv, [Next]_vars PROVE LInv'
    OBVIOUS
  <2>1. CASE Edit
    BY <2>1, EditStep
  <2>2. CASE Deploy
    <3>1. CASE last.type \in {"none", "DELETE"}
      BY <2>2, <3>1, CreateStep DEF Deploy
    <3>2. CASE last.type \in {"CREATE", "UPDATE"}
      BY <2>2, <3>2, UpdateStep DEF Deploy, OtherGateway
    <3>. QED
      BY <2>2, <3>1, <3>2 DEF Deploy
  <2>3. CASE Undeploy
    BY <2>3, UndeployStep
  <2>4. CASE Call
    BY <2>4, CallStep
  <2>5. CASE DeleteRefused
    BY <2>5, DeleteRefusedStep
  <2>6. CASE Finish
    BY <2>6, FinishStep
  <2>7. CASE AttemptFails
    BY <2>7, AttemptFailsStep
  <2>8. CASE Crash
    BY <2>8, CrashStep
  <2>9. CASE UNCHANGED vars
    <3>1. UNCHANGED <<etcd, wanted, last, attempt, gateway, todo, faults, exact, lost>>
      BY <2>9 DEF vars, stored, work, mishaps
    <3>2. Types' /\ Shape'
      BY <3>1 DEF LInv, Types, TypeOK, Shape
    <3>3. Config(wanted)' = Config(wanted) /\ Config(last.kept)' = Config(last.kept)
      BY <3>1 DEF Config, Rules, Left
    <3>4. Serving'
      <4>. SUFFICES ASSUME exact, attempt \in {"CREATE", "UPDATE"}, NEW i \in DOMAIN Config(wanted)
                    PROVE  Written(Config(wanted)[i])' \/ ToWrite(Config(wanted)[i])'
        BY <3>1, <3>3 DEF LInv, Serving
      <4>1. Written(Config(wanted)[i]) \/ ToWrite(Config(wanted)[i])
        BY DEF LInv, Serving
      <4>2. Config(wanted)[i]' = Config(wanted)[i]
        BY <3>3
      <4>. QED
        BY <3>1, <4>1, <4>2 DEF Written, ToWrite, Put
    <3>5. Served'
      BY <3>1, <3>3 DEF LInv, Served, Deployed, Holds
    <3>6. \A p : /\ (Described(p)' <=> Described(p))
                /\ (Kept(p)' <=> Kept(p))
                /\ (ToRemove(p)' <=> ToRemove(p))
      BY <3>1, PlacesStay DEF Described, ToRemove
    <3>7. Leftovers' /\ Between'
      BY <3>1, <3>6 DEF LInv, Leftovers, Between
    <3>. QED
      BY <3>2, <3>4, <3>5, <3>7 DEF LInv
  <2>. QED
    BY <2>1, <2>2, <2>3, <2>4, <2>5, <2>6, <2>7, <2>8, <2>9 DEF Next
<1>. QED
  BY <1>1, <1>2, PTL DEF Spec

(* The variables keep their types, and calls belong to an attempt.          *)
THEOREM TypeCorrect == Spec => []TypeOK
<1>1. LInv => TypeOK
  BY DEF LInv, Types
<1>. QED
  BY <1>1, Invariant, PTL

(* When HAProxyDeployer's action has succeeded, the etcd of the service's   *)
(* gateway has its whole configuration, whatever calls failed, were lost or *)
(* swallowed before and whichever gateways the service had, unless this was *)
(* its update to the gateway from another or it was edited meanwhile.       *)
THEOREM DeployedIsServed == Spec => []Served
<1>1. LInv => Served
  BY ServedIsServed
<1>. QED
  BY <1>1, Invariant, PTL

(* HAProxyDeployer's updates and deletions leave no key behind at any       *)
(* gateway but those that each failure, edit and change of the gateway      *)
(* loses at its time.                                                       *)
THEOREM NothingLeftOver == Spec => []NothingStale
<1>1. LInv => NothingStale
  BY ServedIsServed
<1>. QED
  BY <1>1, Invariant, PTL

-----------------------------------------------------------------------------
(* A/B testing.  What is said of each weight is shown for the first of      *)
(* those that would be an exception.                                        *)

LEMMA LeastNumber ==
  ASSUME NEW T, T \subseteq Nat, T # {}
  PROVE  \E x \in T : \A y \in T : x <= y
<1>. DEFINE R == {s \in Nat \X Nat : s[1] < s[2]}
<1>1. IsWellFoundedOn(R, Nat)
  BY NatLessThanWellFounded, Zenon DEF OpToRel
<1>2. PICK x \in T : \A y \in T : <<y, x>> \notin R
  <2>. HIDE DEF R
  <2>. QED
    BY <1>1, WFMin, Zenon
<1>3. \A y \in T : ~(y < x)
  <2>. SUFFICES ASSUME NEW y \in T, y < x PROVE FALSE
    OBVIOUS
  <2>1. x \in Nat /\ y \in Nat
    BY <1>2
  <2>2. <<y, x>> \in R
    BY <2>1
  <2>. QED
    BY <1>2, <2>2
<1>4. x \in Nat /\ \A y \in T : y \in Nat
  BY <1>2
<1>. QED
  BY <1>3, <1>4

LEMMA UpFromOne ==
  ASSUME NEW n \in Nat, NEW S,
         n > 0 => 1 \in S,
         \A i \in S : i \in 1 .. n - 1 => i + 1 \in S
  PROVE  1 .. n \subseteq S
<1>. DEFINE T == (1 .. n) \ S
<1>. SUFFICES ASSUME T # {} PROVE FALSE
  OBVIOUS
<1>1. PICK x \in T : \A y \in T : x <= y
  <2>1. T \subseteq Nat
    OBVIOUS
  <2>. HIDE DEF T
  <2>. QED
    BY <2>1, LeastNumber
<1>2. x \in 1 .. n /\ x # 1
  BY <1>1
<1>3. x - 1 \in 1 .. n - 1 /\ x - 1 \in S
  BY <1>1, <1>2
<1>4. (x - 1) + 1 = x
  BY <1>2
<1>. QED
  BY <1>1, <1>3, <1>4

(* What is left is Total less the weights before, in spite of its recursion.*)
Remains(f, w, n) ==
  \A i \in 1 .. n : f[i] = IF i = 1 THEN Total ELSE f[i - 1] - w[i - 1][2]

LEMMA LeftExists ==
  ASSUME NEW w, NEW n \in Nat \ {0}, DOMAIN w = 1 .. n, \A i \in 1 .. n : w[i][2] \in Nat
  PROVE  \E f \in [1 .. n -> Int] : Remains(f, w, n)
<1>. DEFINE S == {m \in 0 .. n : \E f \in [1 .. m -> Int] : Remains(f, w, m)}
<1>2. n > 0 => 1 \in S
  <2>1. [i \in 1 .. 1 |-> Total] \in [1 .. 1 -> Int]
    BY DEF Total
  <2>2. Remains([i \in 1 .. 1 |-> Total], w, 1)
    BY DEF Remains
  <2>. QED
    BY <2>1, <2>2
<1>3. ASSUME NEW m \in S, m \in 1 .. n - 1
      PROVE  m + 1 \in S
  <2>1. PICK f \in [1 .. m -> Int] : Remains(f, w, m)
    OBVIOUS
  <2>. DEFINE g == [i \in 1 .. m + 1 |-> IF i = m + 1 THEN f[m] - w[m][2] ELSE f[i]]
  <2>2. m \in Nat /\ m \in 1 .. m /\ m \in 1 .. n /\ m + 1 \in 0 .. n
    BY <1>3
  <2>3. g \in [1 .. m + 1 -> Int]
    BY <2>2
  <2>4. Remains(g, w, m + 1)
    <3>. SUFFICES ASSUME NEW i \in 1 .. m + 1
                  PROVE  g[i] = IF i = 1 THEN Total ELSE g[i - 1] - w[i - 1][2]
      BY DEF Remains
    <3>1. CASE i = m + 1
      <4>1. i # 1 /\ i - 1 = m /\ m \in 1 .. m + 1 /\ m # m + 1
        BY <2>2, <3>1
      <4>. QED
        BY <3>1, <4>1
    <3>2. CASE i \in 1 .. m
      <4>1. i # m + 1 /\ (i # 1 => i - 1 \in 1 .. m + 1 /\ i - 1 # m + 1)
        BY <2>2, <3>2
      <4>. QED
        BY <2>1, <3>2, <4>1 DEF Remains
    <3>. QED
      BY <2>2, <3>1, <3>2
  <2>. QED
    BY <2>2, <2>3, <2>4
<1>. HIDE DEF S
<1>4. 1 .. n \subseteq S
  BY <1>2, <1>3, UpFromOne
<1>5. n \in S
  BY <1>4
<1>. QED
  BY <1>5 DEF S

LEMMA LeftIs ==
  ASSUME NEW w, NEW n \in Nat \ {0}, DOMAIN w = 1 .. n, \A i \in 1 .. n : w[i][2] \in Nat
  PROVE  Left(w) \in [1 .. n -> Int] /\ Remains(Left(w), w, n)
<1>. DEFINE Body(f) == [i \in DOMAIN w |-> IF i = 1 THEN Total ELSE f[i - 1] - w[i - 1][2]]
<1>1. PICK f \in [1 .. n -> Int] : Remains(f, w, n)
  BY LeftExists
<1>2. f = Body(f)
  BY <1>1 DEF Remains
<1>3. Left(w) = Body(Left(w))
  <2>1. Left(w) = CHOOSE h : h = Body(h)
    BY DEF Left
  <2>. HIDE DEF Body
  <2>. QED
    BY <1>2, <2>1
<1>4. Remains(Left(w), w, n) /\ DOMAIN Left(w) = 1 .. n
  <2>1. DOMAIN Body(Left(w)) = 1 .. n
    OBVIOUS
  <2>2. \A i \in 1 .. n : Body(Left(w))[i] =
          IF i = 1 THEN Total ELSE Left(w)[i - 1] - w[i - 1][2]
    OBVIOUS
  <2>. HIDE DEF Body
  <2>. QED
    BY <1>3, <2>1, <2>2 DEF Remains
<1>5. Left(w) = [i \in 1 .. n |-> Left(w)[i]]
  BY <1>3, <1>4
<1>. DEFINE S == {i \in 1 .. n : Left(w)[i] \in Int}
<1>6. n > 0 => 1 \in S
  BY <1>4 DEF Remains, Total
<1>7. ASSUME NEW i \in S, i \in 1 .. n - 1
      PROVE  i + 1 \in S
  <2>1. i + 1 \in 1 .. n /\ i + 1 # 1 /\ (i + 1) - 1 = i
    BY <1>7
  <2>2. Left(w)[i + 1] = Left(w)[i] - w[i][2]
    BY <1>4, <2>1 DEF Remains
  <2>. QED
    BY <2>1, <2>2
<1>8. 1 .. n \subseteq S
  <2>. HIDE DEF S
  <2>. QED
    BY <1>6, <1>7, UpFromOne
<1>9. \A i \in 1 .. n : Left(w)[i] \in Int
  BY <1>8
<1>. QED
  BY <1>4, <1>5, <1>9
(* Percentages are all taken: what is left for a weight is at least it.     *)
LEMMA EnoughIsLeft ==
  ASSUME NEW w, NEW n \in Nat \ {0}, DOMAIN w = 1 .. n, Len(w) = n,
         \A i \in 1 .. n : w[i][2] \in Nat, Percent(w)
  PROVE  \A i \in 1 .. n : Left(w)[i] \in Nat \ {0}
<1>1. (\A i \in 1 .. n : w[i][2] > 0) /\ Left(w)[n] = w[n][2]
  BY DEF Percent
<1>2. (\A i \in 1 .. n : Left(w)[i] \in Int) /\ Remains(Left(w), w, n)
  BY LeftIs
<1>3. ASSUME NEW i \in 1 .. n - 1, Left(w)[i + 1] > 0
      PROVE  Left(w)[i] > 0
  <2>1. i + 1 \in 1 .. n /\ i + 1 # 1 /\ (i + 1) - 1 = i /\ i \in 1 .. n
    OBVIOUS
  <2>2. Left(w)[i + 1] = Left(w)[i] - w[i][2]
    BY <1>2, <2>1 DEF Remains
  <2>. QED
    BY <1>1, <1>2, <1>3, <2>1, <2>2
<1>. DEFINE S == {i \in 1 .. n : Left(w)[n + 1 - i] > 0}
<1>4. 1 \in S
  BY <1>1
<1>5. ASSUME NEW i \in S, i \in 1 .. n - 1
      PROVE  i + 1 \in S
  <2>1. n - i \in 1 .. n - 1 /\ (n - i) + 1 = n + 1 - i /\ n + 1 - (i + 1) = n - i
    BY <1>5
  <2>2. Left(w)[n - i] > 0
    BY <1>3, <2>1
  <2>. QED
    BY <2>1, <2>2
<1>6. 1 .. n \subseteq S
  <2>. HIDE DEF S
  <2>. QED
    BY <1>4, <1>5, UpFromOne
<1>7. ASSUME NEW i \in 1 .. n
      PROVE  Left(w)[i] > 0
  <2>1. n + 1 - i \in 1 .. n /\ n + 1 - (n + 1 - i) = i
    OBVIOUS
  <2>. QED
    BY <1>6, <2>1
<1>. QED
  BY <1>2, <1>7

(* A rule that draws from what reaches it takes its weight.                 *)
LEMMA TakesItsWeight ==
  ASSUME NEW x \in Nat \ {0}, NEW y \in Nat, NEW rule, rule.draw = x, rule.below = y
  PROVE  Taken(rule, x) = y
<1>1. (x * y) \div x = y
  OBVIOUS
<1>. QED
  BY <1>1 DEF Taken

(* For any percentages.                                                     *)
LEMMA SharesOfPercentages ==
  ASSUME NEW w, NEW n \in Nat \ {0}, DOMAIN w = 1 .. n, Len(w) = n,
         \A i \in 1 .. n : w[i][2] \in Nat, Percent(w)
  PROVE  \A i \in 1 .. n : Taken(Rules(w)[i], Reach(Rules(w))[i]) = w[i][2]
<1>. DEFINE R == Rules(w)
            Body(f) == [i \in DOMAIN R |->
                         IF i = 1 THEN Total ELSE f[i - 1] - Taken(R[i - 1], f[i - 1])]
<1>1. DOMAIN R = 1 .. n /\ \A i \in 1 .. n : R[i].draw = Left(w)[i] /\ R[i].below = w[i][2]
  BY DEF Rules
<1>2. \A i \in 1 .. n : Left(w)[i] \in Nat \ {0}
  BY EnoughIsLeft
<1>3. ASSUME NEW i \in 1 .. n
      PROVE  Taken(R[i], Left(w)[i]) = w[i][2]
  <2>. HIDE DEF R
  <2>1. Left(w)[i] \in Nat \ {0} /\ w[i][2] \in Nat
    BY <1>2
  <2>2. R[i].draw = Left(w)[i] /\ R[i].below = w[i][2]
    BY <1>1
  <2>. QED
    BY ONLY <2>1, <2>2, TakesItsWeight
<1>4. Left(w) = Body(Left(w))
  <2>. HIDE DEF R
  <2>1. ASSUME NEW i \in 1 .. n
        PROVE  Left(w)[i] =
                 IF i = 1 THEN Total ELSE Left(w)[i - 1] - Taken(R[i - 1], Left(w)[i - 1])
    <3>1. i # 1 => i - 1 \in 1 .. n
      OBVIOUS
    <3>. QED
      BY <1>3, <3>1, LeftIs DEF Remains
  <2>2. Left(w) = [i \in 1 .. n |-> Left(w)[i]]
    BY LeftIs
  <2>. QED
    BY <1>1, <2>1, <2>2
<1>5. Reach(R) = Body(Reach(R))
  <2>1. Reach(R) = CHOOSE h : h = Body(h)
    BY DEF Reach
  <2>. HIDE DEF Body
  <2>. QED
    BY <1>4, <2>1
<1>6. ASSUME NEW i \in 1 .. n
      PROVE  Reach(R)[i] =
               IF i = 1 THEN Total ELSE Reach(R)[i - 1] - Taken(R[i - 1], Reach(R)[i - 1])
  <2>. HIDE DEF R
  <2>1. Body(Reach(R))[i] =
          IF i = 1 THEN Total ELSE Reach(R)[i - 1] - Taken(R[i - 1], Reach(R)[i - 1])
    BY <1>1
  <2>. HIDE DEF Body
  <2>. QED
    BY <1>5, <2>1
<1>. HIDE DEF R, Body
<1>. DEFINE S == {i \in 1 .. n : Reach(R)[i] = Left(w)[i]}
<1>7. n > 0 => 1 \in S
  BY <1>6, LeftIs DEF Remains
<1>8. ASSUME NEW i \in S, i \in 1 .. n - 1
      PROVE  i + 1 \in S
  <2>1. i + 1 \in 1 .. n /\ i + 1 # 1 /\ (i + 1) - 1 = i
    BY <1>8
  <2>2. Left(w)[i + 1] = Left(w)[i] - w[i][2]
    BY <2>1, LeftIs DEF Remains
  <2>3. Reach(R)[i + 1] = Reach(R)[i] - Taken(R[i], Reach(R)[i])
    BY <1>6, <2>1
  <2>. QED
    BY <1>3, <2>1, <2>2, <2>3
<1>9. 1 .. n \subseteq S
  <2>. HIDE DEF S
  <2>. QED
    BY <1>7, <1>8, UpFromOne
<1>. QED
  BY <1>3, <1>9 DEF R

(* What setAbTestingEnabled gives the backends are percentages, as long as  *)
(* each of them can have one.                                               *)
LEMMA EqualWeights ==
  ASSUME NEW n \in 1 .. Total
  PROVE  LET q == Total \div n
         IN  q \in Nat /\ q > 0 /\ Total - (n - 1) * q \in Nat /\ Total - (n - 1) * q > 0
<1>. DEFINE q == Total \div n
<1>1. q \in Nat /\ n * q <= Total /\ Total < n * q + n
  BY DEF Total
<1>2. q > 0
  BY <1>1 DEF Total
<1>3. (n - 1) * q = n * q - q
  BY <1>1
<1>. QED
  BY <1>1, <1>2, <1>3 DEF Total

LEMMA EnabledIsPercent ==
  ASSUME NEW T, NEW backends \in Seq(T), Len(backends) \in 1 .. Total
  PROVE  Percent(Enabled(backends))
<1>. DEFINE n == Len(backends)
            q == Total \div n
            r == Total - (n - 1) * q
            w == Enabled(backends)
<1>1. q \in Nat /\ q > 0 /\ r \in Nat /\ r > 0 /\ n \in Nat /\ n >= 1
  BY EqualWeights
<1>2. w = [i \in 1 .. n |-> <<backends[i], IF i = 1 THEN r ELSE q>>]
  BY DEF Enabled
<1>. HIDE DEF w
<1>3. DOMAIN w = 1 .. n /\ \A i \in 1 .. n : w[i][2] = IF i = 1 THEN r ELSE q
  BY <1>2
<1>4. Len(w) = n
  BY <1>1, <1>2, LenProperties
<1>. HIDE DEF n, q, r
<1>5. Left(w) \in [1 .. n -> Int] /\ Remains(Left(w), w, n)
  <2>1. n \in Nat \ {0} /\ \A i \in 1 .. n : w[i][2] \in Nat
    BY <1>1, <1>3
  <2>. QED
    BY <1>3, <2>1, LeftIs
<1>. DEFINE S == {i \in 1 .. n : Left(w)[i] = IF i = 1 THEN Total ELSE (n + 1 - i) * q}
<1>6. 1 \in S
  BY <1>1, <1>5 DEF Remains
<1>7. ASSUME NEW i \in S, i \in 1 .. n - 1
      PROVE  i + 1 \in S
  <2>1. i + 1 \in 1 .. n /\ i + 1 # 1 /\ (i + 1) - 1 = i /\ i \in 1 .. n
    BY <1>1, <1>7
  <2>2. Left(w)[i + 1] = Left(w)[i] - w[i][2]
    BY <1>5, <2>1 DEF Remains
  <2>3. CASE i = 1
    <3>1. Left(w)[i + 1] = Total - r
      BY <1>3, <2>1, <2>2, <2>3
    <3>2. n + 1 - (i + 1) = n - 1
      BY <1>1, <2>3
    <3>3. Total - (Total - (n - 1) * q) = (n - 1) * q
      BY <1>1 DEF Total
    <3>. QED
      BY <2>1, <3>1, <3>2, <3>3 DEF r
  <2>4. CASE i # 1
    <3>1. Left(w)[i + 1] = (n + 1 - i) * q - q
      BY <1>3, <2>1, <2>2, <2>4
    <3>2. (n + 1 - i) * q - q = (n + 1 - (i + 1)) * q
      BY <1>1
    <3>. QED
      BY <2>1, <3>1, <3>2
  <2>. QED
    BY <2>3, <2>4
<1>8. 1 .. n \subseteq S
  <2>. HIDE DEF S
  <2>. QED
    BY <1>1, <1>6, <1>7, UpFromOne
<1>9. Left(w)[n] = w[n][2]
  <2>1. n \in S
    BY <1>1, <1>8
  <2>2. CASE n = 1
    <3>1. Total - (n - 1) * q = Total
      BY <1>1, <2>2 DEF Total
    <3>. QED
      BY <1>3, <2>1, <2>2, <3>1 DEF r
  <2>3. CASE n # 1
    <3>1. (n + 1 - n) * q = q
      BY <1>1
    <3>. QED
      BY <1>1, <1>3, <2>1, <2>3, <3>1
  <2>. QED
    BY <2>2, <2>3
<1>10. w # <<>> /\ \A i \in 1 .. n : w[i][2] > 0
  BY <1>1, <1>3
<1>11. Percent(w)
  BY <1>3, <1>4, <1>9, <1>10 DEF Percent
<1>. QED
  BY <1>11 DEF w

(* setAbTestingEnabled and generateABTestingRules together: when A/B        *)
(* testing is switched on for up to 100 backends, each rule takes, of the   *)
(* requests that reach it, what makes its backend's weight.                 *)
THEOREM EnabledShares ==
  ASSUME NEW T, NEW backends \in Seq(T), Len(backends) \in 1 .. Total
  PROVE  LET w == Enabled(backends)
         IN  \A i \in 1 .. Len(backends) :
               Taken(Rules(w)[i], Reach(Rules(w))[i]) = w[i][2]
<1>. DEFINE n == Len(backends)
            w == Enabled(backends)
            q == Total \div n
            r == Total - (n - 1) * q
<1>1. n \in Nat \ {0} /\ q \in Nat /\ r \in Nat
  BY EqualWeights
<1>2. w = [i \in 1 .. n |-> <<backends[i], IF i = 1 THEN r ELSE q>>]
  BY DEF Enabled
<1>3. Percent(w)
  BY EnabledIsPercent
<1>. HIDE DEF w, n, q, r
<1>4. DOMAIN w = 1 .. n /\ Len(w) = n /\ \A i \in 1 .. n : w[i][2] \in Nat
  BY <1>1, <1>2
<1>. QED
  BY <1>1, <1>3, <1>4, SharesOfPercentages DEF w, n

LEMMA ServedShares == LInv => SharesRight
<1>. SUFFICES ASSUME LInv, exact, Deployed, Percent(last.kept.weights)
              PROVE  LET rules == etcd[<<last.kept.gateway, Frontend>>]
                     IN \A i \in DOMAIN last.kept.weights :
                          Taken(rules[i], Reach(rules)[i]) = last.kept.weights[i][2]
  BY DEF SharesRight
<1>. DEFINE w == last.kept.weights
            n == Len(w)
<1>1. last.kept \in Descriptions
  BY DEF LInv, Types, Deployed
<1>2. w \in Seq({w[i] : i \in DOMAIN w}) /\ \A i \in DOMAIN w : w[i][2] \in Nat
  BY <1>1, LoadBalancerAssumption
<1>3. w # <<>>
  BY DEF Percent
<1>. HIDE DEF w
<1>4. n \in Nat \ {0} /\ DOMAIN w = 1 .. n
  BY <1>2, <1>3, EmptySeq, LenProperties
<1>5. etcd[<<last.kept.gateway, Frontend>>] = Rules(w)
  <2>1. Config(last.kept)[1] = <<Frontend, Rules(w)>> /\ 1 \in DOMAIN Config(last.kept)
    BY <1>1, FrontendFirst DEF w
  <2>2. Holds(last.kept)
    BY DEF LInv, Served
  <2>. QED
    BY <2>1, <2>2 DEF Holds
<1>6. Percent(w)
  BY DEF w
<1>. HIDE DEF n
<1>7. \A i \in 1 .. n : Taken(Rules(w)[i], Reach(Rules(w))[i]) = w[i][2]
  BY <1>2, <1>4, <1>6, SharesOfPercentages DEF n
<1>. QED
  BY <1>4, <1>5, <1>7 DEF w

(* Each backend of a deployed service whose weights are percentages gets    *)
(* its weight of the requests, whatever the weights and however many: the   *)
(* rules that generateABTestingRules has written make up for each other.    *)
THEOREM SharesAreRight == Spec => []SharesRight
<1>. QED
  BY ServedShares, Invariant, PTL
=============================================================================
