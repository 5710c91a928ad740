--------------------------- MODULE PlanCacheProofs --------------------------
(***************************************************************************)
(* The promises of the plan cache, proved for any number of goroutines and *)
(* statements, any hash and any size.                                      *)
(*                                                                         *)
(* What put drops is the least recently used because the list is the order *)
(* of use (RecencyInv), which speaks of the map as well because the two    *)
(* hold the same keys (MapMatchesList); a hit hands out the right plan     *)
(* because only right plans are on their way into the cache (PlanInv).     *)
(***************************************************************************)
EXTENDS PlanCache, SequenceTheorems, FiniteSetTheorems, TLAPS

Injective(s) == \A i, j \in 1..Len(s) : s[i] = s[j] => i = j
Before(s, i) == {s[j] : j \in 1..(i - 1)}

(* The list of a shard is its order of use: the keys before a key are those used
   since its last use.  A key that was dropped has seen every key of a full list
   used since. *)
RecencyInv ==
  /\ \A s \in Shards : Len(order[s]) <= Max
  /\ \A s \in Shards : \A i \in 1..Len(order[s]) :
       order[s][i] \in used /\ since[order[s][i]] = Before(order[s], i)
  /\ \A q \in used : q \notin Keys(order[ShardOf[q]]) =>
       Len(order[ShardOf[q]]) = Max /\ Keys(order[ShardOf[q]]) \subseteq since[q]
  /\ \A q \in Queries : IsFiniteSet(since[q])

(* What a goroutine is about to store is the plan of its own statement. *)
PlanInv ==
  /\ OwnPlan
  /\ \A g \in Goroutines :
       /\ pc[g] # "idle" => query[g] \in Queries
       /\ pc[g] = "store" => query[g] \notin BadQueries /\ plan[g] = Compile(query[g])

IInv == TypeOK /\ MapMatchesList /\ PlanInv /\ RecencyInv

-----------------------------------------------------------------------------
LEMMA MaxType == Max \in Nat \ {0}
  BY ShardAssumption, SizeAssumption DEF Max

(* t is the list after k was used: k is first, and before every other key of t
   stand those that stood before it in s, and k. *)
FrontedBy(k, s, t) ==
  \A i \in 1..Len(t) :
    \/ t[i] = k /\ Before(t, i) = {}
    \/ \E j \in 1..Len(s) :
         s[j] = t[i] /\ t[i] # k /\ Before(t, i) = Before(s, j) \cup {k}

(* MoveToFront keeps the keys, each once. *)
LEMMA MoveFact ==
  ASSUME NEW S, NEW s \in Seq(S), Injective(s), NEW k \in Keys(s)
  PROVE  LET t == MoveToFront(k, s) IN
           /\ t \in Seq(S) /\ Len(t) = Len(s)
           /\ Keys(t) = Keys(s)
           /\ Injective(t)
           /\ FrontedBy(k, s, t)
<1> DEFINE t == MoveToFront(k, s)
<1> DEFINE at == CHOOSE i \in DOMAIN s : s[i] = k
<1>1. Len(s) \in Nat /\ DOMAIN s = 1..Len(s) /\ \A i \in 1..Len(s) : s[i] \in S
  BY LenProperties, ElementOfSeq
<1>2. at \in 1..Len(s) /\ s[at] = k
  BY <1>1 DEF Keys
<1>3. t = [i \in 1..Len(s) |-> IF i = 1 THEN k ELSE IF i <= at THEN s[i - 1] ELSE s[i]]
  BY DEF MoveToFront
<1> HIDE DEF at
<1>4. \A i \in 1..Len(s) :
        t[i] = IF i = 1 THEN k ELSE IF i <= at THEN s[i - 1] ELSE s[i]
  BY <1>3
<1>5. t \in [1..Len(s) -> S]
  BY <1>1, <1>2, <1>3
<1>6. t \in Seq(S) /\ Len(t) = Len(s) /\ DOMAIN t = 1..Len(s)
  <2>1. t \in Seq(S)
    BY <1>1, <1>5, SeqDef
  <2>2. DOMAIN t = 1..Len(s)
    BY <1>5
  <2> QED
    BY <1>1, <2>1, <2>2, LenProperties
<1> HIDE DEF t
(* Where each key of s has gone. *)
<1>7. \A j \in 1..Len(s) : \/ j < at /\ t[j + 1] = s[j] /\ j + 1 \in 1..Len(s)
                           \/ j = at /\ t[1] = s[j]
                           \/ j > at /\ t[j] = s[j]
  BY <1>1, <1>2, <1>4
<1>8. Keys(t) = Keys(s)
  <2>1. \A i \in 1..Len(s) : t[i] \in Keys(s)
    BY <1>1, <1>2, <1>4 DEF Keys
  <2>2. \A j \in 1..Len(s) : \E i \in 1..Len(s) : t[i] = s[j]
    BY <1>1, <1>2, <1>7
  <2> QED
    BY <1>1, <1>6, <2>1, <2>2 DEF Keys
<1>9. Injective(t)
  BY <1>1, <1>2, <1>4, <1>6, SMTT(30) DEF Injective
<1>10. ASSUME NEW i \in 1..Len(t)
       PROVE  \/ t[i] = k /\ Before(t, i) = {}
              \/ \E j \in 1..Len(s) :
                   s[j] = t[i] /\ t[i] # k /\ Before(t, i) = Before(s, j) \cup {k}
  <2>1. CASE i = 1
    BY <1>1, <1>4, <1>6, <2>1 DEF Before
  <2>2. CASE i # 1 /\ i <= at
    <3>1. i - 1 \in 1..Len(s) /\ s[i - 1] = t[i] /\ t[i] # k
      BY <1>1, <1>2, <1>4, <1>6, <2>2 DEF Injective
    <3>2. \A x : x \in Before(t, i) => x \in Before(s, i - 1) \cup {k}
      <4>1. ASSUME NEW j \in 1..(i - 1)
            PROVE  t[j] \in Before(s, i - 1) \cup {k}
        <5>1. CASE j = 1
          BY <1>4, <1>6, <4>1, <5>1
        <5>2. CASE j # 1
          <6>1. j - 1 \in 1..(i - 2) /\ t[j] = s[j - 1]
            BY <1>1, <1>2, <1>4, <1>6, <2>2, <5>2
          <6> QED
            BY <6>1 DEF Before
        <5> QED
          BY <5>1, <5>2
      <4> QED
        BY <4>1 DEF Before
    <3>3. \A x : x \in Before(s, i - 1) \cup {k} => x \in Before(t, i)
      <4>1. k \in Before(t, i)
        <5>1. 1 \in 1..(i - 1) /\ t[1] = k
          BY <1>1, <1>4, <1>6, <2>2
        <5> QED
          BY <5>1 DEF Before
      <4>2. ASSUME NEW j \in 1..(i - 2)
            PROVE  s[j] \in Before(t, i)
        <5>1. j + 1 \in 1..(i - 1) /\ t[j + 1] = s[j]
          BY <1>1, <1>2, <1>6, <1>7, <2>2
        <5> QED
          BY <5>1 DEF Before
      <4> QED
        BY <1>1, <1>6, <4>1, <4>2 DEF Before
    <3> QED
      BY <3>1, <3>2, <3>3
  <2>3. CASE i > at
    <3>1. s[i] = t[i] /\ t[i] # k /\ i \in 1..Len(s)
      BY <1>1, <1>2, <1>4, <1>6, <2>3 DEF Injective
    <3>2. \A j \in 1..(i - 1) : t[j] \in Before(s, i)
      <4>1. \A j \in 1..(i - 1) : \E m \in 1..(i - 1) : t[j] = s[m]
        BY <1>1, <1>2, <1>4, <1>6, <2>3
      <4> QED
        BY <4>1 DEF Before
    <3>3. \A j \in 1..(i - 1) : s[j] \in Before(t, i)
      <4>1. \A j \in 1..(i - 1) : \E m \in 1..(i - 1) : s[j] = t[m]
        BY <1>1, <1>2, <1>6, <1>7, <2>3
      <4> QED
        BY <4>1 DEF Before
    <3>4. k \in Before(s, i)
      BY <1>1, <1>2, <1>6, <2>3 DEF Before
    <3>5. Before(t, i) = Before(s, i) \cup {k}
      BY <3>2, <3>3, <3>4 DEF Before
    <3> QED
      BY <3>1, <3>5
  <2> QED
    BY <1>1, <1>2, <1>6, <2>1, <2>2, <2>3
<1> QED
  BY <1>6, <1>8, <1>9, <1>10 DEF FrontedBy, t

(* put puts a new key before the others and drops the last one of a full list. *)
LEMMA InsertFact ==
  ASSUME NEW S, NEW s \in Seq(S), Injective(s), Len(s) <= Max,
         NEW k \in S, k \notin Keys(s)
  PROVE  LET pushed == PushFront(k, s)
             t == Evicted(pushed)
             dropped == {pushed[i] : i \in (Len(t) + 1)..Len(pushed)}
         IN
           /\ t \in Seq(S)
           /\ Len(t) = IF Len(s) = Max THEN Max ELSE Len(s) + 1
           /\ Keys(t) = (Keys(s) \cup {k}) \ dropped
           /\ k \in Keys(t)
           /\ \A x \in dropped : Len(s) = Max /\ x = s[Max] /\ Keys(t) = Before(s, Max) \cup {k}
           /\ Injective(t)
           /\ FrontedBy(k, s, t)
<1> DEFINE pushed == PushFront(k, s)
           t == Evicted(pushed)
           dropped == {pushed[i] : i \in (Len(t) + 1)..Len(pushed)}
           n == IF Len(s) = Max THEN Max ELSE Len(s) + 1
<1>1. Len(s) \in Nat /\ DOMAIN s = 1..Len(s) /\ \A i \in 1..Len(s) : s[i] \in S
  BY LenProperties, ElementOfSeq
<1>2. /\ n \in Nat \ {0} /\ n <= Max /\ n <= Len(s) + 1 /\ Len(s) <= n
      /\ n = IF Len(s) + 1 > Max THEN Max ELSE Len(s) + 1
  <2>1. CASE Len(s) = Max
    BY <1>1, <2>1, MaxType
  <2>2. CASE Len(s) # Max
    <3>1. Len(s) \in Nat /\ n = Len(s) + 1
      BY <1>1, <2>2
    <3> HIDE DEF n
    <3>2. Len(s) < Max
      BY <2>2, <3>1, MaxType
    <3> QED
      BY <3>1, <3>2, MaxType
  <2> QED
    BY <2>1, <2>2
<1> HIDE DEF n
<1>3. /\ pushed \in Seq(S)
      /\ Len(pushed) = Len(s) + 1
      /\ \A i \in 1..(Len(s) + 1) : pushed[i] = IF i = 1 THEN k ELSE s[i - 1]
  <2>1. pushed = [i \in 1..(Len(s) + 1) |-> IF i = 1 THEN k ELSE s[i - 1]]
    BY DEF PushFront
  <2>2. pushed \in [1..(Len(s) + 1) -> S]
    BY <1>1, <2>1
  <2>3. pushed \in Seq(S)
    BY <1>1, <2>2, SeqDef
  <2> QED
    BY <1>1, <2>1, <2>2, <2>3, LenProperties
<1> HIDE DEF pushed
<1>4. t = SubSeq(pushed, 1, n)
  <2>1. (IF Len(pushed) > Max THEN Max ELSE Len(pushed)) = n
    BY <1>2, <1>3
  <2> QED
    BY <2>1 DEF Evicted
<1> HIDE DEF t
<1>5. /\ t \in Seq(S)
      /\ Len(t) = n
      /\ \A i \in 1..n : t[i] = IF i = 1 THEN k ELSE s[i - 1]
  <2>1. \A i \in 1..n : pushed[i] \in S
    BY <1>1, <1>2, <1>3
  <2>2. t \in Seq(S) /\ Len(t) = n /\ \A i \in 1..n : t[i] = pushed[i]
    BY <1>2, <1>4, <2>1, SubSeqProperties
  <2> QED
    BY <1>1, <1>2, <1>3, <2>2
<1>6. DOMAIN t = 1..n
  BY <1>5, LenProperties
<1>7. \A x : x \in Keys(t) <=> x = k \/ \E j \in 1..(n - 1) : x = s[j]
  <2>1. \A i \in 1..n : t[i] = k \/ \E j \in 1..(n - 1) : t[i] = s[j]
    BY <1>1, <1>2, <1>5
  <2>2. t[1] = k /\ 1 \in 1..n
    BY <1>2, <1>5
  <2>3. \A j \in 1..(n - 1) : t[j + 1] = s[j] /\ j + 1 \in 1..n
    BY <1>1, <1>2, <1>5
  <2>4. Keys(t) = {t[i] : i \in 1..n}
    BY <1>6 DEF Keys
  <2>5. ASSUME NEW x \in Keys(t)
        PROVE  x = k \/ \E j \in 1..(n - 1) : x = s[j]
    BY <2>1, <2>4
  <2>6. k \in Keys(t) /\ \A j \in 1..(n - 1) : s[j] \in Keys(t)
    BY <2>2, <2>3, <2>4
  <2> QED
    BY <2>5, <2>6
<1>8. dropped = IF Len(s) = Max THEN {s[Max]} ELSE {}
  <2>1. CASE Len(s) = Max
    <3>1. (Len(t) + 1)..Len(pushed) = {Max + 1}
      BY <1>1, <1>3, <1>5, <2>1, MaxType DEF n
    <3>2. pushed[Max + 1] = s[Max]
      BY <1>3, <2>1, MaxType
    <3> QED
      BY <2>1, <3>1, <3>2
  <2>2. CASE Len(s) # Max
    <3>1. (Len(t) + 1)..Len(pushed) = {}
      BY <1>1, <1>3, <1>5, <2>2 DEF n
    <3> QED
      BY <2>2, <3>1
  <2> QED
    BY <2>1, <2>2
<1> HIDE DEF dropped
<1>9. Keys(t) = (Keys(s) \cup {k}) \ dropped
  <2>1. CASE Len(s) = Max
    <3>1. \A x : x \in Keys(s) <=> x = s[Max] \/ \E j \in 1..(Max - 1) : x = s[j]
      BY <1>1, <2>1, MaxType DEF Keys
    <3>2. s[Max] # k /\ \A j \in 1..(Max - 1) : s[j] # s[Max]
      BY <1>1, <2>1, MaxType DEF Injective, Keys
    <3> QED
      BY <1>7, <1>8, <2>1, <3>1, <3>2 DEF n
  <2>2. CASE Len(s) # Max
    <3>1. n - 1 = Len(s)
      BY <1>1, <2>2 DEF n
    <3> QED
      BY <1>1, <1>7, <1>8, <2>2, <3>1 DEF Keys
  <2> QED
    BY <2>1, <2>2
<1>10. \A x \in dropped : Len(s) = Max /\ x = s[Max] /\ Keys(t) = Before(s, Max) \cup {k}
  BY <1>7, <1>8 DEF Before, n
<1>11. Injective(t)
  <2>1. \A i \in 1..n : i # 1 => i - 1 \in 1..Len(s) /\ t[i] = s[i - 1]
    BY <1>1, <1>2, <1>5
  <2>2. t[1] = k /\ \A j \in 1..Len(s) : s[j] # k
    BY <1>1, <1>2, <1>5 DEF Keys
  <2>3. ASSUME NEW i \in 1..n, NEW j \in 1..n, t[i] = t[j]
        PROVE  i = j
    <3>1. i = 1 <=> j = 1
      BY <2>1, <2>2, <2>3
    <3>2. CASE i # 1
      <4>1. i - 1 = j - 1
        BY <2>1, <2>3, <3>1, <3>2 DEF Injective
      <4> QED
        BY <1>2, <4>1
    <3> QED
      BY <3>1, <3>2
  <2> QED
    BY <1>5, <2>3 DEF Injective
<1>12. ASSUME NEW i \in 1..Len(t)
       PROVE  \/ t[i] = k /\ Before(t, i) = {}
              \/ \E j \in 1..Len(s) :
                   s[j] = t[i] /\ t[i] # k /\ Before(t, i) = Before(s, j) \cup {k}
  <2>1. CASE i = 1
    BY <1>2, <1>5, <2>1 DEF Before
  <2>2. CASE i # 1
    <3>0. i \in Int /\ 1 < i /\ i <= n /\ n \in Int /\ n <= Len(s) + 1 /\ Len(s) \in Int
      BY <1>1, <1>2, <1>5, <2>2
    <3>1. i - 1 \in 1..Len(s) /\ s[i - 1] = t[i] /\ t[i] # k
      <4>1. i - 1 \in 1..Len(s) /\ i \in 1..n
        BY <3>0
      <4>2. s[i - 1] = t[i]
        BY <1>5, <3>0, <4>1
      <4> QED
        BY <1>1, <4>1, <4>2 DEF Keys
    <3>2. \A j \in 1..(i - 1) : t[j] = k \/ \E m \in 1..(i - 2) : t[j] = s[m]
      <4> SUFFICES ASSUME NEW j \in 1..(i - 1), j # 1
                   PROVE  \E m \in 1..(i - 2) : t[j] = s[m]
        BY <1>2, <1>5
      <4>1. j - 1 \in 1..(i - 2) /\ j \in 1..n
        BY <3>0
      <4> QED
        BY <1>5, <4>1
    <3>3. \A m \in 1..(i - 2) : m + 1 \in 1..(i - 1) /\ t[m + 1] = s[m]
      BY <1>1, <1>2, <1>5, <2>2
    <3>4. 1 \in 1..(i - 1) /\ t[1] = k
      BY <1>2, <1>5, <2>2
    <3>5. Before(t, i) = Before(s, i - 1) \cup {k}
      <4>1. (i - 1) - 1 = i - 2
        BY <3>0
      <4>2. Before(t, i) = {t[j] : j \in 1..(i - 1)} /\ Before(s, i - 1) = {s[m] : m \in 1..(i - 2)}
        BY <4>1 DEF Before
      <4>3. ASSUME NEW x \in Before(t, i)
            PROVE  x \in Before(s, i - 1) \cup {k}
        <5>1. PICK j \in 1..(i - 1) : x = t[j]
          BY <4>2
        <5> QED
          BY <3>2, <4>2, <5>1
      <4>4. ASSUME NEW x \in Before(s, i - 1)
            PROVE  x \in Before(t, i)
        <5>1. PICK m \in 1..(i - 2) : x = s[m]
          BY <4>2
        <5> QED
          BY <3>3, <4>2, <5>1
      <4>5. k \in Before(t, i)
        BY <3>4, <4>2
      <4> QED
        BY <4>3, <4>4, <4>5
    <3> QED
      BY <3>1, <3>5
  <2> QED
    BY <2>1, <2>2
<1> QED
  BY <1>5, <1>7, <1>9, <1>10, <1>11, <1>12 DEF FrontedBy, t, dropped, pushed, n

-----------------------------------------------------------------------------
(* The list of each shard, with the keys the map must have. *)
LEMMA ListType ==
  ASSUME TypeOK, MapMatchesList, NEW s \in Shards
  PROVE  /\ order[s] \in Seq(Queries)
         /\ Len(order[s]) \in Nat
         /\ DOMAIN order[s] = 1..Len(order[s])
         /\ \A i \in 1..Len(order[s]) : order[s][i] \in Queries /\ ShardOf[order[s][i]] = s
         /\ Keys(order[s]) = {order[s][i] : i \in 1..Len(order[s])}
         /\ Injective(order[s])
<1>1. order[s] \in Seq(Queries)
  BY DEF TypeOK
<1>2. Len(order[s]) \in Nat /\ DOMAIN order[s] = 1..Len(order[s])
  BY <1>1, LenProperties
<1>3. \A i \in 1..Len(order[s]) : order[s][i] \in Queries
  BY <1>1, ElementOfSeq
<1>4. Keys(order[s]) = {order[s][i] : i \in 1..Len(order[s])}
  BY <1>2 DEF Keys
<1>5. \A i \in 1..Len(order[s]) : ShardOf[order[s][i]] = s
  BY <1>4 DEF TypeOK
<1> QED
  BY <1>1, <1>2, <1>3, <1>4, <1>5 DEF MapMatchesList, Injective

(* A step that uses k, puts it before the others in the list of its shard and
   drops only keys that a full list came before keeps the order of use. *)
LEMMA RecencyStep ==
  ASSUME TypeOK, MapMatchesList, RecencyInv,
         NEW k \in Queries, NEW s \in Shards, s = ShardOf[k],
         NEW t \in Seq(Queries), FrontedBy(k, order[s], t),
         order' = [order EXCEPT ![s] = t], Use(k),
         k \in Keys(t), Keys(t) \subseteq Keys(order[s]) \cup {k},
         Len(order[s]) <= Len(t), Len(t) <= Max,
         \A x \in Keys(order[s]) \ Keys(t) :
           Len(t) = Max /\ Keys(t) \subseteq since[x] \cup {k}
  PROVE  RecencyInv'
<1>1. /\ order[s] \in Seq(Queries) /\ Len(order[s]) \in Nat
      /\ \A i \in 1..Len(order[s]) : order[s][i] \in Queries /\ ShardOf[order[s][i]] = s
      /\ Keys(order[s]) = {order[s][i] : i \in 1..Len(order[s])}
  BY ListType
<1>2. /\ Len(t) \in Nat
      /\ \A i \in 1..Len(t) : t[i] \in Queries
  BY LenProperties, ElementOfSeq
<1>3. order'[s] = t /\ \A r \in Shards \ {s} : order'[r] = order[r]
  BY DEF TypeOK
<1>4. /\ used' = used \cup {k}
      /\ since'[k] = {}
      /\ \A q \in Queries : q # k /\ q \in used /\ ShardOf[q] = s => since'[q] = since[q] \cup {k}
      /\ \A q \in Queries : ShardOf[q] # s => since'[q] = since[q]
      /\ \A q \in Queries : \/ since'[q] = {}
                             \/ since'[q] = since[q]
                             \/ since'[q] = since[q] \cup {k}
  BY DEF Use
<1>5. \A r \in Shards : Len(order'[r]) <= Max
  BY <1>3 DEF RecencyInv
<1>6. ASSUME NEW r \in Shards, NEW i \in 1..Len(order'[r])
      PROVE  order'[r][i] \in used' /\ since'[order'[r][i]] = Before(order'[r], i)
  <2>1. CASE r = s
    <3>1. CASE t[i] = k /\ Before(t, i) = {}
      <4>1. t[i] \in used' /\ since'[t[i]] = Before(t, i)
        BY <1>4, <3>1
      <4> QED
        BY <1>3, <2>1, <4>1
    <3>2. ASSUME NEW j \in 1..Len(order[s]), order[s][j] = t[i], t[i] # k,
                 Before(t, i) = Before(order[s], j) \cup {k}
          PROVE  t[i] \in used' /\ since'[t[i]] = Before(t, i)
      <4>1. t[i] \in Queries /\ t[i] \in used /\ ShardOf[t[i]] = s
        BY <1>1, <3>2 DEF RecencyInv
      <4>2. since[t[i]] = Before(order[s], j)
        BY <3>2 DEF RecencyInv
      <4> QED
        BY <1>4, <3>2, <4>1, <4>2
    <3> QED
      BY <1>3, <2>1, <3>1, <3>2 DEF FrontedBy
  <2>2. CASE r # s
    <3>1. order'[r] = order[r] /\ ShardOf[order[r][i]] = r /\ order[r][i] \in Queries
      BY <1>3, <2>2, ListType
    <3> QED
      BY <1>4, <2>2, <3>1 DEF RecencyInv
  <2> QED
    BY <2>1, <2>2
<1>7. ASSUME NEW q \in used', q \notin Keys(order'[ShardOf[q]])
      PROVE  /\ Len(order'[ShardOf[q]]) = Max
             /\ Keys(order'[ShardOf[q]]) \subseteq since'[q]
  <2>1. q \in Queries /\ ShardOf[q] \in Shards
    BY <1>4, ShardAssumption DEF TypeOK
  <2>2. CASE ShardOf[q] = s
    <3>1. q # k /\ q \in used /\ since'[q] = since[q] \cup {k}
      BY <1>3, <1>4, <1>7, <2>1, <2>2
    <3>2. CASE q \in Keys(order[s])
      BY <1>3, <1>7, <2>2, <3>1, <3>2
    <3>3. CASE q \notin Keys(order[s])
      <4>1. Len(order[s]) = Max /\ Keys(order[s]) \subseteq since[q]
        BY <2>2, <3>1, <3>3 DEF RecencyInv
      <4>2. Len(t) = Max
        BY <1>2, <4>1, MaxType
      <4> QED
        BY <1>3, <2>2, <3>1, <4>1, <4>2
    <3> QED
      BY <3>2, <3>3
  <2>3. CASE ShardOf[q] # s
    <3>1. q \in used /\ order'[ShardOf[q]] = order[ShardOf[q]] /\ since'[q] = since[q]
      BY <1>3, <1>4, <2>1, <2>3
    <3> QED
      BY <1>7, <3>1 DEF RecencyInv
  <2> QED
    BY <2>2, <2>3
<1>8. \A q \in Queries : IsFiniteSet(since'[q])
  <2> TAKE q \in Queries
  <2>1. IsFiniteSet(since[q]) /\ IsFiniteSet(since[q] \cup {k}) /\ IsFiniteSet({})
    BY FS_AddElement, FS_EmptySet DEF RecencyInv
  <2>2. since'[q] = {} \/ since'[q] = since[q] \/ since'[q] = since[q] \cup {k}
    BY <1>4
  <2> QED
    BY <2>1, <2>2
<1> QED
  BY <1>5, <1>6, <1>7, <1>8 DEF RecencyInv

(* Use keeps the history well formed. *)
LEMMA UseType ==
  ASSUME TypeOK, NEW k \in Queries, Use(k)
  PROVE  used' \subseteq Queries /\ since' \in [Queries -> SUBSET Queries]
  BY DEF TypeOK, Use

(* get of a key that is there, and put of a key that another goroutine stored:
   the list is reordered and the map keeps its keys. *)
LEMMA ReorderStep ==
  ASSUME TypeOK, MapMatchesList, RecencyInv,
         NEW k \in Queries, NEW s \in Shards, s = ShardOf[k],
         k \in DOMAIN items[s],
         order' = [order EXCEPT ![s] = MoveToFront(k, @)], Use(k)
  PROVE  /\ RecencyInv'
         /\ order' \in [Shards -> Seq(Queries)]
         /\ \A r \in Shards : Keys(order'[r]) = Keys(order[r]) /\ Injective(order'[r])
<1> DEFINE t == MoveToFront(k, order[s])
<1>1. /\ order[s] \in Seq(Queries) /\ Len(order[s]) \in Nat /\ Injective(order[s])
      /\ Len(order[s]) <= Max
  BY ListType DEF RecencyInv
<1>2. k \in Keys(order[s])
  BY DEF MapMatchesList
<1>3. /\ t \in Seq(Queries) /\ Len(t) = Len(order[s])
      /\ Keys(t) = Keys(order[s]) /\ Injective(t) /\ FrontedBy(k, order[s], t)
  BY <1>1, <1>2, MoveFact
<1>4. order' = [order EXCEPT ![s] = t]
  OBVIOUS
<1> HIDE DEF t
<1>5. RecencyInv'
  <2>1. Len(order[s]) <= Len(t) /\ Len(t) <= Max
    BY <1>1, <1>3
  <2>2. Keys(order[s]) \ Keys(t) = {}
    BY <1>3
  <2> QED
    BY <1>2, <1>3, <1>4, <2>1, <2>2, RecencyStep
<1>6. \A r \in Shards : Keys(order'[r]) = Keys(order[r]) /\ Injective(order'[r])
  BY <1>3, <1>4, ListType DEF TypeOK
<1> QED
  BY <1>3, <1>4, <1>5, <1>6 DEF TypeOK

-----------------------------------------------------------------------------
(* A map of a shard sends some of the statements to plans. *)
LEMMA MapType ==
  /\ \A m \in PlanMaps : m \in [DOMAIN m -> Plans] /\ DOMAIN m \subseteq Queries
  /\ \A K \in SUBSET Queries : \A m \in [K -> Plans] : m \in PlanMaps
  BY DEF PlanMaps

LEMMA InitInv ==
  ASSUME Init
  PROVE  IInv
<1> USE DEF Init
<1>1. << >> \in Seq(Queries) /\ Len(<< >>) = 0
  BY EmptySeq
<1>2. \A s \in Shards : order[s] = << >> /\ DOMAIN order[s] = {} /\ DOMAIN items[s] = {}
  <2>1. DOMAIN << >> = {}
    BY <1>1, LenProperties
  <2> QED
    BY <2>1
<1>3. NoPlan \in Plans
  BY DEF Plans
<1>4. TypeOK
  <2>1. \A s \in Shards : Keys(order[s]) = {}
    BY <1>2 DEF Keys
  <2>2. items \in [Shards -> PlanMaps]
    <3>1. [k \in {} |-> NoPlan] \in PlanMaps
      BY MapType
    <3> QED
      BY <3>1
  <2> QED
    BY <1>1, <1>3, <2>1, <2>2 DEF TypeOK
<1>5. MapMatchesList
  BY <1>2 DEF MapMatchesList, Keys
<1>6. PlanInv
  BY <1>2 DEF PlanInv, OwnPlan
<1>7. RecencyInv
  <2>1. \A s \in Shards : Len(order[s]) = 0 /\ 1..Len(order[s]) = {}
    BY <1>1, <1>2
  <2>2. \A s \in Shards : Len(order[s]) <= Max
    BY <2>1, MaxType
  <2>3. \A q \in Queries : IsFiniteSet(since[q])
    BY FS_EmptySet
  <2> QED
    BY <2>1, <2>2, <2>3 DEF RecencyInv
<1> QED
  BY <1>4, <1>5, <1>6, <1>7 DEF IInv

(* The steps that leave the cache and its history alone. *)
LEMMA CacheUnchanged ==
  ASSUME IInv, UNCHANGED cacheVars
  PROVE  /\ RecencyInv' /\ MapMatchesList'
         /\ order' = order /\ items' = items /\ used' = used /\ since' = since
  BY DEF IInv, RecencyInv, MapMatchesList, cacheVars

(* A compiled plan is a plan, and none of the missing ones. *)
LEMMA CompileFact ==
  \A q \in Queries : Compile(q) \in Plans /\ (q \notin BadQueries => Compile(q) # NoPlan)
  BY DEF Compile, Plans, NoPlan

LEMMA HitStep ==
  ASSUME IInv, NEW g \in Goroutines, NEW q \in Queries, Hit(g, q)
  PROVE  IInv'
<1>1. ShardOf[q] \in Shards /\ q \in DOMAIN items[ShardOf[q]]
  BY ShardAssumption DEF Hit
<1>2. items[ShardOf[q]][q] = Compile(q) /\ q \notin BadQueries
  BY <1>1 DEF IInv, PlanInv, OwnPlan
<1>3. /\ RecencyInv'
      /\ order' \in [Shards -> Seq(Queries)]
      /\ \A r \in Shards : Keys(order'[r]) = Keys(order[r]) /\ Injective(order'[r])
  BY <1>1, ReorderStep DEF Hit, IInv
<1>4. TypeOK'
  BY <1>2, <1>3, CompileFact, UseType DEF Hit, IInv, TypeOK
<1>5. MapMatchesList'
  <2>1. \A r \in Shards : DOMAIN order'[r] = 1..Len(order'[r])
    BY <1>3, LenProperties
  <2> QED
    BY <1>3, <2>1 DEF Hit, IInv, MapMatchesList, Injective
<1>6. PlanInv'
  BY <1>2, CompileFact DEF Hit, IInv, TypeOK, PlanInv, OwnPlan
<1> QED
  BY <1>3, <1>4, <1>5, <1>6 DEF IInv

LEMMA ReplaceStep ==
  ASSUME IInv, NEW g \in Goroutines, Replace(g)
  PROVE  IInv'
<1> DEFINE k == query[g]
           s == ShardOf[k]
<1>1. k \in Queries /\ s \in Shards /\ k \in DOMAIN items[s]
  BY ShardAssumption DEF Replace, IInv, TypeOK
<1>2. plan[g] = Compile(k) /\ k \notin BadQueries
  BY DEF Replace, IInv, PlanInv
<1>3. /\ RecencyInv'
      /\ order' \in [Shards -> Seq(Queries)]
      /\ \A r \in Shards : Keys(order'[r]) = Keys(order[r]) /\ Injective(order'[r])
  BY <1>1, ReorderStep DEF Replace, IInv
<1>4. \A r \in Shards : /\ DOMAIN items'[r] = DOMAIN items[r]
                        /\ items'[r] \in [DOMAIN items[r] -> Plans]
                        /\ \A x \in DOMAIN items'[r] : items'[r][x] = Compile(x) /\ x \notin BadQueries
  <2>1. items' = [items EXCEPT ![s] = [items[s] EXCEPT ![k] = plan[g]]]
    BY DEF Replace
  <2>2. \A r \in Shards : items[r] \in [DOMAIN items[r] -> Plans]
    BY MapType DEF IInv, TypeOK
  <2>3. \A r \in Shards : items'[r] = IF r = s THEN [items[s] EXCEPT ![k] = plan[g]] ELSE items[r]
    BY <2>1 DEF IInv, TypeOK
  <2>4. plan[g] \in Plans
    BY <1>1, <1>2, CompileFact
  <2> HIDE DEF s, k
  <2> QED
    BY <1>1, <1>2, <2>2, <2>3, <2>4 DEF IInv, PlanInv, OwnPlan
<1>5. TypeOK'
  <2>1. items' \in [Shards -> PlanMaps]
    <3>1. \A r \in Shards : DOMAIN items[r] \subseteq Queries
      BY MapType DEF IInv, TypeOK
    <3>2. \A r \in Shards : items'[r] \in PlanMaps
      BY <1>4, <3>1, MapType
    <3> QED
      BY <3>2 DEF Replace, IInv, TypeOK
  <2> QED
    BY <1>1, <1>3, <1>4, <2>1, UseType DEF Replace, IInv, TypeOK
<1>6. MapMatchesList'
  <2>1. \A r \in Shards : DOMAIN order'[r] = 1..Len(order'[r])
    BY <1>3, LenProperties
  <2> QED
    BY <1>3, <1>4, <2>1 DEF IInv, MapMatchesList, Injective
<1>7. PlanInv'
  BY <1>2, <1>4, CompileFact DEF Replace, IInv, TypeOK, PlanInv, OwnPlan
<1> QED
  BY <1>3, <1>5, <1>6, <1>7 DEF IInv

LEMMA InsertStep ==
  ASSUME IInv, NEW g \in Goroutines, Insert(g)
  PROVE  IInv'
<1> DEFINE k == query[g]
           s == ShardOf[k]
           pushed == PushFront(k, order[s])
           t == Evicted(pushed)
           dropped == {pushed[i] : i \in (Len(t) + 1)..Len(pushed)}
<1>1. k \in Queries /\ s \in Shards /\ k \notin DOMAIN items[s]
  BY ShardAssumption DEF Insert, IInv, TypeOK
<1>2. plan[g] = Compile(k) /\ k \notin BadQueries
  BY DEF Insert, IInv, PlanInv
<1>3. /\ order' = [order EXCEPT ![s] = t]
      /\ items' = [items EXCEPT ![s] =
                     [x \in (DOMAIN items[s] \cup {k}) \ dropped |->
                        IF x = k THEN plan[g] ELSE items[s][x]]]
      /\ pc' = [pc EXCEPT ![g] = "bind"]
      /\ Use(k)
      /\ UNCHANGED <<query, plan>>
  BY DEF Insert
<1>4. /\ order[s] \in Seq(Queries) /\ Len(order[s]) \in Nat
      /\ Len(order[s]) <= Max /\ Injective(order[s])
      /\ \A i \in 1..Len(order[s]) : ShardOf[order[s][i]] = s
      /\ Keys(order[s]) = {order[s][i] : i \in 1..Len(order[s])}
      /\ Keys(order[s]) = DOMAIN items[s]
  BY <1>1, ListType DEF IInv, RecencyInv, MapMatchesList
<1>5. /\ t \in Seq(Queries)
      /\ Len(t) = IF Len(order[s]) = Max THEN Max ELSE Len(order[s]) + 1
      /\ Keys(t) = (Keys(order[s]) \cup {k}) \ dropped
      /\ k \in Keys(t)
      /\ \A x \in dropped : /\ Len(order[s]) = Max /\ x = order[s][Max]
                            /\ Keys(t) = Before(order[s], Max) \cup {k}
      /\ Injective(t)
      /\ FrontedBy(k, order[s], t)
  BY <1>1, <1>4, InsertFact
<1> HIDE DEF dropped, t, s, k
<1>6. Len(order[s]) <= Len(t) /\ Len(t) <= Max /\ (Len(order[s]) = Max => Len(t) = Max)
  <2>1. CASE Len(order[s]) = Max
    BY <1>5, <2>1, MaxType
  <2>2. CASE Len(order[s]) # Max
    <3>1. Len(t) = Len(order[s]) + 1
      BY <1>5, <2>2
    <3> QED
      BY <1>4, <2>2, <3>1, MaxType
  <2> QED
    BY <2>1, <2>2
<1>7. RecencyInv'
  <2>1. ASSUME NEW x \in Keys(order[s]) \ Keys(t)
        PROVE  Len(t) = Max /\ Keys(t) \subseteq since[x] \cup {k}
    <3>1. x \in dropped
      BY <1>5
    <3>2. /\ Len(order[s]) = Max /\ x = order[s][Max]
          /\ Keys(t) = Before(order[s], Max) \cup {k}
      BY <1>5, <3>1
    <3>3. Max \in 1..Len(order[s])
      BY <3>2, MaxType
    <3>4. since[x] = Before(order[s], Max)
      BY <1>1, <3>2, <3>3 DEF IInv, RecencyInv
    <3> QED
      BY <1>6, <3>2, <3>4
  <2>2. Keys(t) \subseteq Keys(order[s]) \cup {k}
    BY <1>5
  <2>3. s = ShardOf[k]
    BY DEF s
  <2>4. FrontedBy(k, order[s], t) /\ k \in Keys(t) /\ t \in Seq(Queries)
    BY <1>5
  <2> QED
    BY <1>1, <1>3, <1>6, <2>1, <2>2, <2>3, <2>4, RecencyStep DEF IInv
<1>8. /\ order' \in [Shards -> Seq(Queries)]
      /\ \A r \in Shards : r # s => order'[r] = order[r] /\ items'[r] = items[r]
      /\ order'[s] = t
      /\ items'[s] = [x \in Keys(t) |-> IF x = k THEN plan[g] ELSE items[s][x]]
  BY <1>1, <1>3, <1>4, <1>5 DEF IInv, TypeOK
<1>9. MapMatchesList'
  <2>1. \A r \in Shards : Injective(order'[r])
    BY <1>5, <1>8, ListType DEF IInv
  <2>2. \A r \in Shards : DOMAIN order'[r] = 1..Len(order'[r])
    BY <1>8, LenProperties
  <2>3. \A r \in Shards : DOMAIN items'[r] = Keys(order'[r])
    BY <1>8 DEF IInv, MapMatchesList
  <2> QED
    BY <2>1, <2>2, <2>3 DEF MapMatchesList, Injective
<1>10. /\ items'[s] \in PlanMaps
       /\ \A x \in Keys(t) : x \in Queries /\ ShardOf[x] = s
       /\ \A x \in Keys(t) : items'[s][x] = Compile(x) /\ x \notin BadQueries
  <2>1. \A x \in Keys(t) : x = k \/ x \in Keys(order[s])
    BY <1>5
  <2>2. \A x \in Keys(order[s]) : x \in Queries /\ ShardOf[x] = s
    BY <1>1, <1>4, ListType DEF IInv
  <2>3. \A x \in Keys(order[s]) : items[s][x] = Compile(x) /\ x \notin BadQueries
    BY <1>1, <1>4 DEF IInv, PlanInv, OwnPlan
  <2>4. \A x \in Keys(t) : x \in Queries /\ ShardOf[x] = s
    BY <1>1, <2>1, <2>2 DEF s
  <2>5. \A x \in Keys(t) : items'[s][x] = Compile(x) /\ x \notin BadQueries
    BY <1>2, <1>8, <2>1, <2>3
  <2>6. items'[s] \in [Keys(t) -> Plans]
    BY <1>8, <2>4, <2>5, CompileFact
  <2> QED
    BY <2>4, <2>5, <2>6, MapType
<1>11. TypeOK'
  <2>1. items' \in [Shards -> PlanMaps]
    BY <1>1, <1>3, <1>8, <1>10 DEF IInv, TypeOK
  <2>2. \A r \in Shards : \A x \in Keys(order'[r]) : ShardOf[x] = r
    BY <1>8, <1>10 DEF IInv, TypeOK
  <2>3. used' \subseteq Queries /\ since' \in [Queries -> SUBSET Queries]
    BY <1>1, <1>3, UseType DEF IInv
  <2> QED
    BY <1>3, <1>8, <2>1, <2>2, <2>3 DEF IInv, TypeOK
<1>12. PlanInv'
  <2>1. \A r \in Shards : \A x \in DOMAIN items'[r] :
          x \notin BadQueries /\ items'[r][x] = Compile(x)
    BY <1>8, <1>10 DEF IInv, PlanInv, OwnPlan
  <2>2. \A h \in Goroutines :
          /\ pc'[h] # "idle" => query'[h] \in Queries
          /\ pc'[h] = "store" => query'[h] \notin BadQueries /\ plan'[h] = Compile(query'[h])
          /\ pc'[h] = "bind" => plan'[h] = Compile(query'[h]) /\ plan'[h] # NoPlan
    BY <1>1, <1>2, <1>3, CompileFact DEF IInv, TypeOK, PlanInv, OwnPlan, k
  <2> QED
    BY <2>1, <2>2 DEF PlanInv, OwnPlan
<1> QED
  BY <1>7, <1>9, <1>11, <1>12 DEF IInv

(* Looking a key up in vain, compiling and binding leave the cache alone. *)
LEMMA OtherSteps ==
  ASSUME IInv, NEW g \in Goroutines,
         \/ \E q \in Queries : Miss(g, q)
         \/ CompileStatement(g) \/ CompileFails(g) \/ Bind(g)
  PROVE  IInv'
<1> USE DEF IInv
<1>1. UNCHANGED cacheVars
  BY DEF Miss, CompileStatement, CompileFails, Bind
<1>2. /\ RecencyInv' /\ MapMatchesList'
      /\ order' = order /\ items' = items /\ used' = used /\ since' = since
  BY <1>1, CacheUnchanged
<1>3. NoPlan \in Plans
  BY DEF Plans
<1>4. TypeOK' /\ PlanInv'
  <2>1. ASSUME NEW q \in Queries, Miss(g, q)
        PROVE  TypeOK' /\ PlanInv'
    BY <1>2, <1>3, <2>1 DEF Miss, TypeOK, PlanInv, OwnPlan
  <2>2. CASE CompileStatement(g)
    <3>1. query[g] \in Queries
      BY DEF TypeOK
    <3> QED
      BY <1>2, <2>2, <3>1, CompileFact DEF CompileStatement, TypeOK, PlanInv, OwnPlan
  <2>3. CASE CompileFails(g) \/ Bind(g)
    BY <1>2, <2>3 DEF CompileFails, Bind, TypeOK, PlanInv, OwnPlan
  <2> QED
    BY <2>1, <2>2, <2>3
<1> QED
  BY <1>2, <1>4

LEMMA StepInv ==
  ASSUME IInv, [Next]_vars
  PROVE  IInv'
<1>1. CASE UNCHANGED vars
  BY <1>1, CacheUnchanged DEF vars, IInv, TypeOK, PlanInv, OwnPlan
<1>2. CASE Next
  BY <1>2, HitStep, ReplaceStep, InsertStep, OtherSteps DEF Next
<1> QED
  BY <1>1, <1>2

LEMMA AlwaysIInv == Spec => []IInv
  BY InitInv, StepInv, PTL DEF Spec

-----------------------------------------------------------------------------
LEMMA IntervalFact ==
  ASSUME NEW n \in Nat
  PROVE  IsFiniteSet(1..n) /\ Cardinality(1..n) = n
<1>1. IsFiniteSet(1..n) /\ Cardinality(1..n) = IF 1 > n THEN 0 ELSE n - 1 + 1
  BY FS_Interval
<1>2. CASE n = 0
  BY <1>1, <1>2
<1>3. CASE n # 0
  <2>1. ~(1 > n) /\ n - 1 + 1 = n
    BY <1>3
  <2> QED
    BY <1>1, <2>1
<1> QED
  BY <1>2, <1>3

(* There are i - 1 keys before the i-th of a list without repetition. *)
LEMMA BeforeCardinality ==
  ASSUME NEW S, NEW s \in Seq(S), Injective(s), NEW i \in 1..(Len(s) + 1)
  PROVE  IsFiniteSet(Before(s, i)) /\ Cardinality(Before(s, i)) = i - 1
<1> DEFINE f == [j \in 1..(i - 1) |-> s[j]]
<1>1. Len(s) \in Nat /\ i \in Nat /\ i - 1 \in Nat
  BY LenProperties
<1>2. f \in [1..(i - 1) -> Before(s, i)]
  BY DEF Before
<1>3. \A x, y \in 1..(i - 1) : f[x] = f[y] => x = y
  BY <1>1 DEF Injective
<1>4. \A z \in Before(s, i) : \E x \in 1..(i - 1) : f[x] = z
  BY DEF Before
<1> HIDE DEF f
<1>5. f \in Bijection(1..(i - 1), Before(s, i))
  BY <1>2, <1>3, <1>4 DEF Bijection, Injection, Surjection, IsInjective
<1> QED
  BY <1>1, <1>5, IntervalFact, FS_Bijection DEF ExistsBijection

(* What the list and the history say together: a key that is held has fewer than
   Max others used since, one that was dropped has at least Max. *)
LEMMA RecencyMeansHeld ==
  ASSUME IInv
  PROVE  HoldsMostRecent
<1> SUFFICES ASSUME NEW q \in Queries
             PROVE  q \in DOMAIN items[ShardOf[q]] <=> q \in used /\ Cardinality(since[q]) < Max
  BY DEF HoldsMostRecent
<1> DEFINE s == ShardOf[q]
<1>1. s \in Shards /\ DOMAIN items[s] = Keys(order[s])
  BY ShardAssumption DEF IInv, MapMatchesList
<1>2. /\ order[s] \in Seq(Queries) /\ Len(order[s]) \in Nat /\ Injective(order[s])
      /\ Keys(order[s]) = {order[s][i] : i \in 1..Len(order[s])}
      /\ Len(order[s]) <= Max
  BY <1>1, ListType DEF IInv, RecencyInv
<1>3. ASSUME q \in Keys(order[s])
      PROVE  q \in used /\ Cardinality(since[q]) < Max
  <2>1. PICK i \in 1..Len(order[s]) : q = order[s][i]
    BY <1>2, <1>3
  <2>2. q \in used /\ since[q] = Before(order[s], i)
    BY <1>1, <2>1 DEF IInv, RecencyInv
  <2>3. Cardinality(since[q]) = i - 1
    BY <1>2, <2>2, BeforeCardinality
  <2> QED
    BY <1>2, <2>2, <2>3, MaxType
<1>4. ASSUME q \in used, q \notin Keys(order[s])
      PROVE  ~(Cardinality(since[q]) < Max)
  <2>1. Len(order[s]) = Max /\ Keys(order[s]) \subseteq since[q] /\ IsFiniteSet(since[q])
    BY <1>4 DEF IInv, RecencyInv
  <2>2. Keys(order[s]) = Before(order[s], Len(order[s]) + 1)
    BY <1>2 DEF Before
  <2>3. Cardinality(Keys(order[s])) = Max
    <3>1. Len(order[s]) + 1 \in 1..(Len(order[s]) + 1) /\ Len(order[s]) + 1 - 1 = Max
      BY <1>2, <2>1
    <3>2. Cardinality(Before(order[s], Len(order[s]) + 1)) = Len(order[s]) + 1 - 1
      BY <1>2, <3>1, BeforeCardinality
    <3> QED
      BY <2>2, <3>1, <3>2
  <2>4. Cardinality(since[q]) \in Nat /\ Cardinality(Keys(order[s])) <= Cardinality(since[q])
    BY <2>1, FS_Subset, FS_CardinalityType
  <2> QED
    BY <2>3, <2>4, MaxType
<1> QED
  BY <1>1, <1>3, <1>4

-----------------------------------------------------------------------------
(* cache.go and prepare keep the cache well formed: every key is in the shard it
   hashes to, every goroutine holds a statement and a plan or none. *)
THEOREM TypeCorrect == Spec => []TypeOK
<1>1. IInv => TypeOK
  BY DEF IInv
<1> QED
  BY <1>1, AlwaysIInv, PTL

(* However get and put of several goroutines interleave, the list and the map of a
   shard hold the same keys, each once. *)
THEOREM MapAndListAgree == Spec => []MapMatchesList
<1>1. IInv => MapMatchesList
  BY DEF IInv
<1> QED
  BY <1>1, AlwaysIInv, PTL

(* prepare renders a statement with the plan compiled from it, and a statement
   compile rejects never enters the cache. *)
THEOREM EachItsOwnPlan == Spec => []OwnPlan
<1>1. IInv => OwnPlan
  BY DEF IInv, PlanInv
<1> QED
  BY <1>1, AlwaysIInv, PTL

(* The cache is a least-recently-used cache: it holds exactly the statements with
   fewer than Max others of their shard used since. *)
THEOREM LeastRecentlyUsedIsDropped == Spec => []HoldsMostRecent
<1>1. IInv => HoldsMostRecent
  BY RecencyMeansHeld
<1> QED
  BY <1>1, AlwaysIInv, PTL
=============================================================================
