----------------------------- MODULE LexerProofs ----------------------------
(***************************************************************************)
(* lex, proved for every text of any length: its tokens are the text cut   *)
(* into pieces (TextIsTiled), and they are the parameters a reader sees    *)
(* (ParametersAreFound).                                                   *)
(*                                                                         *)
(* The scan and the reader compute with recursive functions.  One that     *)
(* stops at an offset or goes on at a later one is defined by its equation *)
(* (JumpsDefine), and so is one that takes its value from the offset       *)
(* before (StepsDefine); Reach then says what the first kind returns.  So  *)
(* each region ends for the scan where it does for the reader (QuoteEnd,   *)
(* EscapeEnd and CommentEndMeets, LineEnds, DollarIs), and the scan keeps  *)
(* to ScanInv: it stands outside every region, in nothing that began       *)
(* before, and has found what the reader has.                              *)
(*                                                                         *)
(* The last part is about texts made from others: what a reader sees from  *)
(* one offset to another of a text it sees of a copy that stands somewhere *)
(* else, if the texts go on alike behind it (Moved, Seam, HiddenMoves),    *)
(* and the placeholders it finds are those before an offset and those      *)
(* from there on (NumbersGrow).                                            *)
(***************************************************************************)
EXTENDS StatementProps, SequenceTheorems, FiniteSetTheorems, WellFoundedInduction, TLAPS

-----------------------------------------------------------------------------
(* The characters of statements, and those written in place of parameters. *)
Chars == STRING \cup Digits \cup {"?", "$", ",", "N"}

LEMMA TextsChars ==
  \A text \in Texts : text \in Seq(Chars)
<1>1. STRING \subseteq Chars
  BY DEF Chars
<1> QED
  BY <1>1, TextsAssumption, SeqMonotonic

(* Induction over the natural numbers, in terms of sets. *)
LEMMA LeastElement ==
  ASSUME NEW S, S \subseteq Nat, S # {}
  PROVE  \E m \in S : \A n \in S : m <= n
<1> DEFINE R == OpToRel(<, Nat)
<1>1. IsWellFoundedOn(R, Nat)
  BY NatLessThanWellFounded
<1>2. \A x, y \in Nat : x < y => <<x, y>> \in R
  BY DEF OpToRel
<1> HIDE DEF R
<1>3. PICK m \in S : \A y \in S : ~(<<y, m>> \in R)
  BY <1>1, WFMin
<1>4. \A n \in S : m <= n
  <2> TAKE n \in S
  <2>1. n \in Nat /\ m \in Nat /\ ~(n < m)
    BY <1>2, <1>3
  <2> QED
    BY <2>1
<1> QED
  BY <1>4

LEMMA SetInduction ==
  ASSUME NEW S, 0 \in S, \A n \in Nat : n \in S => n + 1 \in S
  PROVE  Nat \subseteq S
<1> SUFFICES ASSUME Nat \ S # {}
             PROVE  FALSE
  OBVIOUS
<1>1. PICK m \in Nat \ S : \A n \in Nat \ S : m <= n
  <2>1. Nat \ S \subseteq Nat
    OBVIOUS
  <2> QED
    BY <2>1, LeastElement
<1>2. m - 1 \in Nat /\ ~(m <= m - 1) /\ (m - 1) + 1 = m
  BY <1>1
<1>3. m - 1 \in S
  BY <1>1, <1>2
<1> QED
  BY <1>1, <1>2, <1>3

(* The least element of a set of offsets. *)
LEMMA LeastIs ==
  ASSUME NEW S, S \subseteq Nat, NEW d
  PROVE  /\ S = {} => Least(S, d) = d
         /\ \A m \in S : (\A n \in S : m <= n) => Least(S, d) = m
         /\ S # {} => Least(S, d) \in S /\ \A n \in S : Least(S, d) <= n
<1>1. CASE S = {}
  BY <1>1 DEF Least
<1>2. CASE S # {}
  <2>1. \E m \in S : \A n \in S : m <= n
    BY <1>2, LeastElement
  <2>2. Least(S, d) = CHOOSE m \in S : \A n \in S : m <= n
    BY <1>2 DEF Least, Min
  <2>3. Least(S, d) \in S /\ \A n \in S : Least(S, d) <= n
    BY <2>1, <2>2
  <2>4. \A m, n \in Nat : m <= n /\ n <= m => m = n
    OBVIOUS
  <2> QED
    BY <1>2, <2>3, <2>4
<1> QED
  BY <1>1, <1>2

(* A function of offsets that is defined from its value one offset before. *)
StepsTo(f, a, b, base, step) ==
  f = [k \in a..b |-> IF k = a THEN base ELSE step[k][f[k - 1]]]

LEMMA StepsDefine ==
  ASSUME NEW a \in Nat, NEW b \in Nat, a <= b, NEW V, NEW base \in V,
         NEW step \in [(a + 1)..b -> [V -> V]]
  PROVE  \E f \in [a..b -> V] : StepsTo(f, a, b, base, step)
<1> DEFINE S == {n \in Nat : a + n <= b =>
                   \E f \in [a..(a + n) -> V] : StepsTo(f, a, a + n, base, step)}
<1>1. 0 \in S
  <2> DEFINE f == [k \in a..(a + 0) |-> base]
  <2>1. f \in [a..(a + 0) -> V] /\ StepsTo(f, a, a + 0, base, step)
    BY DEF StepsTo
  <2> HIDE DEF f
  <2> QED
    BY <2>1
<1>2. ASSUME NEW n \in Nat, n \in S
      PROVE  n + 1 \in S
  <2> SUFFICES ASSUME a + (n + 1) <= b
               PROVE  \E f \in [a..(a + (n + 1)) -> V] : StepsTo(f, a, a + (n + 1), base, step)
    OBVIOUS
  <2>1. PICK f \in [a..(a + n) -> V] : StepsTo(f, a, a + n, base, step)
    BY <1>2
  <2> DEFINE z == a + (n + 1)
             g == [k \in a..z |-> IF k = z THEN step[z][f[z - 1]] ELSE f[k]]
  <2>2. /\ z \in (a + 1)..b /\ z - 1 = a + n /\ z - 1 \in a..(a + n) /\ z # a
        /\ \A k \in a..z : k # z => k \in a..(a + n)
    OBVIOUS
  <2>3. step[z][f[z - 1]] \in V
    BY <2>1, <2>2
  <2>4. g \in [a..z -> V]
    BY <2>1, <2>2, <2>3
  <2>5. ASSUME NEW k \in a..z
        PROVE  g[k] = IF k = a THEN base ELSE step[k][g[k - 1]]
    <3>1. CASE k = z
      <4>1. g[k] = step[z][f[z - 1]] /\ g[k - 1] = f[z - 1]
        BY <2>2, <3>1
      <4> QED
        BY <2>2, <3>1, <4>1
    <3>2. CASE k # z
      <4>1. k \in a..(a + n) /\ (k # a => k - 1 \in a..(a + n) /\ k - 1 # z)
        BY <2>2, <3>2
      <4>2. f[k] = IF k = a THEN base ELSE step[k][f[k - 1]]
        BY <2>1, <4>1 DEF StepsTo
      <4>3. g[k] = f[k] /\ (k # a => g[k - 1] = f[k - 1])
        BY <2>2, <3>2, <4>1
      <4> QED
        BY <4>2, <4>3
    <3> QED
      BY <3>1, <3>2
  <2>6. StepsTo(g, a, z, base, step)
    BY <2>5 DEF StepsTo
  <2> HIDE DEF g
  <2> QED
    BY <2>4, <2>6
<1> HIDE DEF S
<1>3. b - a \in Nat /\ a + (b - a) = b
  OBVIOUS
<1>4. b - a \in S
  BY <1>1, <1>2, <1>3, SetInduction
<1> QED
  BY <1>3, <1>4 DEF S

(* A function that at each point of R is v, or goes on at a nearer one, is v. *)
Onward(R, left, f, v) ==
  \A x \in R : /\ left[x] \in Nat
               /\ f[x] = v \/ \E y \in R : left[y] < left[x] /\ f[x] = f[y]

LEMMA Reach ==
  ASSUME NEW R, NEW left, NEW f, NEW v, Onward(R, left, f, v)
  PROVE  \A x \in R : f[x] = v
<1> DEFINE B == {x \in R : f[x] # v}
           S == {left[x] : x \in B}
<1> SUFFICES ASSUME B # {}
             PROVE  FALSE
  OBVIOUS
<1>1. S \subseteq Nat /\ S # {}
  BY DEF Onward
<1> HIDE DEF S
<1>2. PICK m \in S : \A n \in S : m <= n
  BY <1>1, LeastElement
<1>3. PICK x \in B : m = left[x]
  BY <1>2 DEF S
<1>4. PICK y \in R : left[y] < left[x] /\ f[x] = f[y]
  BY <1>3 DEF Onward
<1>5. y \in B
  BY <1>3, <1>4
<1>6. left[y] \in Nat /\ left[x] \in Nat /\ left[x] <= left[y]
  BY <1>2, <1>3, <1>4, <1>5 DEF Onward, S
<1> QED
  BY <1>4, <1>6

-----------------------------------------------------------------------------
(* Functions that stop at a point, or go on at one that is nearer the end. *)
Jumps(X, left, stop, next) ==
  /\ left \in [X -> Nat]
  /\ \A x \in X : x \notin stop => next[x] \in X /\ left[next[x]] < left[x]

Follows(f, X, stop, final, next) ==
  f = [x \in X |-> IF x \in stop THEN final[x] ELSE f[next[x]]]

LEMMA FollowsValue ==
  ASSUME NEW f, NEW X, NEW stop, NEW final, NEW next, Follows(f, X, stop, final, next)
  PROVE  \A x \in X : f[x] = IF x \in stop THEN final[x] ELSE f[next[x]]
BY DEF Follows

Near(X, left, n) == {x \in X : left[x] <= n}

LEMMA NearGrows ==
  ASSUME NEW X, NEW left, NEW stop, NEW next, Jumps(X, left, stop, next), NEW n \in Nat
  PROVE  /\ \A x \in Near(X, left, n + 1) : x \notin stop => next[x] \in Near(X, left, n)
         /\ \A x \in Near(X, left, 0) : x \in stop
         /\ Near(X, left, n) \subseteq Near(X, left, n + 1)
         /\ \A x \in Near(X, left, n) : x \notin stop => next[x] \in Near(X, left, n)
<1>1. \A x \in X : left[x] \in Nat
  BY DEF Jumps
<1> QED
  BY <1>1 DEF Jumps, Near

LEMMA NearDefined ==
  ASSUME NEW X, NEW left, NEW stop, NEW final, NEW next, Jumps(X, left, stop, next)
  PROVE  \A n \in Nat : \E f : Follows(f, Near(X, left, n), stop, final, next)
<1> DEFINE S == {n \in Nat : \E f : Follows(f, Near(X, left, n), stop, final, next)}
<1>1. 0 \in S
  <2> DEFINE f == [x \in Near(X, left, 0) |-> final[x]]
  <2>1. Follows(f, Near(X, left, 0), stop, final, next)
    BY NearGrows DEF Follows
  <2> HIDE DEF f
  <2> QED
    BY <2>1
<1>2. ASSUME NEW n \in Nat, n \in S
      PROVE  n + 1 \in S
  <2>1. PICK f : Follows(f, Near(X, left, n), stop, final, next)
    BY <1>2
  <2> DEFINE A == Near(X, left, n)
             B == Near(X, left, n + 1)
             g == [x \in B |-> IF x \in stop THEN final[x] ELSE f[next[x]]]
  <2>2. /\ \A x \in B : x \notin stop => next[x] \in A
        /\ A \subseteq B
        /\ \A x \in A : x \notin stop => next[x] \in A
    BY NearGrows
  <2>3. \A x \in A : g[x] = f[x]
    BY <2>1, <2>2 DEF Follows
  <2>4. \A x \in B : x \notin stop => g[next[x]] = f[next[x]]
    BY <2>2, <2>3
  <2>5. g = [x \in B |-> IF x \in stop THEN final[x] ELSE g[next[x]]]
    BY <2>4
  <2> HIDE DEF g
  <2>6. Follows(g, B, stop, final, next)
    BY <2>5 DEF Follows
  <2> QED
    BY <2>6
<1> HIDE DEF S
<1>3. Nat \subseteq S
  BY <1>1, <1>2, SetInduction
<1> QED
  BY <1>3 DEF S

(* t[n] is the function on the points that are no further than n. *)
Layers(t, X, left, stop, final, next) ==
  \A n \in Nat : Follows(t[n], Near(X, left, n), stop, final, next)

LEMMA NearAgree ==
  ASSUME NEW X, NEW left, NEW stop, NEW final, NEW next, Jumps(X, left, stop, next),
         NEW t, Layers(t, X, left, stop, final, next)
  PROVE  \A k, n \in Nat : k <= n => \A x \in Near(X, left, k) : t[n][x] = t[k][x]
<1> DEFINE S == {k \in Nat : \A n \in Nat : k <= n =>
                               \A x \in Near(X, left, k) : t[n][x] = t[k][x]}
<1> USE DEF Layers
<1>0. \A k, n \in Nat : k <= n => Near(X, left, k) \subseteq Near(X, left, n)
  BY DEF Near, Jumps
<1>1. 0 \in S
  <2>1. ASSUME NEW n \in Nat, NEW x \in Near(X, left, 0)
        PROVE  t[n][x] = t[0][x]
    <3>1. x \in stop
      BY NearGrows
    <3>2. x \in Near(X, left, n)
      <4>1. 0 <= n
        OBVIOUS
      <4> QED
        BY <1>0, <4>1
    <3>3. t[n][x] = final[x]
      BY <3>1, <3>2 DEF Follows
    <3>4. t[0][x] = final[x]
      <4>1. Follows(t[0], Near(X, left, 0), stop, final, next)
        OBVIOUS
      <4> QED
        BY <2>1, <3>1, <4>1, FollowsValue
    <3> QED
      BY <3>3, <3>4
  <2> QED
    BY <2>1
<1>2. ASSUME NEW k \in Nat, k \in S
      PROVE  k + 1 \in S
  <2>1. ASSUME NEW n \in Nat, k + 1 <= n, NEW x \in Near(X, left, k + 1)
        PROVE  t[n][x] = t[k + 1][x]
    <3>1. x \in Near(X, left, n) /\ k <= n /\ k <= k + 1 /\ k + 1 \in Nat
      BY <1>0, <2>1
    <3>2. t[n][x] = IF x \in stop THEN final[x] ELSE t[n][next[x]]
      <4>1. Follows(t[n], Near(X, left, n), stop, final, next)
        OBVIOUS
      <4> QED
        BY <3>1, <4>1, FollowsValue
    <3>3. t[k + 1][x] = IF x \in stop THEN final[x] ELSE t[k + 1][next[x]]
      <4>1. Follows(t[k + 1], Near(X, left, k + 1), stop, final, next)
        BY <3>1
      <4> QED
        BY <2>1, <4>1, FollowsValue
    <3>4. x \notin stop => next[x] \in Near(X, left, k)
      BY NearGrows
    <3>5. x \notin stop => t[n][next[x]] = t[k][next[x]] /\ t[k + 1][next[x]] = t[k][next[x]]
      BY <1>2, <3>1, <3>4
    <3> QED
      BY <3>2, <3>3, <3>5
  <2> QED
    BY <2>1
<1> HIDE DEF S
<1>3. Nat \subseteq S
  BY <1>1, <1>2, SetInduction
<1> QED
  BY <1>3 DEF S

LEMMA JumpsDefine ==
  ASSUME NEW X, NEW left, NEW stop, NEW final, NEW next, Jumps(X, left, stop, next)
  PROVE  \E f : Follows(f, X, stop, final, next)
<1> DEFINE t == [n \in Nat |-> CHOOSE f : Follows(f, Near(X, left, n), stop, final, next)]
           f == [x \in X |-> t[left[x]][x]]
<1>1. \A n \in Nat : Follows(t[n], Near(X, left, n), stop, final, next)
  BY NearDefined
<1> HIDE DEF t
<1>2. Layers(t, X, left, stop, final, next)
  BY <1>1 DEF Layers
<1>3. \A k, n \in Nat : k <= n => \A y \in Near(X, left, k) : t[n][y] = t[k][y]
  BY <1>2, NearAgree
<1>4. ASSUME NEW x \in X
      PROVE  f[x] = IF x \in stop THEN final[x] ELSE f[next[x]]
  <2>1. left[x] \in Nat /\ x \in Near(X, left, left[x])
    BY DEF Jumps, Near
  <2>2. t[left[x]][x] = IF x \in stop THEN final[x] ELSE t[left[x]][next[x]]
    <3>1. Follows(t[left[x]], Near(X, left, left[x]), stop, final, next)
      BY <1>1, <2>1
    <3> QED
      BY <2>1, <3>1, FollowsValue
  <2>3. ASSUME x \notin stop
        PROVE  t[left[x]][next[x]] = f[next[x]]
    <3>1. /\ next[x] \in X /\ left[next[x]] \in Nat /\ left[next[x]] <= left[x]
          /\ next[x] \in Near(X, left, left[next[x]])
      BY <2>1, <2>3 DEF Jumps, Near
    <3>2. t[left[x]][next[x]] = t[left[next[x]]][next[x]]
      <4>1. PICK k \in Nat : k = left[next[x]]
        BY <3>1
      <4>2. PICK n \in Nat : n = left[x]
        BY <2>1
      <4>3. k <= n /\ next[x] \in Near(X, left, k)
        BY <3>1, <4>1, <4>2
      <4>4. t[n][next[x]] = t[k][next[x]]
        BY <1>3, <4>3
      <4> QED
        BY <4>1, <4>2, <4>4
    <3> QED
      BY <3>1, <3>2
  <2> QED
    BY <2>2, <2>3
<1>5. f = [x \in X |-> IF x \in stop THEN final[x] ELSE f[next[x]]]
  BY <1>4
<1> HIDE DEF f
<1>6. Follows(f, X, stop, final, next)
  BY <1>5 DEF Follows
<1> QED
  BY <1>6

-----------------------------------------------------------------------------
(* The run of c that ends at k, from lo on. *)
RunTo(text, lo, k, c) == {j \in lo..k : \A m \in j..k : text[m] = c}

LEMMA RunGrows ==
  ASSUME NEW text, NEW lo \in Nat, NEW k \in Nat, lo <= k, NEW c
  PROVE  /\ Cardinality(RunTo(text, lo, k, c)) \in Nat
         /\ Cardinality(RunTo(text, lo, k, c)) =
              IF text[k] = c THEN Cardinality(RunTo(text, lo, k - 1, c)) + 1 ELSE 0
<1> DEFINE A == RunTo(text, lo, k, c)
           B == RunTo(text, lo, k - 1, c)
<1>1. IsFiniteSet(B) /\ Cardinality(B) \in Nat
  <2>1. IsFiniteSet(lo..(k - 1)) /\ B \in SUBSET (lo..(k - 1))
    BY FS_Interval DEF RunTo
  <2> HIDE DEF B
  <2> QED
    BY <2>1, FS_Subset, FS_CardinalityType
<1>2. k \notin B
  BY DEF RunTo
<1>3. CASE text[k] = c
  <2>1. A = B \cup {k}
    <3>1. ASSUME NEW j \in lo..k
          PROVE  j \in A <=> j = k \/ j \in B
      <4>1. CASE j = k
        BY <1>3, <4>1 DEF RunTo
      <4>2. CASE j # k
        <5>1. j \in lo..(k - 1) /\ j..k = (j..(k - 1)) \cup {k}
          BY <4>2
        <5> QED
          BY <1>3, <4>2, <5>1 DEF RunTo
      <4> QED
        BY <4>1, <4>2
    <3>2. A \subseteq lo..k /\ B \subseteq lo..k /\ k \in lo..k
      BY DEF RunTo
    <3> HIDE DEF A, B
    <3> QED
      BY <3>1, <3>2
  <2> HIDE DEF A, B
  <2>2. Cardinality(A) = Cardinality(B) + 1
    BY <1>1, <1>2, <2>1, FS_AddElement
  <2> QED
    BY <1>1, <1>3, <2>2 DEF A, B
<1>4. CASE text[k] # c
  <2>1. A = {}
    BY <1>4 DEF RunTo
  <2> HIDE DEF A
  <2> QED
    BY <1>4, <2>1, FS_EmptySet DEF A
<1> QED
  BY <1>3, <1>4

LEMMA RunEmpty ==
  ASSUME NEW text, NEW lo \in Nat, NEW k \in Int, k < lo, NEW c
  PROVE  Cardinality(RunTo(text, lo, k, c)) = 0
<1>1. RunTo(text, lo, k, c) = {}
  BY DEF RunTo
<1> QED
  BY <1>1, FS_EmptySet

LEMMA Parity ==
  \A n \in Nat : /\ n % 2 \in {0, 1}
                 /\ (n + 1) % 2 = 1 <=> ~(n % 2 = 1)
                 /\ (n + 1) % 2 = 0 <=> n % 2 = 1
OBVIOUS

(* A run is odd where it begins, and odd and even in turns from there. *)
LEMMA OddFirst ==
  ASSUME NEW text, NEW k \in Nat, 1 <= k, k > 1 => text[k - 1] # text[k]
  PROVE  OddInRun(text, k)
<1>1. Cardinality(RunTo(text, 1, k - 1, text[k])) = 0
  <2>1. CASE k = 1
    BY <2>1, RunEmpty
  <2>2. CASE k > 1
    <3>1. k - 1 \in Nat /\ 1 <= k - 1 /\ text[k - 1] # text[k]
      BY <2>2
    <3> QED
      BY <3>1, RunGrows
  <2> QED
    BY <2>1, <2>2
<1>2. Cardinality(RunTo(text, 1, k, text[k])) = 1
  BY <1>1, RunGrows
<1> QED
  BY <1>2 DEF OddInRun, RunTo

LEMMA OddNext ==
  ASSUME NEW text, NEW k \in Nat, 1 <= k, text[k + 1] = text[k]
  PROVE  OddInRun(text, k + 1) <=> ~OddInRun(text, k)
<1> DEFINE n == Cardinality(RunTo(text, 1, k, text[k]))
<1>1. k + 1 \in Nat /\ 1 <= k + 1 /\ (k + 1) - 1 = k
  OBVIOUS
<1>2. n \in Nat /\ Cardinality(RunTo(text, 1, k + 1, text[k + 1])) = n + 1
  <2>1. Cardinality(RunTo(text, 1, k, text[k])) \in Nat
    BY RunGrows
  <2>2. Cardinality(RunTo(text, 1, k + 1, text[k + 1])) =
          Cardinality(RunTo(text, 1, (k + 1) - 1, text[k + 1])) + 1
    BY <1>1, RunGrows
  <2> QED
    BY <1>1, <2>1, <2>2
<1>3. (OddInRun(text, k) <=> n % 2 = 1) /\ (OddInRun(text, k + 1) <=> (n + 1) % 2 = 1)
  BY <1>2 DEF OddInRun, RunTo
<1> HIDE DEF n
<1> QED
  BY <1>2, <1>3, Parity

(* How many offsets of C lie before j. *)
Before(C, j) == Cardinality({c \in C : c < j})

LEMMA BeforeGrows ==
  ASSUME NEW n \in Nat, NEW C \in SUBSET (1..n), NEW j \in Nat
  PROVE  /\ Before(C, j) \in Nat
         /\ Before(C, j + 1) = IF j \in C THEN Before(C, j) + 1 ELSE Before(C, j)
         /\ (\A c \in C : j <= c) => Before(C, j) = 0
<1> DEFINE A == {c \in C : c < j}
           B == {c \in C : c < j + 1}
<1>0. \A c \in C : c \in 1..n /\ c \in Nat
  OBVIOUS
<1>1. IsFiniteSet(A) /\ Cardinality(A) \in Nat
  <2>1. IsFiniteSet(1..n)
    BY FS_Interval
  <2>2. A \in SUBSET (1..n)
    BY <1>0
  <2> HIDE DEF A
  <2> QED
    BY <2>1, <2>2, FS_Subset, FS_CardinalityType
<1>2. j \notin A /\ B = IF j \in C THEN A \cup {j} ELSE A
  <2>1. \A c \in C : c < j + 1 <=> c = j \/ c < j
    BY <1>0
  <2>2. j \notin C => B = A
    BY <2>1
  <2>3. j \in C => B = A \cup {j}
    BY <2>1
  <2> QED
    BY <2>2, <2>3
<1>3. (\A c \in C : j <= c) => A = {}
  <2>1. \A c \in C : j <= c => ~(c < j)
    BY <1>0
  <2> QED
    BY <2>1
<1> HIDE DEF A, B
<1>4. Cardinality(A \cup {j}) = Cardinality(A) + 1
  BY <1>1, <1>2, FS_AddElement
<1>5. Before(C, j) = Cardinality(A) /\ Before(C, j + 1) = Cardinality(B)
  BY DEF Before, A, B
<1> QED
  BY <1>1, <1>2, <1>3, <1>4, <1>5, FS_EmptySet

-----------------------------------------------------------------------------
(* Quoted regions. *)

(* A backslash that is not taken by another takes the character after it. *)
LEMMA BackslashNext ==
  ASSUME NEW text, NEW lo \in Nat, NEW k \in Nat, lo <= k
  PROVE  /\ ~Backslashed(text, lo, lo)
         /\ Backslashed(text, lo, k + 1) <=> text[k] = "bs" /\ ~Backslashed(text, lo, k)
<1> DEFINE n(j) == Cardinality(RunTo(text, lo, j - 1, "bs"))
<1>1. \A j : Backslashed(text, lo, j) <=> n(j) % 2 = 1
  BY DEF Backslashed, RunTo
<1>2. n(lo) = 0
  <2>1. lo - 1 \in Int /\ lo - 1 < lo
    OBVIOUS
  <2> QED
    BY <2>1, RunEmpty
<1>3. (k + 1) - 1 = k
  OBVIOUS
<1>4. n(k + 1) = IF text[k] = "bs" THEN n(k) + 1 ELSE 0
  BY <1>3, RunGrows
<1>5. n(k) \in Nat
  <2>1. CASE k = lo
    BY <1>2, <2>1
  <2>2. CASE k > lo
    <3>1. k - 1 \in Nat /\ lo <= k - 1
      BY <2>2
    <3> QED
      BY <3>1, RunGrows
  <2> QED
    BY <2>1, <2>2
<1> HIDE DEF n
<1> QED
  BY <1>1, <1>2, <1>4, <1>5, Parity

(* The quotes that count in the region that begins at lo, those that may close
   it, and the offsets a scan comes by before it has found one. *)
Counts(text, lo, escapes) ==
  {k \in lo..Len(text) : text[k] = text[lo] /\ ~(escapes /\ Backslashed(text, lo, k))}

Closers(text, lo, escapes) ==
  {k \in Counts(text, lo, escapes) :
     Before(Counts(text, lo, escapes), k + 1) % 2 = 0 /\ ~Is(text, k + 1, {text[lo]})}

Open(text, lo, escapes, j) ==
  /\ Before(Counts(text, lo, escapes), j) % 2 = 1
  /\ \A c \in Closers(text, lo, escapes) : j <= c

LEMMA QuotedToCloser ==
  ASSUME NEW text \in Seq(Chars), NEW lo \in 1..Len(text), NEW escapes \in BOOLEAN
  PROVE  /\ Closers(text, lo, escapes) \in SUBSET (lo..Len(text))
         /\ QuotedTo(text, lo, escapes)
              = Least({k + 1 : k \in Closers(text, lo, escapes)}, EndOf(text))
<1> DEFINE counts == Counts(text, lo, escapes)
           even == {k \in counts : Cardinality({j \in counts : j <= k}) % 2 = 0}
<1>1. \A c \in counts : c \in Nat
  BY LenProperties DEF Counts
<1>2. ASSUME NEW k \in counts
      PROVE  Cardinality({j \in counts : j <= k}) = Before(counts, k + 1)
  <2>1. \A j \in counts : j <= k <=> j < k + 1
    BY <1>1
  <2>2. {j \in counts : j <= k} = {j \in counts : j < k + 1}
    BY <2>1
  <2> QED
    BY <2>2 DEF Before
<1>3. QuotedTo(text, lo, escapes)
        = Least({k + 1 : k \in {k \in even : ~Is(text, k + 1, {text[lo]})}}, EndOf(text))
  BY DEF QuotedTo, Counts
<1>4. {k \in even : ~Is(text, k + 1, {text[lo]})} = Closers(text, lo, escapes)
  BY <1>2 DEF Closers
<1>5. Closers(text, lo, escapes) \in SUBSET (lo..Len(text))
  BY DEF Closers, Counts
<1> QED
  BY <1>3, <1>4, <1>5

LEMMA QuotedToEnds ==
  ASSUME NEW text \in Seq(Chars), NEW lo \in 1..Len(text), NEW escapes \in BOOLEAN
  PROVE  /\ QuotedTo(text, lo, escapes) \in (lo + 1)..EndOf(text)
         /\ QuotedTo(text, lo, escapes) < EndOf(text)
              => text[QuotedTo(text, lo, escapes) - 1] = text[lo]
<1> DEFINE D == Closers(text, lo, escapes)
           T == {k + 1 : k \in D}
<1>1. D \in SUBSET (lo..Len(text)) /\ QuotedTo(text, lo, escapes) = Least(T, EndOf(text))
  BY QuotedToCloser
<1>2. \A c \in D : text[c] = text[lo]
  BY DEF Closers, Counts
<1>3. Len(text) \in Nat /\ EndOf(text) = Len(text) + 1
  BY LenProperties DEF EndOf
<1> HIDE DEF D
<1>4. T \subseteq Nat /\ \A t \in T : t \in (lo + 1)..EndOf(text) /\ t - 1 \in D
  BY <1>1, <1>3
<1> HIDE DEF T
<1>5. PICK e : e = Least(T, EndOf(text))
  OBVIOUS
<1>6. e \in T \/ e = EndOf(text)
  BY <1>4, <1>5, LeastIs
<1>7. e \in (lo + 1)..EndOf(text) /\ (e < EndOf(text) => text[e - 1] = text[lo])
  <2>1. CASE e \in T
    BY <1>2, <1>4, <2>1
  <2>2. CASE e = EndOf(text)
    BY <1>3, <2>2
  <2> QED
    BY <1>6, <2>1, <2>2
<1>8. QuotedTo(text, lo, escapes) = e
  BY <1>1, <1>5 DEF T
<1> QED
  BY <1>7, <1>8

LEMMA OpenFirst ==
  ASSUME NEW text \in Seq(Chars), NEW lo \in 1..Len(text), NEW escapes \in BOOLEAN
  PROVE  Open(text, lo, escapes, lo + 1)
<1> DEFINE C == Counts(text, lo, escapes)
<1>1. Len(text) \in Nat /\ C \in SUBSET (1..Len(text)) /\ \A c \in C : lo <= c
  BY LenProperties DEF Counts
<1>0. lo \in Nat
  OBVIOUS
<1>2. lo \in C
  BY BackslashNext DEF Counts
<1>3. Before(C, lo + 1) = 1
  <2> HIDE DEF C
  <2>1. Before(C, lo) = 0
    BY <1>0, <1>1, BeforeGrows
  <2>2. Before(C, lo + 1) = Before(C, lo) + 1
    BY <1>0, <1>1, <1>2, BeforeGrows
  <2> QED
    BY <2>1, <2>2
<1>4. lo \notin Closers(text, lo, escapes)
  BY <1>3 DEF Closers
<1>5. \A c \in Closers(text, lo, escapes) : lo + 1 <= c
  <2>1. \A c \in Closers(text, lo, escapes) : c \in lo..Len(text) /\ c # lo
    BY <1>4, QuotedToCloser
  <2> QED
    BY <1>1, <2>1
<1> QED
  BY <1>3, <1>5 DEF Open

LEMMA OpenNext ==
  ASSUME NEW text \in Seq(Chars), NEW lo \in 1..Len(text), NEW escapes \in BOOLEAN,
         NEW j \in (lo + 1)..Len(text), Open(text, lo, escapes, j)
  PROVE  LET counts == Counts(text, lo, escapes)  q == text[lo] IN
         /\ j \notin counts => Open(text, lo, escapes, j + 1)
         /\ j \in counts /\ j + 1 \in counts => Open(text, lo, escapes, j + 2)
         /\ j \in counts /\ ~Is(text, j + 1, {q}) => QuotedTo(text, lo, escapes) = j + 1
<1> DEFINE C == Counts(text, lo, escapes)
           D == Closers(text, lo, escapes)
<1>1. /\ Len(text) \in Nat /\ EndOf(text) = Len(text) + 1 /\ C \in SUBSET (1..Len(text))
      /\ j \in Nat /\ j + 1 \in Nat
  BY LenProperties DEF Counts, EndOf
<1>2. Before(C, j) \in Nat /\ Before(C, j) % 2 = 1
  BY <1>1, BeforeGrows DEF Open
<1>3. D \in SUBSET (lo..Len(text)) /\ QuotedTo(text, lo, escapes) = Least({k + 1 : k \in D}, EndOf(text))
  BY QuotedToCloser
<1>4. \A c \in D : c \in Nat /\ c \in C /\ j <= c
  BY <1>1, <1>3 DEF Open, Closers
<1>5. \A k \in C : k \in D <=> Before(C, k + 1) % 2 = 0 /\ ~Is(text, k + 1, {text[lo]})
  BY DEF Closers
<1>6. \A k : Open(text, lo, escapes, k) <=> Before(C, k) % 2 = 1 /\ \A c \in D : k <= c
  BY DEF Open
<1>7. \A k \in C : k \in lo..Len(text) /\ text[k] = text[lo]
  BY DEF Counts
<1> HIDE DEF C, D
<1>8. CASE j \notin C
  <2>1. Before(C, j + 1) = Before(C, j)
    BY <1>1, <1>8, BeforeGrows
  <2>2. \A c \in D : j + 1 <= c
    BY <1>1, <1>4, <1>8
  <2> QED
    BY <1>2, <1>6, <1>8, <2>1, <2>2 DEF C
<1>9. CASE j \in C
  <2>1. Before(C, j + 1) = Before(C, j) + 1
    BY <1>1, <1>9, BeforeGrows
  <2>2. Before(C, j + 1) \in Nat /\ Before(C, j + 1) % 2 = 0
    BY <1>2, <2>1, Parity
  <2>3. ASSUME j + 1 \in C
        PROVE  Open(text, lo, escapes, j + 2)
    <3>1. (j + 1) + 1 = j + 2
      BY <1>1
    <3>2. Before(C, (j + 1) + 1) = Before(C, j + 1) + 1
      BY <1>1, <2>3, BeforeGrows
    <3>3. Before(C, j + 2) % 2 = 1
      <4>1. (Before(C, j + 1) + 1) % 2 = 1
        BY <2>2, Parity
      <4> QED
        BY <3>1, <3>2, <4>1
    <3>4. j + 1 \notin D
      BY <1>5, <2>3, <3>1, <3>3
    <3>5. j \notin D
      <4>1. Is(text, j + 1, {text[lo]})
        BY <1>1, <1>7, <2>3 DEF Is
      <4> QED
        BY <1>5, <1>9, <4>1
    <3>6. \A c \in D : j + 2 <= c
      BY <1>1, <1>4, <3>4, <3>5
    <3> QED
      BY <1>6, <3>3, <3>6
  <2>4. ASSUME ~Is(text, j + 1, {text[lo]})
        PROVE  QuotedTo(text, lo, escapes) = j + 1
    <3>1. j \in D
      BY <1>5, <1>9, <2>2, <2>4
    <3> DEFINE T == {k + 1 : k \in D}
    <3>2. T \subseteq Nat /\ j + 1 \in T /\ \A t \in T : j + 1 <= t
      BY <1>1, <1>4, <3>1
    <3> HIDE DEF T
    <3>3. Least(T, EndOf(text)) = j + 1
      BY <3>2, LeastIs
    <3> QED
      BY <1>3, <3>3 DEF T
  <2> QED
    BY <1>9, <2>3, <2>4 DEF C
<1> QED
  BY <1>8, <1>9

(* The offset after a backslash, which may be the end. *)
LEMMA OpenOver ==
  ASSUME NEW text \in Seq(Chars), NEW lo \in 1..Len(text), NEW escapes \in BOOLEAN,
         NEW j \in (lo + 1)..Len(text), Open(text, lo, escapes, j + 1),
         j + 1 \notin Counts(text, lo, escapes)
  PROVE  Open(text, lo, escapes, j + 2)
<1> DEFINE C == Counts(text, lo, escapes)
           D == Closers(text, lo, escapes)
<1>1. Len(text) \in Nat /\ C \in SUBSET (1..Len(text)) /\ j + 1 \in Nat /\ (j + 1) + 1 = j + 2
  BY LenProperties DEF Counts
<1>2. \A c \in D : c \in C /\ c \in Nat /\ j + 1 <= c
  BY <1>1 DEF Open, Closers
<1>3. Before(C, j + 1) % 2 = 1
  BY DEF Open
<1> HIDE DEF C, D
<1>4. j + 1 \notin C
  BY DEF C
<1>5. Before(C, j + 2) = Before(C, j + 1)
  <2>1. Before(C, (j + 1) + 1) = Before(C, j + 1)
    BY <1>1, <1>4, BeforeGrows
  <2> QED
    BY <1>1, <2>1
<1>6. \A c \in D : j + 2 <= c
  <2> TAKE c \in D
  <2>1. c \in Nat /\ j + 1 <= c /\ c # j + 1
    BY <1>2, <1>4
  <2> QED
    BY <1>1, <2>1
<1> QED
  BY <1>3, <1>5, <1>6 DEF Open, C, D

LEMMA OpenEnd ==
  ASSUME NEW text \in Seq(Chars), NEW lo \in 1..Len(text), NEW escapes \in BOOLEAN,
         NEW j \in Nat, j >= EndOf(text), Open(text, lo, escapes, j)
  PROVE  QuotedTo(text, lo, escapes) = EndOf(text)
<1> DEFINE D == Closers(text, lo, escapes)
<1>1. Len(text) \in Nat /\ EndOf(text) = Len(text) + 1
  BY LenProperties DEF EndOf
<1>2. D \in SUBSET (lo..Len(text)) /\ QuotedTo(text, lo, escapes) = Least({k + 1 : k \in D}, EndOf(text))
  BY QuotedToCloser
<1>3. \A c \in D : j <= c
  BY DEF Open
<1> HIDE DEF D
<1>4. D = {}
  <2>1. \A c \in D : FALSE
    BY <1>1, <1>2, <1>3
  <2> QED
    BY <2>1
<1>5. {k + 1 : k \in D} = {}
  BY <1>4
<1> QED
  BY <1>2, <1>5 DEF Least

(* As Reach, for offsets, which end at b: f goes on one or two offsets ahead. *)
GoesOn(f, R, b, v) ==
  \A j \in R : /\ j \in Nat /\ j <= b
               /\ \/ f[j] = v
                  \/ j + 1 \in R /\ f[j] = f[j + 1]
                  \/ j + 2 \in R /\ f[j] = f[j + 2]

LEMMA OffsetsReach ==
  ASSUME NEW R, NEW b \in Nat, NEW f, NEW v, GoesOn(f, R, b, v)
  PROVE  \A j \in R : f[j] = v
<1> DEFINE left == [j \in R |-> b - j]
<1>1. ASSUME NEW j \in R
      PROVE  /\ left[j] \in Nat
             /\ f[j] = v \/ \E n \in R : left[n] < left[j] /\ f[j] = f[n]
  <2>1. j \in Nat /\ j <= b /\ left[j] = b - j
    BY DEF GoesOn
  <2>2. \A n \in R : left[n] = b - n
    OBVIOUS
  <2> HIDE DEF left
  <2>3. CASE j + 1 \in R /\ f[j] = f[j + 1]
    BY <2>1, <2>2, <2>3
  <2>4. CASE j + 2 \in R /\ f[j] = f[j + 2]
    BY <2>1, <2>2, <2>4
  <2> QED
    BY <2>1, <2>3, <2>4 DEF GoesOn
<1> HIDE DEF left
<1>2. Onward(R, left, f, v)
  BY <1>1 DEF Onward
<1> QED
  BY <1>2, Reach

(* What the recursive functions that skip quoted text compute. *)
LEMMA QuoteEndDefined ==
  ASSUME sql \in Seq(Chars), NEW k \in 1..Len(sql)
  PROVE  \E end : /\ QuoteEnd(k) = end[k + 1]
                  /\ \A j \in k..EndOf(sql) :
                       end[j] = IF j = EndOf(sql) THEN j
                                ELSE IF sql[j] # sql[k] THEN end[j + 1]
                                ELSE IF Is(sql, j + 1, {sql[k]}) THEN end[j + 2]
                                ELSE j + 1
<1> DEFINE X == k..EndOf(sql)
           stop == {j \in X : j = EndOf(sql) \/ (sql[j] = sql[k] /\ ~Is(sql, j + 1, {sql[k]}))}
           left == [j \in X |-> EndOf(sql) + 1 - j]
           final == [j \in X |-> IF j = EndOf(sql) THEN j ELSE j + 1]
           next == [j \in X |-> IF sql[j] # sql[k] THEN j + 1 ELSE j + 2]
           F(f) ==
             [j \in X |->
                IF j = EndOf(sql) THEN j
                ELSE IF sql[j] # sql[k] THEN f[j + 1]
                ELSE IF Is(sql, j + 1, {sql[k]}) THEN f[j + 2]
                ELSE j + 1]
           end == CHOOSE f : f = F(f)
<1>1. QuoteEnd(k) = end[k + 1]
  BY DEF QuoteEnd
<1>2. EndOf(sql) \in Nat /\ k \in Nat
  BY LenProperties DEF EndOf
<1>3. ASSUME NEW j \in X, j \notin stop
      PROVE  next[j] \in X /\ left[next[j]] < left[j]
  <2>1. j + 1 <= EndOf(sql)
    BY <1>2, <1>3
  <2>2. \A S : Is(sql, j + 1, S) => j + 2 <= EndOf(sql)
    BY <1>2 DEF Is
  <2>3. next[j] \in X /\ j < next[j]
    BY <1>2, <1>3, <2>1, <2>2
  <2> QED
    BY <1>2, <2>3
<1>4. Jumps(X, left, stop, next)
  <2>1. left \in [X -> Nat]
    BY <1>2
  <2> QED
    BY <1>3, <2>1 DEF Jumps
<1>5. \A f : Follows(f, X, stop, final, next) <=> f = F(f)
  BY DEF Follows
<1> HIDE DEF F
<1>6. end = F(end)
  BY <1>4, <1>5, JumpsDefine
<1> HIDE DEF end
<1>7. \A j \in X : end[j] = IF j = EndOf(sql) THEN j
                           ELSE IF sql[j] # sql[k] THEN end[j + 1]
                           ELSE IF Is(sql, j + 1, {sql[k]}) THEN end[j + 2]
                           ELSE j + 1
  BY <1>6 DEF F
<1> QED
  BY <1>1, <1>7

LEMMA EscapeEndDefined ==
  ASSUME sql \in Seq(Chars), NEW k \in 1..Len(sql)
  PROVE  \E end : /\ EscapeEnd(k) = end[k + 1]
                  /\ \A j \in k..(EndOf(sql) + 1) :
                       end[j] = IF j >= EndOf(sql) THEN EndOf(sql)
                                ELSE IF sql[j] = "bs" THEN end[j + 2]
                                ELSE IF sql[j] # "'" THEN end[j + 1]
                                ELSE IF Is(sql, j + 1, {"'"}) THEN end[j + 2]
                                ELSE j + 1
<1> DEFINE X == k..(EndOf(sql) + 1)
           stop == {j \in X : j >= EndOf(sql) \/ (sql[j] = "'" /\ ~Is(sql, j + 1, {"'"}))}
           left == [j \in X |-> EndOf(sql) + 1 - j]
           final == [j \in X |-> IF j >= EndOf(sql) THEN EndOf(sql) ELSE j + 1]
           next == [j \in X |-> IF sql[j] \in {"bs", "'"} THEN j + 2 ELSE j + 1]
           F(f) ==
             [j \in X |->
                IF j >= EndOf(sql) THEN EndOf(sql)
                ELSE IF sql[j] = "bs" THEN f[j + 2]
                ELSE IF sql[j] # "'" THEN f[j + 1]
                ELSE IF Is(sql, j + 1, {"'"}) THEN f[j + 2]
                ELSE j + 1]
           end == CHOOSE f : f = F(f)
<1>1. EscapeEnd(k) = end[k + 1]
  BY DEF EscapeEnd
<1>2. EndOf(sql) \in Nat /\ k \in Nat
  BY LenProperties DEF EndOf
<1>3. ASSUME NEW j \in X, j \notin stop
      PROVE  next[j] \in X /\ left[next[j]] < left[j]
  <2>1. j + 1 <= EndOf(sql)
    BY <1>2, <1>3
  <2>2. next[j] \in X /\ j < next[j]
    BY <1>2, <1>3, <2>1
  <2> QED
    BY <1>2, <2>2
<1>4. Jumps(X, left, stop, next)
  <2>1. left \in [X -> Nat]
    BY <1>2
  <2> QED
    BY <1>3, <2>1 DEF Jumps
<1>5. \A f : Follows(f, X, stop, final, next) <=> f = F(f)
  BY DEF Follows
<1> HIDE DEF F
<1>6. end = F(end)
  BY <1>4, <1>5, JumpsDefine
<1> HIDE DEF end
<1>7. \A j \in X : end[j] = IF j >= EndOf(sql) THEN EndOf(sql)
                           ELSE IF sql[j] = "bs" THEN end[j + 2]
                           ELSE IF sql[j] # "'" THEN end[j + 1]
                           ELSE IF Is(sql, j + 1, {"'"}) THEN end[j + 2]
                           ELSE j + 1
  BY <1>6 DEF F
<1> QED
  BY <1>1, <1>7

(* The scan of a quoted region ends where the reader says the region does. *)
LEMMA QuoteEndMeets ==
  ASSUME sql \in Seq(Chars), NEW k \in 1..Len(sql)
  PROVE  QuoteEnd(k) = QuotedTo(sql, k, FALSE)
<1>1. PICK end : /\ QuoteEnd(k) = end[k + 1]
                 /\ \A j \in k..EndOf(sql) :
                      end[j] = IF j = EndOf(sql) THEN j
                               ELSE IF sql[j] # sql[k] THEN end[j + 1]
                               ELSE IF Is(sql, j + 1, {sql[k]}) THEN end[j + 2]
                               ELSE j + 1
  BY QuoteEndDefined
<1>2. Len(sql) \in Nat /\ EndOf(sql) = Len(sql) + 1 /\ k \in Nat /\ k <= Len(sql)
  BY LenProperties DEF EndOf
<1> DEFINE R == {j \in (k + 1)..EndOf(sql) : Open(sql, k, FALSE, j)}
           to == QuotedTo(sql, k, FALSE)
<1>3. \A j \in k..Len(sql) : j \in Counts(sql, k, FALSE) <=> sql[j] = sql[k]
  BY DEF Counts
<1>4. ASSUME NEW j \in Nat, k + 1 <= j, j <= EndOf(sql), Open(sql, k, FALSE, j)
      PROVE  \/ end[j] = to
             \/ j + 1 <= EndOf(sql) /\ Open(sql, k, FALSE, j + 1) /\ end[j] = end[j + 1]
             \/ j + 2 <= EndOf(sql) /\ Open(sql, k, FALSE, j + 2) /\ end[j] = end[j + 2]
  <2>1. end[j] = IF j = EndOf(sql) THEN j
                 ELSE IF sql[j] # sql[k] THEN end[j + 1]
                 ELSE IF Is(sql, j + 1, {sql[k]}) THEN end[j + 2]
                 ELSE j + 1
    <3>1. j \in k..EndOf(sql)
      BY <1>2, <1>4
    <3> QED
      BY <1>1, <3>1
  <2>2. CASE j = EndOf(sql)
    <3>1. to = EndOf(sql)
      BY <1>4, <2>2, OpenEnd
    <3> QED
      BY <2>1, <2>2, <3>1
  <2>3. CASE j # EndOf(sql)
    <3>1. j \in k..Len(sql) /\ j \in (k + 1)..Len(sql) /\ j + 1 <= EndOf(sql)
      BY <1>2, <1>4, <2>3
    <3>2. CASE sql[j] # sql[k]
      <4>1. Open(sql, k, FALSE, j + 1)
        BY <1>3, <1>4, <3>1, <3>2, OpenNext
      <4> QED
        BY <2>1, <2>3, <3>1, <3>2, <4>1
    <3>3. CASE sql[j] = sql[k] /\ Is(sql, j + 1, {sql[k]})
      <4>1. j + 2 <= EndOf(sql) /\ j + 1 \in k..Len(sql) /\ sql[j + 1] = sql[k]
        BY <1>2, <1>4, <3>3 DEF Is
      <4>2. Open(sql, k, FALSE, j + 2)
        BY <1>3, <1>4, <3>1, <3>3, <4>1, OpenNext
      <4> QED
        BY <2>1, <2>3, <3>3, <4>1, <4>2
    <3>4. CASE sql[j] = sql[k] /\ ~Is(sql, j + 1, {sql[k]})
      <4>1. to = j + 1
        BY <1>3, <1>4, <3>1, <3>4, OpenNext
      <4> QED
        BY <2>1, <2>3, <3>4, <4>1
    <3> QED
      BY <3>2, <3>3, <3>4
  <2> QED
    BY <2>2, <2>3
<1> HIDE DEF to
<1>5. GoesOn(end, R, EndOf(sql), to)
  <2>1. \A j \in R : j \in Nat /\ k + 1 <= j /\ j <= EndOf(sql) /\ Open(sql, k, FALSE, j)
    <3>1. \A j \in (k + 1)..EndOf(sql) : j \in Nat /\ k + 1 <= j /\ j <= EndOf(sql)
      BY <1>2
    <3>2. \A j \in R : j \in (k + 1)..EndOf(sql) /\ Open(sql, k, FALSE, j)
      OBVIOUS
    <3> QED
      BY <3>1, <3>2
  <2>2. ASSUME NEW j \in Nat, k + 1 <= j, j <= EndOf(sql), Open(sql, k, FALSE, j)
        PROVE  j \in R
    <3>1. j \in (k + 1)..EndOf(sql)
      BY <1>2, <2>2
    <3> QED
      BY <2>2, <3>1
  <2> HIDE DEF R
  <2>3. ASSUME NEW j \in R
        PROVE  \/ end[j] = to
               \/ j + 1 \in R /\ end[j] = end[j + 1]
               \/ j + 2 \in R /\ end[j] = end[j + 2]
    <3>1. j \in Nat /\ k + 1 <= j /\ j <= EndOf(sql) /\ Open(sql, k, FALSE, j)
      BY <2>1
    <3>2. j + 1 \in Nat /\ j + 2 \in Nat /\ k + 1 <= j + 1 /\ k + 1 <= j + 2
      BY <1>2, <3>1
    <3> QED
      BY <1>4, <2>2, <3>1, <3>2
  <2> QED
    BY <2>1, <2>3 DEF GoesOn
<1>6. k + 1 \in R
  <2>1. k + 1 \in (k + 1)..EndOf(sql)
    BY <1>2
  <2> QED
    BY <2>1, OpenFirst
<1> HIDE DEF R
<1>7. EndOf(sql) \in Nat
  BY <1>2
<1>8. end[k + 1] = to
  <2>1. \A j \in R : end[j] = to
    BY <1>5, <1>7, OffsetsReach
  <2> QED
    BY <1>6, <2>1
<1> QED
  BY <1>1, <1>8 DEF to

LEMMA EscapeEndMeets ==
  ASSUME sql \in Seq(Chars), NEW k \in 1..Len(sql), sql[k] = "'"
  PROVE  EscapeEnd(k) = QuotedTo(sql, k, TRUE)
<1>1. PICK end : /\ EscapeEnd(k) = end[k + 1]
                 /\ \A j \in k..(EndOf(sql) + 1) :
                      end[j] = IF j >= EndOf(sql) THEN EndOf(sql)
                               ELSE IF sql[j] = "bs" THEN end[j + 2]
                               ELSE IF sql[j] # "'" THEN end[j + 1]
                               ELSE IF Is(sql, j + 1, {"'"}) THEN end[j + 2]
                               ELSE j + 1
  BY EscapeEndDefined
<1>2. Len(sql) \in Nat /\ EndOf(sql) = Len(sql) + 1 /\ k \in Nat /\ k <= Len(sql)
  BY LenProperties DEF EndOf
<1> DEFINE free(j) == j <= Len(sql) => ~Backslashed(sql, k, j)
           R == {j \in (k + 1)..(EndOf(sql) + 1) : Open(sql, k, TRUE, j) /\ free(j)}
           to == QuotedTo(sql, k, TRUE)
<1>3. \A j \in k..Len(sql) :
        j \in Counts(sql, k, TRUE) <=> sql[j] = "'" /\ ~Backslashed(sql, k, j)
  BY DEF Counts
<1>4. ASSUME NEW j \in Nat, k + 1 <= j, j <= EndOf(sql) + 1, Open(sql, k, TRUE, j), free(j)
      PROVE  \/ end[j] = to
             \/ /\ j + 1 <= EndOf(sql) + 1 /\ Open(sql, k, TRUE, j + 1) /\ free(j + 1)
                /\ end[j] = end[j + 1]
             \/ /\ j + 2 <= EndOf(sql) + 1 /\ Open(sql, k, TRUE, j + 2) /\ free(j + 2)
                /\ end[j] = end[j + 2]
  <2>1. end[j] = IF j >= EndOf(sql) THEN EndOf(sql)
                 ELSE IF sql[j] = "bs" THEN end[j + 2]
                 ELSE IF sql[j] # "'" THEN end[j + 1]
                 ELSE IF Is(sql, j + 1, {"'"}) THEN end[j + 2]
                 ELSE j + 1
    <3>1. j \in k..(EndOf(sql) + 1)
      BY <1>2, <1>4
    <3> QED
      BY <1>1, <3>1
  <2>2. CASE j >= EndOf(sql)
    <3>1. to = EndOf(sql)
      BY <1>4, <2>2, OpenEnd
    <3> QED
      BY <2>1, <2>2, <3>1
  <2>3. CASE ~(j >= EndOf(sql))
    <3>1. /\ j \in k..Len(sql) /\ j \in (k + 1)..Len(sql) /\ j <= Len(sql)
          /\ j + 1 <= EndOf(sql) + 1 /\ j + 2 <= EndOf(sql) + 1
          /\ j + 1 \in Nat /\ (j + 1) + 1 = j + 2
      BY <1>2, <1>4, <2>3
    <3>2. ~Backslashed(sql, k, j)
      BY <1>4, <3>1
    <3>3. Backslashed(sql, k, j + 1) <=> sql[j] = "bs"
      <4>1. k <= j
        BY <1>2, <1>4
      <4> QED
        BY <1>2, <1>4, <3>2, <4>1, BackslashNext
    <3>4. Backslashed(sql, k, j + 2) <=> sql[j + 1] = "bs" /\ ~Backslashed(sql, k, j + 1)
      <4>1. k <= j + 1
        BY <1>2, <1>4
      <4>2. Backslashed(sql, k, (j + 1) + 1)
              <=> sql[j + 1] = "bs" /\ ~Backslashed(sql, k, j + 1)
        BY <1>2, <3>1, <4>1, BackslashNext
      <4> QED
        BY <3>1, <4>2
    <3>5. CASE sql[j] = "bs"
      <4>1. Open(sql, k, TRUE, j + 1)
        <5>1. j \notin Counts(sql, k, TRUE)
          BY <1>3, <3>1, <3>5
        <5> QED
          BY <1>4, <3>1, <5>1, OpenNext
      <4>2. Open(sql, k, TRUE, j + 2)
        <5>1. j + 1 \notin Counts(sql, k, TRUE)
          <6>1. CASE j + 1 \in k..Len(sql)
            BY <1>3, <3>3, <3>5, <6>1
          <6>2. CASE j + 1 \notin k..Len(sql)
            BY <6>2 DEF Counts
          <6> QED
            BY <6>1, <6>2
        <5> QED
          BY <3>1, <4>1, <5>1, OpenOver
      <4>3. free(j + 2)
        BY <3>3, <3>4, <3>5
      <4> QED
        BY <2>1, <2>3, <3>1, <3>5, <4>2, <4>3
    <3>6. CASE sql[j] \notin {"bs", "'"}
      <4>1. Open(sql, k, TRUE, j + 1)
        <5>1. j \notin Counts(sql, k, TRUE)
          BY <1>3, <3>1, <3>6
        <5> QED
          BY <1>4, <3>1, <5>1, OpenNext
      <4>2. free(j + 1)
        BY <3>3, <3>6
      <4> QED
        BY <2>1, <2>3, <3>1, <3>6, <4>1, <4>2
    <3>7. CASE sql[j] = "'" /\ Is(sql, j + 1, {"'"})
      <4>1. j + 1 \in k..Len(sql) /\ sql[j + 1] = "'"
        BY <1>2, <1>4, <3>7 DEF Is
      <4>2. j \in Counts(sql, k, TRUE) /\ j + 1 \in Counts(sql, k, TRUE)
        BY <1>3, <3>1, <3>2, <3>3, <3>7, <4>1
      <4>3. Open(sql, k, TRUE, j + 2)
        BY <1>4, <3>1, <4>2, OpenNext
      <4>4. free(j + 2)
        BY <3>4, <4>1
      <4> QED
        BY <2>1, <2>3, <3>1, <3>7, <4>3, <4>4
    <3>8. CASE sql[j] = "'" /\ ~Is(sql, j + 1, {"'"})
      <4>1. to = j + 1
        <5>1. j \in Counts(sql, k, TRUE)
          BY <1>3, <3>1, <3>2, <3>8
        <5> QED
          BY <1>4, <3>1, <3>8, <5>1, OpenNext
      <4> QED
        BY <2>1, <2>3, <3>8, <4>1
    <3> QED
      BY <3>5, <3>6, <3>7, <3>8
  <2> QED
    BY <2>2, <2>3
<1> HIDE DEF to, free
<1>5. GoesOn(end, R, EndOf(sql) + 1, to)
  <2>1. \A j \in R : /\ j \in Nat /\ k + 1 <= j /\ j <= EndOf(sql) + 1
                     /\ Open(sql, k, TRUE, j) /\ free(j)
    <3>1. \A j \in (k + 1)..(EndOf(sql) + 1) : j \in Nat /\ k + 1 <= j /\ j <= EndOf(sql) + 1
      BY <1>2
    <3>2. \A j \in R : j \in (k + 1)..(EndOf(sql) + 1) /\ Open(sql, k, TRUE, j) /\ free(j)
      OBVIOUS
    <3> QED
      BY <3>1, <3>2
  <2>2. ASSUME NEW j \in Nat, k + 1 <= j, j <= EndOf(sql) + 1, Open(sql, k, TRUE, j), free(j)
        PROVE  j \in R
    <3>1. j \in (k + 1)..(EndOf(sql) + 1)
      BY <1>2, <2>2
    <3> QED
      BY <2>2, <3>1
  <2> HIDE DEF R
  <2>3. ASSUME NEW j \in R
        PROVE  \/ end[j] = to
               \/ j + 1 \in R /\ end[j] = end[j + 1]
               \/ j + 2 \in R /\ end[j] = end[j + 2]
    <3>1. j \in Nat /\ k + 1 <= j /\ j <= EndOf(sql) + 1 /\ Open(sql, k, TRUE, j) /\ free(j)
      BY <2>1
    <3>2. j + 1 \in Nat /\ j + 2 \in Nat /\ k + 1 <= j + 1 /\ k + 1 <= j + 2
      BY <1>2, <3>1
    <3> QED
      BY <1>4, <2>2, <3>1, <3>2
  <2> QED
    BY <2>1, <2>3 DEF GoesOn
<1>6. k + 1 \in R
  <2>1. k + 1 \in (k + 1)..(EndOf(sql) + 1)
    BY <1>2
  <2>2. free(k + 1)
    <3>1. sql[k] # "bs" /\ k <= k
      BY <1>2
    <3>2. ~Backslashed(sql, k, k + 1)
      BY <1>2, <3>1, BackslashNext
    <3> QED
      BY <3>2 DEF free
  <2>3. Open(sql, k, TRUE, k + 1)
    BY OpenFirst
  <2> HIDE DEF free
  <2> QED
    BY <2>1, <2>2, <2>3, Zenon
<1> HIDE DEF R
<1>7. EndOf(sql) + 1 \in Nat
  BY <1>2
<1>8. end[k + 1] = to
  <2>1. \A j \in R : end[j] = to
    BY <1>5, <1>7, OffsetsReach
  <2> QED
    BY <1>6, <2>1
<1> QED
  BY <1>1, <1>8 DEF to

-----------------------------------------------------------------------------
(* Comments. *)

(* What the reader counts in a comment, one character at a time. *)
Nests(text, lo, after) ==
  /\ after[lo - 1] = <<0, "used">>
  /\ \A k \in lo..Len(text) :
       after[k] = IF after[k - 1][2] = "/" /\ text[k] = "*" THEN <<after[k - 1][1] + 1, "used">>
                  ELSE IF after[k - 1][2] = "*" /\ text[k] = "/" THEN <<after[k - 1][1] - 1, "used">>
                  ELSE <<after[k - 1][1], text[k]>>

LEMMA CommentToDefined ==
  ASSUME NEW text \in Seq(Chars), NEW lo \in 1..Len(text)
  PROVE  \E after :
           /\ Nests(text, lo, after)
           /\ CommentTo(text, lo)
                = Least({k + 1 : k \in {k \in (lo + 2)..Len(text) : after[k][1] = 0}}, EndOf(text))
<1> DEFINE C == Chars \cup {"used"}
           V == Int \X C
           rest(k, before) ==
             CASE before[2] = "/" /\ text[k] = "*" -> <<before[1] + 1, "used">>
               [] before[2] = "*" /\ text[k] = "/" -> <<before[1] - 1, "used">>
               [] OTHER -> <<before[1], text[k]>>
           F(f) == [k \in (lo - 1)..Len(text) |->
                      IF k < lo THEN <<0, "used">> ELSE rest(k, f[k - 1])]
           step == [k \in ((lo - 1) + 1)..Len(text) |-> [before \in V |-> rest(k, before)]]
           after == CHOOSE f : f = F(f)
<1>1. CommentTo(text, lo)
        = Least({k + 1 : k \in {k \in (lo + 2)..Len(text) : after[k][1] = 0}}, EndOf(text))
  BY DEF CommentTo
<1>2. Len(text) \in Nat /\ lo \in Nat /\ lo - 1 \in Nat /\ lo - 1 <= Len(text) /\ (lo - 1) + 1 = lo
  BY LenProperties
<1>3. \A k \in lo..Len(text) : text[k] \in Chars
  BY <1>2, ElementOfSeq
<1>4. ASSUME NEW k \in lo..Len(text), NEW before
      PROVE  rest(k, before) =
               IF before[2] = "/" /\ text[k] = "*" THEN <<before[1] + 1, "used">>
               ELSE IF before[2] = "*" /\ text[k] = "/" THEN <<before[1] - 1, "used">>
               ELSE <<before[1], text[k]>>
  OBVIOUS
<1> HIDE DEF rest
<1>5. ASSUME NEW k \in lo..Len(text), NEW before \in V
      PROVE  rest(k, before) \in V
  <2>0. "used" \in C /\ text[k] \in C
    BY <1>3
  <2> HIDE DEF C
  <2>1. PICK n \in Int, c \in C : before = <<n, c>>
    BY <1>5
  <2>2. before[1] = n /\ before[2] = c /\ n + 1 \in Int /\ n - 1 \in Int
    BY <2>1
  <2> QED
    BY <1>4, <2>0, <2>2
<1>6. step \in [((lo - 1) + 1)..Len(text) -> [V -> V]]
  BY <1>2, <1>5
<1>7. <<0, "used">> \in V
  OBVIOUS
<1> HIDE DEF V
<1>8. PICK f \in [(lo - 1)..Len(text) -> V] : StepsTo(f, lo - 1, Len(text), <<0, "used">>, step)
  <2> HIDE DEF step
  <2> QED
    BY <1>2, <1>6, <1>7, StepsDefine
<1>9. f = F(f)
  <2>1. ASSUME NEW k \in (lo - 1)..Len(text)
        PROVE  f[k] = IF k < lo THEN <<0, "used">> ELSE rest(k, f[k - 1])
    <3>1. f[k] = IF k = lo - 1 THEN <<0, "used">> ELSE step[k][f[k - 1]]
      BY <1>8 DEF StepsTo
    <3>2. CASE k = lo - 1
      BY <1>2, <3>1, <3>2
    <3>3. CASE k # lo - 1
      <4>1. k \in ((lo - 1) + 1)..Len(text) /\ k - 1 \in (lo - 1)..Len(text) /\ ~(k < lo)
        BY <1>2, <3>3
      <4>2. f[k - 1] \in V
        BY <1>8, <4>1
      <4> QED
        BY <3>1, <3>3, <4>1, <4>2
    <3> QED
      BY <3>2, <3>3
  <2> QED
    BY <1>8, <2>1
<1> HIDE DEF F
<1>10. after = F(after)
  BY <1>9
<1> HIDE DEF after
<1>11. \A k \in (lo - 1)..Len(text) :
         after[k] = IF k < lo THEN <<0, "used">> ELSE rest(k, after[k - 1])
  BY <1>10 DEF F
<1>12. after[lo - 1] = <<0, "used">>
  <2>1. lo - 1 \in (lo - 1)..Len(text) /\ lo - 1 < lo
    BY <1>2
  <2> QED
    BY <1>11, <2>1
<1>13. \A k \in lo..Len(text) : after[k] = rest(k, after[k - 1])
  <2> TAKE k \in lo..Len(text)
  <2>1. k \in (lo - 1)..Len(text) /\ ~(k < lo)
    BY <1>2
  <2> QED
    BY <1>11, <2>1
<1>14. Nests(text, lo, after)
  BY <1>4, <1>12, <1>13 DEF Nests
<1> QED
  BY <1>1, <1>14

LEMMA CommentEndDefined ==
  ASSUME sql \in Seq(Chars), NEW k \in 1..Len(sql)
  PROVE  \E end :
           /\ CommentEnd(k) = end[<<k + 2, 1>>]
           /\ \A j \in k..EndOf(sql), depth \in Nat :
                end[<<j, depth>>] =
                  IF j = EndOf(sql) \/ depth = 0 THEN j
                  ELSE IF Pair(sql, j, "/", "*") THEN end[<<j + 2, depth + 1>>]
                  ELSE IF Pair(sql, j, "*", "/") THEN end[<<j + 2, depth - 1>>]
                  ELSE end[<<j + 1, depth>>]
<1> DEFINE X == (k..EndOf(sql)) \X Nat
           stop == {x \in X : x[1] = EndOf(sql) \/ x[2] = 0}
           left == [x \in X |-> EndOf(sql) - x[1]]
           final == [x \in X |-> x[1]]
           next == [x \in X |-> IF Pair(sql, x[1], "/", "*") THEN <<x[1] + 2, x[2] + 1>>
                                 ELSE IF Pair(sql, x[1], "*", "/") THEN <<x[1] + 2, x[2] - 1>>
                                 ELSE <<x[1] + 1, x[2]>>]
           F(f) ==
             [x \in X |->
                LET j == x[1]  depth == x[2] IN
                IF j = EndOf(sql) \/ depth = 0 THEN j
                ELSE IF Pair(sql, j, "/", "*") THEN f[<<j + 2, depth + 1>>]
                ELSE IF Pair(sql, j, "*", "/") THEN f[<<j + 2, depth - 1>>]
                ELSE f[<<j + 1, depth>>]]
           end == CHOOSE f : f = F(f)
<1>1. CommentEnd(k) = end[<<k + 2, 1>>]
  BY DEF CommentEnd
<1>2. EndOf(sql) \in Nat
  BY LenProperties DEF EndOf
<1>3. ASSUME NEW x \in X, x \notin stop
      PROVE  next[x] \in X /\ left[next[x]] < left[x]
  <2>1. PICK j \in k..EndOf(sql), depth \in Nat : x = <<j, depth>>
    OBVIOUS
  <2>2. x[1] = j /\ x[2] = depth /\ j \in Nat /\ j + 1 <= EndOf(sql) /\ depth - 1 \in Nat
    BY <1>2, <1>3, <2>1
  <2>3. ASSUME NEW m \in Nat, NEW n \in Nat, j < m, m <= EndOf(sql)
        PROVE  <<m, n>> \in X /\ left[<<m, n>>] < left[x]
    <3>1. m \in k..EndOf(sql)
      BY <1>2, <2>1, <2>3
    <3>2. <<m, n>> \in X /\ <<m, n>>[1] = m
      BY <3>1
    <3>3. left[<<m, n>>] = EndOf(sql) - m /\ left[x] = EndOf(sql) - j
      BY <2>2, <3>2
    <3> QED
      BY <1>2, <2>2, <2>3, <3>2, <3>3
  <2>4. \A c, d : Pair(sql, j, c, d) => j + 2 <= EndOf(sql)
    BY <1>2, <2>2 DEF Pair, Is
  <2>5. next[x] = IF Pair(sql, j, "/", "*") THEN <<j + 2, depth + 1>>
                  ELSE IF Pair(sql, j, "*", "/") THEN <<j + 2, depth - 1>>
                  ELSE <<j + 1, depth>>
    BY <2>2
  <2> HIDE DEF X, left, next
  <2>6. CASE Pair(sql, j, "/", "*")
    BY <2>2, <2>3, <2>4, <2>5, <2>6
  <2>7. CASE ~Pair(sql, j, "/", "*") /\ Pair(sql, j, "*", "/")
    BY <2>2, <2>3, <2>4, <2>5, <2>7
  <2>8. CASE ~Pair(sql, j, "/", "*") /\ ~Pair(sql, j, "*", "/")
    BY <2>2, <2>3, <2>5, <2>8
  <2> QED
    BY <2>6, <2>7, <2>8
<1>4. Jumps(X, left, stop, next)
  <2>1. left \in [X -> Nat]
    BY <1>2
  <2> QED
    BY <1>3, <2>1 DEF Jumps
<1>5. \A f : Follows(f, X, stop, final, next) <=> f = F(f)
  BY DEF Follows
<1> HIDE DEF F
<1>6. end = F(end)
  BY <1>4, <1>5, JumpsDefine
<1> HIDE DEF end
<1>7. ASSUME NEW j \in k..EndOf(sql), NEW depth \in Nat
      PROVE  end[<<j, depth>>] =
               IF j = EndOf(sql) \/ depth = 0 THEN j
               ELSE IF Pair(sql, j, "/", "*") THEN end[<<j + 2, depth + 1>>]
               ELSE IF Pair(sql, j, "*", "/") THEN end[<<j + 2, depth - 1>>]
               ELSE end[<<j + 1, depth>>]
  <2>1. <<j, depth>> \in X /\ <<j, depth>>[1] = j /\ <<j, depth>>[2] = depth
    OBVIOUS
  <2>2. end[<<j, depth>>] = F(end)[<<j, depth>>]
    BY <1>6
  <2> HIDE DEF X
  <2> QED
    BY <2>1, <2>2 DEF F
<1> QED
  BY <1>1, <1>7

(* The scan of a comment ends where the reader says that all of them are closed:
   behind a bracket, or at the end of the text. *)
LEMMA CommentEndMeets ==
  ASSUME sql \in Seq(Chars), NEW k \in 1..Len(sql), Pair(sql, k, "/", "*")
  PROVE  /\ CommentEnd(k) = CommentTo(sql, k)
         /\ CommentTo(sql, k) \in (k + 2)..EndOf(sql)
         /\ CommentTo(sql, k) < EndOf(sql) => sql[CommentTo(sql, k) - 1] = "/"
<1>1. PICK after :
        /\ Nests(sql, k, after)
        /\ CommentTo(sql, k)
             = Least({m + 1 : m \in {m \in (k + 2)..Len(sql) : after[m][1] = 0}}, EndOf(sql))
  BY CommentToDefined
<1>2. PICK end :
        /\ CommentEnd(k) = end[<<k + 2, 1>>]
        /\ \A j \in k..EndOf(sql), depth \in Nat :
             end[<<j, depth>>] =
               IF j = EndOf(sql) \/ depth = 0 THEN j
               ELSE IF Pair(sql, j, "/", "*") THEN end[<<j + 2, depth + 1>>]
               ELSE IF Pair(sql, j, "*", "/") THEN end[<<j + 2, depth - 1>>]
               ELSE end[<<j + 1, depth>>]
  BY CommentEndDefined
<1>3. /\ Len(sql) \in Nat /\ EndOf(sql) = Len(sql) + 1 /\ EndOf(sql) \in Nat
      /\ k \in Nat /\ k + 2 <= EndOf(sql) /\ sql[k] = "/" /\ sql[k + 1] = "*"
  BY LenProperties DEF EndOf, Pair, Is
<1>4. \A j \in k..Len(sql) :
        after[j] = IF after[j - 1][2] = "/" /\ sql[j] = "*" THEN <<after[j - 1][1] + 1, "used">>
                   ELSE IF after[j - 1][2] = "*" /\ sql[j] = "/" THEN <<after[j - 1][1] - 1, "used">>
                   ELSE <<after[j - 1][1], sql[j]>>
  BY <1>1 DEF Nests
<1>5. after[k + 1] = <<1, "used">>
  <2>1. k \in k..Len(sql) /\ k + 1 \in k..Len(sql) /\ (k + 1) - 1 = k
    BY <1>3
  <2>2. after[k - 1] = <<0, "used">>
    BY <1>1 DEF Nests
  <2>3. after[k - 1][1] = 0 /\ after[k - 1][2] = "used"
    BY <2>2
  <2>4. after[k] = <<0, "/">>
    BY <1>3, <1>4, <2>1, <2>3
  <2>5. after[(k + 1) - 1][1] = 0 /\ after[(k + 1) - 1][2] = "/"
    BY <2>1, <2>4
  <2>6. after[k + 1] = <<0 + 1, "used">>
    BY <1>3, <1>4, <2>1, <2>5
  <2> QED
    BY <2>6
<1> DEFINE Z == {z \in (k + 2)..Len(sql) : after[z][1] = 0}
           ends == {z + 1 : z \in Z}
           to == Least(ends, EndOf(sql))
           done == to < EndOf(sql) => sql[to - 1] = "/"
           inside(j, d) ==
             /\ after[j - 1][1] = d
             /\ j <= Len(sql) => after[j] = <<d, sql[j]>>
             /\ \A z \in Z : j - 1 <= z
             /\ d = 0 => sql[j - 1] = "/" /\ k + 2 <= j - 1
<1>6. CommentTo(sql, k) = to
  BY <1>1
<1>7. \A z \in Z : z \in Nat /\ k + 2 <= z /\ z <= Len(sql) /\ after[z][1] = 0
  BY <1>3
<1>8. \A z \in Nat : k + 2 <= z /\ z <= Len(sql) /\ after[z][1] = 0 => z \in Z
  BY <1>3
<1>9. ends \subseteq Nat
  BY <1>7
<1>10. \A e \in ends : e - 1 \in Z /\ e = (e - 1) + 1
  BY <1>7
<1> HIDE DEF Z
<1>11. \A z \in Z : z + 1 \in ends
  OBVIOUS
<1> HIDE DEF ends
<1>12. ASSUME NEW j \in Nat, k + 2 <= j, j <= EndOf(sql), NEW d \in Nat, inside(j, d),
              d = 0 \/ j = EndOf(sql)
       PROVE  to = j /\ done
  <2>1. CASE d = 0
    <3>1. j - 1 \in Z
      <4>1. j - 1 \in Nat /\ k + 2 <= j - 1 /\ j - 1 <= Len(sql)
        BY <1>3, <1>12, <2>1
      <4> QED
        BY <1>8, <1>12, <2>1, <4>1
    <3>2. j \in ends /\ \A e \in ends : j <= e
      <4>1. (j - 1) + 1 = j
        BY <1>12
      <4>2. \A e \in ends : j - 1 <= e - 1 /\ e \in Nat
        BY <1>9, <1>10, <1>12
      <4>3. \A e \in ends : j <= e
        <5> TAKE e \in ends
        <5>1. j - 1 <= e - 1 /\ e \in Nat
          BY <4>2
        <5> QED
          BY <1>12, <5>1
      <4>4. j \in ends
        BY <1>11, <3>1, <4>1
      <4> QED
        BY <4>3, <4>4
    <3>3. to = j
      <4>1. \A d0 : \A m \in ends : (\A n \in ends : m <= n) => Least(ends, d0) = m
        BY <1>9, LeastIs
      <4> QED
        BY <3>2, <4>1
    <3> QED
      BY <1>12, <2>1, <3>3
  <2>2. CASE d # 0
    <3>1. j = Len(sql) + 1
      BY <1>3, <1>12, <2>2
    <3>2. Z = {}
      <4>1. ASSUME NEW z \in Z
            PROVE  FALSE
        <5>1. j - 1 <= z /\ z \in Nat /\ z <= Len(sql) /\ after[z][1] = 0
          BY <1>7, <1>12
        <5>2. z = j - 1
          BY <1>3, <3>1, <5>1
        <5> QED
          BY <1>12, <2>2, <5>1, <5>2
      <4> QED
        BY <4>1
    <3>3. ends = {}
      BY <3>2 DEF ends
    <3>4. to = EndOf(sql)
      BY <3>3 DEF Least
    <3> QED
      BY <1>3, <3>1, <3>4
  <2> QED
    BY <2>1, <2>2
<1> HIDE DEF to
<1>13. ASSUME NEW j \in Nat, k + 2 <= j, j <= Len(sql), NEW d \in Nat, inside(j, d), d # 0,
              NEW m \in {j + 1, j + 2}, NEW n \in Nat,
              m = j + 2 => j + 1 <= Len(sql),
              after[m - 1][1] = n, m <= Len(sql) => after[m] = <<n, sql[m]>>,
              n = 0 => m = j + 2 /\ sql[j + 1] = "/"
       PROVE  inside(m, n)
  <2>1. \A z \in Z : m - 1 <= z
    <3> TAKE z \in Z
    <3>1. z \in Nat /\ j - 1 <= z /\ after[z][1] = 0
      BY <1>7, <1>13
    <3>2. z # j - 1
      BY <1>13, <3>1
    <3>3. z # j
      <4>1. after[j] = <<d, sql[j]>>
        BY <1>13
      <4>2. after[j][1] = d
        BY <4>1
      <4> QED
        BY <1>13, <3>1, <4>2
    <3> QED
      BY <1>13, <3>1, <3>2, <3>3
  <2>2. n = 0 => sql[m - 1] = "/" /\ k + 2 <= m - 1
    <3>1. m = j + 2 => m - 1 = j + 1
      BY <1>13
    <3> QED
      BY <1>3, <1>13, <3>1
  <2> QED
    BY <1>13, <2>1, <2>2
<1>14. ASSUME NEW j \in Nat, k + 2 <= j, j <= Len(sql), NEW d \in Nat, inside(j, d), d # 0
       PROVE  \E m \in {j + 1, j + 2}, n \in Nat :
                /\ m <= EndOf(sql) /\ inside(m, n)
                /\ end[<<j, d>>] = end[<<m, n>>]
  <2>1. end[<<j, d>>] =
          IF Pair(sql, j, "/", "*") THEN end[<<j + 2, d + 1>>]
          ELSE IF Pair(sql, j, "*", "/") THEN end[<<j + 2, d - 1>>]
          ELSE end[<<j + 1, d>>]
    <3>1. j \in k..EndOf(sql) /\ j # EndOf(sql)
      BY <1>3, <1>14
    <3> QED
      BY <1>2, <1>14, <3>1
  <2>2. after[j] = <<d, sql[j]>>
    BY <1>14
  <2>3. \A x, y : Pair(sql, j, x, y) <=> sql[j] = x /\ j + 1 <= Len(sql) /\ sql[j + 1] = y
    BY <1>3, <1>14 DEF Pair, Is
  <2>4. /\ (j + 1) - 1 = j /\ (j + 2) - 1 = j + 1
        /\ j + 1 \in Nat /\ j + 2 \in Nat /\ d + 1 \in Nat /\ d - 1 \in Nat /\ d + 1 # 0
    BY <1>14
  <2>5. \A x \in Nat : k <= x /\ x <= Len(sql) => x \in k..Len(sql)
    BY <1>3
  <2>6. k <= j + 1 /\ k <= j + 2
    BY <1>3, <1>14
  <2>7. ASSUME j + 1 <= Len(sql)
        PROVE  after[j + 1] = IF sql[j] = "/" /\ sql[j + 1] = "*" THEN <<d + 1, "used">>
                              ELSE IF sql[j] = "*" /\ sql[j + 1] = "/" THEN <<d - 1, "used">>
                              ELSE <<d, sql[j + 1]>>
    <3>1. j + 1 \in k..Len(sql)
      BY <2>4, <2>5, <2>6, <2>7
    <3>2. after[(j + 1) - 1][1] = d /\ after[(j + 1) - 1][2] = sql[j]
      BY <2>2, <2>4
    <3> QED
      BY <1>4, <3>1, <3>2
  <2>8. ASSUME NEW n \in Nat, j + 1 <= Len(sql), after[j + 1] = <<n, "used">>
        PROVE  after[(j + 2) - 1][1] = n /\ (j + 2 <= Len(sql) => after[j + 2] = <<n, sql[j + 2]>>)
    <3>1. after[(j + 2) - 1][1] = n /\ after[(j + 2) - 1][2] = "used"
      BY <2>4, <2>8
    <3>2. j + 2 <= Len(sql) => j + 2 \in k..Len(sql)
      BY <2>4, <2>5, <2>6
    <3> QED
      BY <1>4, <3>1, <3>2
  <2>9. CASE Pair(sql, j, "/", "*")
    <3>1. j + 1 <= Len(sql) /\ after[j + 1] = <<d + 1, "used">>
      BY <2>3, <2>7, <2>9
    <3>2. inside(j + 2, d + 1)
      BY <1>13, <1>14, <2>4, <2>8, <3>1
    <3>3. j + 2 <= EndOf(sql)
      BY <1>3, <1>14, <3>1
    <3> HIDE DEF inside
    <3> QED
      BY <2>1, <2>4, <2>9, <3>2, <3>3
  <2>10. CASE Pair(sql, j, "*", "/")
    <3>1. j + 1 <= Len(sql) /\ after[j + 1] = <<d - 1, "used">> /\ sql[j + 1] = "/"
          /\ ~Pair(sql, j, "/", "*")
      BY <2>3, <2>7, <2>10
    <3>2. inside(j + 2, d - 1)
      <4>1. /\ after[(j + 2) - 1][1] = d - 1
            /\ j + 2 <= Len(sql) => after[j + 2] = <<d - 1, sql[j + 2]>>
        BY <2>4, <2>8, <3>1
      <4> QED
        BY <1>13, <1>14, <2>4, <3>1, <4>1
    <3>3. j + 2 <= EndOf(sql)
      BY <1>3, <1>14, <3>1
    <3> HIDE DEF inside
    <3> QED
      BY <2>1, <2>4, <2>10, <3>1, <3>2, <3>3
  <2>11. CASE ~Pair(sql, j, "/", "*") /\ ~Pair(sql, j, "*", "/")
    <3>1. after[(j + 1) - 1][1] = d
      BY <2>2, <2>4
    <3>2. j + 1 <= Len(sql) => after[j + 1] = <<d, sql[j + 1]>>
      BY <2>3, <2>7, <2>11
    <3>3. j + 1 # j + 2
      BY <1>14
    <3>4. inside(j + 1, d)
      BY <1>13, <1>14, <3>1, <3>2, <3>3
    <3>5. j + 1 <= EndOf(sql)
      BY <1>3, <1>14
    <3> HIDE DEF inside
    <3> QED
      BY <2>1, <2>11, <3>4, <3>5
  <2> QED
    BY <2>9, <2>10, <2>11
<1>15. inside(k + 2, 1)
  <2>1. (k + 2) - 1 = k + 1 /\ k + 2 \in Nat
    BY <1>3
  <2>2. k + 2 <= Len(sql) => after[k + 2] = <<1, sql[k + 2]>>
    <3>1. k + 2 <= Len(sql) => k + 2 \in k..Len(sql)
      BY <1>3
    <3>2. after[(k + 2) - 1][1] = 1 /\ after[(k + 2) - 1][2] = "used"
      BY <1>5, <2>1
    <3> QED
      BY <1>4, <3>1, <3>2
  <2>3. \A z \in Z : (k + 2) - 1 <= z
    BY <1>3, <1>7
  <2> QED
    BY <1>5, <2>1, <2>2, <2>3
<1> HIDE DEF inside, done
<1> DEFINE R == {x \in ((k + 2)..EndOf(sql)) \X Nat : inside(x[1], x[2])}
           left == [x \in R |-> EndOf(sql) - x[1]]
           f == [x \in R |-> IF end[x] = to /\ done THEN 1 ELSE 0]
<1>16. Onward(R, left, f, 1)
  <2>1. ASSUME NEW x \in R
        PROVE  /\ left[x] \in Nat
               /\ f[x] = 1 \/ \E y \in R : left[y] < left[x] /\ f[x] = f[y]
    <3>1. PICK j \in (k + 2)..EndOf(sql), d \in Nat : x = <<j, d>> /\ inside(j, d)
      OBVIOUS
    <3>2. j \in Nat /\ k + 2 <= j /\ j <= EndOf(sql)
      BY <1>3, <3>1
    <3>3. left[x] = EndOf(sql) - j /\ f[x] = IF end[<<j, d>>] = to /\ done THEN 1 ELSE 0
      BY <3>1
    <3>4. left[x] \in Nat
      BY <1>3, <3>2, <3>3
    <3>5. CASE d = 0 \/ j = EndOf(sql)
      <4>1. to = j /\ done
        BY <1>12, <3>1, <3>2, <3>5
      <4>2. end[<<j, d>>] = j
        <5>1. j \in k..EndOf(sql)
          BY <1>3, <3>2
        <5> QED
          BY <1>2, <3>5, <5>1
      <4> QED
        BY <3>3, <3>4, <4>1, <4>2
    <3>6. CASE ~(d = 0 \/ j = EndOf(sql))
      <4>1. j <= Len(sql)
        BY <1>3, <3>2, <3>6
      <4>2. PICK m \in {j + 1, j + 2}, n \in Nat :
              m <= EndOf(sql) /\ inside(m, n) /\ end[<<j, d>>] = end[<<m, n>>]
        BY <1>14, <3>1, <3>2, <3>6, <4>1
      <4>3. m \in Nat /\ m \in (k + 2)..EndOf(sql) /\ j < m
        BY <1>3, <3>2, <4>2
      <4>4. <<m, n>> \in R
        <5>1. <<m, n>> \in ((k + 2)..EndOf(sql)) \X Nat /\ <<m, n>>[1] = m /\ <<m, n>>[2] = n
          BY <4>3
        <5> QED
          BY <4>2, <5>1
      <4>5. left[<<m, n>>] = EndOf(sql) - m /\ f[<<m, n>>] = IF end[<<m, n>>] = to /\ done THEN 1 ELSE 0
        BY <4>4
      <4> HIDE DEF R, left, f
      <4>6. left[<<m, n>>] < left[x] /\ f[x] = f[<<m, n>>]
        BY <1>3, <3>2, <3>3, <4>2, <4>3, <4>5
      <4> QED
        BY <3>4, <4>4, <4>6
    <3> QED
      BY <3>5, <3>6
  <2> HIDE DEF R, left, f
  <2> QED
    BY <2>1 DEF Onward
<1>17. <<k + 2, 1>> \in R
  <2>1. k + 2 \in (k + 2)..EndOf(sql)
    BY <1>3
  <2>2. <<k + 2, 1>> \in ((k + 2)..EndOf(sql)) \X Nat
        /\ <<k + 2, 1>>[1] = k + 2 /\ <<k + 2, 1>>[2] = 1
    BY <2>1
  <2> QED
    BY <1>15, <2>2
<1>18. f[<<k + 2, 1>>] = 1
  <2> HIDE DEF R, left, f
  <2> QED
    BY <1>16, <1>17, Reach
<1>19. end[<<k + 2, 1>>] = to /\ done
  BY <1>17, <1>18
<1>20. to \in (k + 2)..EndOf(sql)
  <2>1. CASE ends = {}
    <3>1. to = EndOf(sql)
      BY <2>1 DEF to, Least
    <3> QED
      BY <1>3, <3>1
  <2>2. CASE ends # {}
    <3>1. to \in ends
      BY <1>9, <2>2, LeastIs DEF to
    <3>2. to - 1 \in Z /\ to \in Nat
      BY <1>9, <1>10, <3>1
    <3>3. k + 2 <= to - 1 /\ to - 1 <= Len(sql)
      BY <1>7, <3>2
    <3> QED
      BY <1>3, <3>2, <3>3
  <2> QED
    BY <2>1, <2>2
<1> QED
  BY <1>2, <1>6, <1>19, <1>20 DEF done

-----------------------------------------------------------------------------
(* Runs of characters, the rest of a line, and dollar quotes. *)

LEMMA SpanIs ==
  ASSUME NEW text \in Seq(Chars), NEW k \in 1..EndOf(text), NEW S
  PROVE  /\ SpanEnd(text, k, S) \in k..EndOf(text)
         /\ ~Is(text, SpanEnd(text, k, S), S)
         /\ \A m \in k..(SpanEnd(text, k, S) - 1) : Is(text, m, S)
<1> DEFINE H == {j \in k..EndOf(text) : ~Is(text, j, S)}
<1>1. EndOf(text) \in Nat /\ k \in Nat /\ k <= EndOf(text)
  BY DEF EndOf
<1>2. EndOf(text) \in H
  BY <1>1 DEF Is
<1>3. PICK j \in H : \A n \in H : j <= n
  <2>1. H \subseteq Nat /\ H # {}
    BY <1>1, <1>2
  <2> HIDE DEF H
  <2> QED
    BY <2>1, LeastElement
<1>4. \A m \in k..(j - 1) : Is(text, m, S)
  <2> TAKE m \in k..(j - 1)
  <2>1. m \in k..EndOf(text) /\ ~(j <= m)
    BY <1>1, <1>3
  <2> QED
    BY <1>3, <2>1
<1>5. j \in k..EndOf(text) /\ ~Is(text, j, S)
  BY <1>3
<1> HIDE DEF H
<1> QED
  BY <1>4, <1>5 DEF SpanEnd

LEMMA LineEnds ==
  ASSUME NEW text \in Seq(Chars), NEW k \in 1..Len(text), text[k] # "nl"
  PROVE  LET end == SpanEnd(text, k, {text[j] : j \in DOMAIN text} \ {"nl"}) IN
         /\ end \in (k + 1)..EndOf(text)
         /\ end < EndOf(text) => text[end] = "nl"
         /\ Least({j \in k..Len(text) : text[j] = "nl"}, EndOf(text)) = end
<1> DEFINE S == {text[j] : j \in DOMAIN text} \ {"nl"}
           end == SpanEnd(text, k, S)
           T == {j \in k..Len(text) : text[j] = "nl"}
<1>1. Len(text) \in Nat /\ EndOf(text) = Len(text) + 1 /\ DOMAIN text = 1..Len(text) /\ k \in Nat
  BY LenProperties DEF EndOf
<1>2. \A j \in 1..Len(text) : Is(text, j, S) <=> text[j] # "nl"
  BY <1>1 DEF Is
<1> HIDE DEF S
<1>3. /\ end \in k..EndOf(text) /\ ~Is(text, end, S)
      /\ \A m \in k..(end - 1) : Is(text, m, S)
  BY <1>1, SpanIs
<1> HIDE DEF end
<1>4. end # k
  BY <1>1, <1>2, <1>3
<1>5. end < EndOf(text) => text[end] = "nl"
  BY <1>1, <1>2, <1>3
<1>6. \A t \in T : t \in Nat /\ k <= t /\ t <= Len(text) /\ text[t] = "nl"
  BY <1>1
<1>7. \A t \in Nat : k <= t /\ t <= Len(text) /\ text[t] = "nl" => t \in T
  BY <1>1
<1> HIDE DEF T
<1>8. \A t \in T : end <= t
  <2> TAKE t \in T
  <2>1. CASE t < end
    <3>1. t \in k..(end - 1) /\ t \in 1..Len(text)
      BY <1>1, <1>3, <1>6, <2>1
    <3> QED
      BY <1>2, <1>3, <1>6, <3>1
  <2> QED
    BY <1>1, <1>3, <1>6, <2>1
<1>9. Least(T, EndOf(text)) = end
  <2>1. CASE end = EndOf(text)
    <3>1. T = {}
      <4>1. \A t \in T : FALSE
        BY <1>1, <1>6, <1>8, <2>1
      <4> QED
        BY <4>1
    <3> QED
      BY <2>1, <3>1 DEF Least
  <2>2. CASE end # EndOf(text)
    <3>1. end \in T
      BY <1>1, <1>3, <1>5, <1>7, <2>2
    <3>2. T \subseteq Nat
      BY <1>6
    <3>3. \A d : \A m \in T : (\A n \in T : m <= n) => Least(T, d) = m
      BY <3>2, LeastIs
    <3> QED
      BY <1>8, <3>1, <3>3
  <2> QED
    BY <2>1, <2>2
<1>10. end \in (k + 1)..EndOf(text)
  <2>1. end \in Nat /\ k <= end /\ end <= EndOf(text)
    BY <1>1, <1>3
  <2> QED
    BY <1>1, <1>4, <2>1
<1> QED
  BY <1>5, <1>9, <1>10, Zenon DEF S, end, T

LEMMA DollarIs ==
  ASSUME NEW text \in Seq(Chars), NEW k \in 1..Len(text), HasTag(text, k)
  PROVE  /\ DollarEnd(text, k) \in (k + 1)..EndOf(text)
         /\ text[DollarEnd(text, k) - 1] = "$" \/ DollarEnd(text, k) = EndOf(text)
<1> DEFINE to == TagEnd(text, k)
           len == to - k
           closes == {j \in to..(EndOf(text) - len) :
                        SubSeq(text, j, j + len - 1) = SubSeq(text, k, k + len - 1)}
<1>1. EndOf(text) \in Nat /\ EndOf(text) = Len(text) + 1 /\ Len(text) \in Nat /\ k \in Nat
      /\ k + 1 \in 1..EndOf(text)
  BY LenProperties DEF EndOf
<1>2. to \in Nat /\ k + 2 <= to /\ to <= EndOf(text) /\ text[to - 1] = "$"
  <2>1. SpanEnd(text, k + 1, Word) \in (k + 1)..EndOf(text)
    BY <1>1, SpanIs
  <2>2. SpanEnd(text, k + 1, Word) < EndOf(text) /\ to = SpanEnd(text, k + 1, Word) + 1
        /\ text[to - 1] = "$"
    BY <1>1, <2>1 DEF HasTag, TagEnd, Is
  <2> HIDE DEF to
  <2> QED
    BY <1>1, <2>1, <2>2
<1> HIDE DEF to
<1>3. CASE closes = {}
  BY <1>1, <1>3 DEF DollarEnd, to
<1>4. CASE closes # {}
  <2> DEFINE first == CHOOSE j \in closes : \A other \in closes : j <= other
  <2>1. \E j \in closes : \A other \in closes : j <= other
    <3>1. closes \subseteq Nat
      BY <1>1, <1>2
    <3> HIDE DEF closes
    <3> QED
      BY <1>4, <3>1, LeastElement
  <2>2. first \in closes
    BY <2>1
  <2>3. DollarEnd(text, k) = len + first
    BY <1>4 DEF DollarEnd, to
  <2>4. /\ first \in to..(EndOf(text) - len)
        /\ SubSeq(text, first, first + len - 1) = SubSeq(text, k, k + len - 1)
    BY <2>2
  <2> HIDE DEF first, closes
  <2>5. first \in Nat /\ to <= first /\ first + len <= EndOf(text) /\ len \in Nat /\ 2 <= len
        /\ k + len = to
    BY <1>1, <1>2, <2>4
  <2> HIDE DEF len
  <2>6. \A j \in Nat : 1 <= j /\ j + len <= EndOf(text)
          => SubSeq(text, j, j + len - 1)[len] = text[j + len - 1]
    <3> TAKE j \in Nat
    <3> HAVE 1 <= j /\ j + len <= EndOf(text)
    <3>1. len \in 1..((j + len - 1) - j + 1)
      BY <1>1, <2>5
    <3>2. \A x \in j..(j + len - 1) : text[x] \in Chars
      <4>1. \A x \in j..(j + len - 1) : x \in 1..Len(text)
        BY <1>1, <2>5
      <4> QED
        BY <4>1, ElementOfSeq
    <3>3. j \in Int /\ j + len - 1 \in Int
      BY <2>5
    <3>4. \A x \in 1..((j + len - 1) - j + 1) : SubSeq(text, j, j + len - 1)[x] = text[j + x - 1]
      BY <3>2, <3>3, SubSeqProperties
    <3> QED
      BY <3>1, <3>4
  <2>7. text[first + len - 1] = text[k + len - 1]
    <3>1. 1 <= first /\ 1 <= k /\ k + len <= EndOf(text)
      BY <1>1, <1>2, <2>5
    <3> QED
      BY <1>1, <2>4, <2>5, <2>6, <3>1
  <2>8. (len + first) - 1 = first + len - 1 /\ k + len - 1 = to - 1
    BY <1>1, <1>2, <2>5
  <2>9. text[(len + first) - 1] = "$"
    BY <1>2, <2>7, <2>8
  <2>10. len + first \in (k + 1)..EndOf(text)
    BY <1>1, <1>2, <2>5
  <2> QED
    BY <2>3, <2>9, <2>10
<1> QED
  BY <1>3, <1>4

-----------------------------------------------------------------------------
(* The regions that begin at k, if any does. *)
LEMMA NoRegion ==
  ASSUME NEW text, NEW k,
         ~Pair(text, k, "-", "-"), ~Pair(text, k, "/", "*"), ~EscapeAt(text, k),
         ~Is(text, k, Quotes), ~TagAt(text, k)
  PROVE  RegionTo(text, k) = k
BY DEF RegionTo

LEMMA RegionIs ==
  ASSUME NEW text, NEW k
  PROVE  /\ Pair(text, k, "-", "-") =>
              RegionTo(text, k) = Least({j \in k..Len(text) : text[j] = "nl"}, EndOf(text))
         /\ Pair(text, k, "/", "*") => RegionTo(text, k) = CommentTo(text, k)
         /\ EscapeAt(text, k) => RegionTo(text, k) = QuotedTo(text, k + 1, TRUE)
         /\ Is(text, k, Quotes) => RegionTo(text, k) = QuotedTo(text, k, FALSE)
         /\ TagAt(text, k) => RegionTo(text, k) = DollarEnd(text, k)
<1>1. /\ Pair(text, k, "-", "-") => text[k] = "-"
      /\ Pair(text, k, "/", "*") => text[k] = "/"
      /\ EscapeAt(text, k) => text[k] = "E"
      /\ Is(text, k, Quotes) => text[k] \in {"'", "dq", "bt"}
      /\ TagAt(text, k) => text[k] = "$"
  BY DEF Pair, Is, EscapeAt, TagAt, Quotes
<1> QED
  BY <1>1 DEF RegionTo

LEMMA RegionNat ==
  ASSUME NEW text \in Seq(Chars), NEW k \in 1..Len(text)
  PROVE  RegionTo(text, k) \in Nat
<1>1. Len(text) \in Nat /\ EndOf(text) \in Nat /\ EndOf(text) = Len(text) + 1 /\ k \in Nat
  BY LenProperties DEF EndOf
<1>2. ASSUME NEW S, S \subseteq Nat
      PROVE  Least(S, EndOf(text)) \in Nat
  <2>1. CASE S = {}
    BY <1>1, <2>1 DEF Least
  <2>2. CASE S # {}
    BY <1>2, <2>2, LeastIs
  <2> QED
    BY <2>1, <2>2
<1>3. CASE Pair(text, k, "-", "-")
  <2>1. {j \in k..Len(text) : text[j] = "nl"} \subseteq Nat
    BY <1>1
  <2> QED
    BY <1>2, <1>3, <2>1, RegionIs
<1>4. CASE Pair(text, k, "/", "*")
  <2>1. PICK after : CommentTo(text, k)
               = Least({j + 1 : j \in {j \in (k + 2)..Len(text) : after[j][1] = 0}}, EndOf(text))
    BY CommentToDefined
  <2>2. {j + 1 : j \in {j \in (k + 2)..Len(text) : after[j][1] = 0}} \subseteq Nat
    BY <1>1
  <2>3. CommentTo(text, k) \in Nat
    BY <1>2, <2>1, <2>2
  <2> QED
    BY <1>4, <2>3, RegionIs
<1>5. CASE EscapeAt(text, k)
  <2>1. k + 1 \in 1..Len(text)
    BY <1>1, <1>5 DEF EscapeAt, Pair, Is
  <2>2. PICK end \in ((k + 1) + 1)..EndOf(text) : end = QuotedTo(text, k + 1, TRUE)
    BY <2>1, QuotedToEnds
  <2>3. end \in Nat
    BY <1>1
  <2> QED
    BY <1>5, <2>2, <2>3, RegionIs
<1>6. CASE Is(text, k, Quotes)
  <2>1. PICK end \in (k + 1)..EndOf(text) : end = QuotedTo(text, k, FALSE)
    BY QuotedToEnds
  <2>2. end \in Nat
    BY <1>1
  <2> QED
    BY <1>6, <2>1, <2>2, RegionIs
<1>7. CASE TagAt(text, k)
  <2>1. DollarEnd(text, k) \in (k + 1)..EndOf(text)
    BY <1>7, DollarIs DEF TagAt
  <2>2. DollarEnd(text, k) \in Nat
    BY <1>1, <2>1
  <2> QED
    BY <1>7, <2>2, RegionIs
<1> QED
  BY <1>1, <1>3, <1>4, <1>5, <1>6, <1>7, NoRegion

-----------------------------------------------------------------------------
(* How far the regions that begin at k or before it reach, as in Visible. *)
HiddenTo(text) ==
  CHOOSE hidden : hidden =
    [k \in 0..Len(text) |->
       IF k = 0 THEN 0
       ELSE LET before == hidden[k - 1] IN IF before > k THEN before ELSE RegionTo(text, k)]

LEMMA HiddenIs ==
  ASSUME NEW text \in Seq(Chars)
  PROVE  /\ HiddenTo(text)[0] = 0
         /\ \A k \in 1..Len(text) :
              HiddenTo(text)[k] = IF HiddenTo(text)[k - 1] > k THEN HiddenTo(text)[k - 1]
                                  ELSE RegionTo(text, k)
         /\ Visible(text) = {k \in 1..Len(text) : HiddenTo(text)[k] <= k}
<1> DEFINE n == Len(text)
           F(f) == [k \in 0..n |->
                      IF k = 0 THEN 0
                      ELSE LET before == f[k - 1] IN
                           IF before > k THEN before ELSE RegionTo(text, k)]
           step == [k \in (0 + 1)..n |-> [before \in Nat |->
                      IF before > k THEN before ELSE RegionTo(text, k)]]
           hidden == CHOOSE f : f = F(f)
<1>1. Visible(text) = {k \in 1..Len(text) : hidden[k] <= k} /\ HiddenTo(text) = hidden
  BY DEF Visible, HiddenTo
<1>2. n \in Nat /\ 0 <= n
  BY LenProperties
<1>3. step \in [(0 + 1)..n -> [Nat -> Nat]]
  <2>1. \A k \in (0 + 1)..n : RegionTo(text, k) \in Nat
    BY <1>2, RegionNat
  <2> QED
    BY <2>1
<1>4. PICK f \in [0..n -> Nat] : StepsTo(f, 0, n, 0, step)
  <2> HIDE DEF step, n
  <2> QED
    BY <1>2, <1>3, StepsDefine
<1>5. f = F(f)
  <2>1. ASSUME NEW k \in 0..n
        PROVE  f[k] = IF k = 0 THEN 0
                      ELSE LET before == f[k - 1] IN
                           IF before > k THEN before ELSE RegionTo(text, k)
    <3>1. f[k] = IF k = 0 THEN 0 ELSE step[k][f[k - 1]]
      BY <1>4 DEF StepsTo
    <3>2. CASE k = 0
      BY <3>1, <3>2
    <3>3. CASE k # 0
      <4>1. k \in (0 + 1)..n /\ k - 1 \in 0..n
        BY <1>2, <3>3
      <4>2. f[k - 1] \in Nat
        BY <1>4, <4>1
      <4> QED
        BY <3>1, <3>3, <4>1, <4>2
    <3> QED
      BY <3>2, <3>3
  <2> QED
    BY <1>4, <2>1
<1> HIDE DEF F
<1>6. hidden = F(hidden)
  BY <1>5
<1> HIDE DEF hidden
<1>7. \A k \in 0..n : hidden[k] = IF k = 0 THEN 0
                                  ELSE IF hidden[k - 1] > k THEN hidden[k - 1]
                                  ELSE RegionTo(text, k)
  BY <1>6 DEF F
<1>8. 0 \in 0..n /\ \A k \in 1..n : k \in 0..n /\ k # 0
  BY <1>2
<1> QED
  BY <1>1, <1>7, <1>8

(* What lies in a region is hidden; what no region begins at is not. *)
LEMMA HiddenOver ==
  ASSUME NEW text \in Seq(Chars), NEW k \in 1..Len(text), ~(HiddenTo(text)[k - 1] > k),
         RegionTo(text, k) \in (k + 1)..EndOf(text)
  PROVE  /\ \A m \in k..(RegionTo(text, k) - 1) : m \notin Visible(text)
         /\ ~(HiddenTo(text)[RegionTo(text, k) - 1] > RegionTo(text, k))
<1> DEFINE H == HiddenTo(text)
           hi == RegionTo(text, k)
           S == {n \in Nat : k + n < hi => H[k + n] = hi}
<1>1. /\ Len(text) \in Nat /\ EndOf(text) = Len(text) + 1 /\ k \in Nat /\ 1 <= k
      /\ hi \in Nat /\ k < hi /\ hi <= Len(text) + 1
  BY LenProperties DEF EndOf
<1>2. /\ \A m \in 1..Len(text) : H[m] = IF H[m - 1] > m THEN H[m - 1] ELSE RegionTo(text, m)
      /\ Visible(text) = {m \in 1..Len(text) : H[m] <= m}
  BY HiddenIs
<1>3. H[k] = hi
  BY <1>2
<1> HIDE DEF H, hi
<1>4. 0 \in S
  BY <1>1, <1>3
<1>5. ASSUME NEW n \in Nat, n \in S
      PROVE  n + 1 \in S
  <2> SUFFICES ASSUME k + (n + 1) < hi
               PROVE  H[k + (n + 1)] = hi
    OBVIOUS
  <2>1. /\ k + n < hi /\ k + (n + 1) \in 1..Len(text) /\ (k + (n + 1)) - 1 = k + n
        /\ hi > k + (n + 1)
    BY <1>1
  <2>2. H[(k + (n + 1)) - 1] = hi
    BY <1>5, <2>1
  <2> QED
    BY <1>2, <2>1, <2>2
<1> HIDE DEF S
<1>6. Nat \subseteq S
  BY <1>4, <1>5, SetInduction
<1>7. ASSUME NEW m \in k..(hi - 1)
      PROVE  H[m] = hi /\ m \notin Visible(text)
  <2>1. m - k \in Nat /\ k + (m - k) = m /\ m < hi /\ m \in Nat
    BY <1>1
  <2>2. m - k \in S
    BY <1>6, <2>1
  <2>3. H[m] = hi
    BY <2>1, <2>2 DEF S
  <2> QED
    BY <1>1, <1>2, <2>1, <2>3
<1>8. ~(H[hi - 1] > hi)
  <2>1. hi - 1 \in k..(hi - 1)
    BY <1>1
  <2> QED
    BY <1>1, <1>7, <2>1
<1> QED
  BY <1>7, <1>8 DEF H, hi

LEMMA SeenThrough ==
  ASSUME NEW text \in Seq(Chars), NEW k \in 1..Len(text), ~(HiddenTo(text)[k - 1] > k),
         NEW hi \in (k + 1)..EndOf(text), \A m \in k..(hi - 1) : RegionTo(text, m) = m
  PROVE  /\ \A m \in k..(hi - 1) : m \in Visible(text)
         /\ ~(HiddenTo(text)[hi - 1] > hi)
<1> DEFINE H == HiddenTo(text)
           S == {n \in Nat : k + n < hi => H[k + n] = k + n}
<1>1. /\ Len(text) \in Nat /\ EndOf(text) = Len(text) + 1 /\ k \in Nat /\ 1 <= k
      /\ hi \in Nat /\ k < hi /\ hi <= Len(text) + 1
  BY LenProperties DEF EndOf
<1>2. /\ \A m \in 1..Len(text) : H[m] = IF H[m - 1] > m THEN H[m - 1] ELSE RegionTo(text, m)
      /\ Visible(text) = {m \in 1..Len(text) : H[m] <= m}
  BY HiddenIs
<1>3. \A m \in Nat : k <= m /\ m < hi => m \in 1..Len(text) /\ RegionTo(text, m) = m
  <2> TAKE m \in Nat
  <2> HAVE k <= m /\ m < hi
  <2>1. m \in 1..Len(text) /\ m \in k..(hi - 1)
    BY <1>1
  <2> QED
    BY <2>1
<1>4. H[k] = k
  BY <1>1, <1>2, <1>3
<1> HIDE DEF H
<1>5. 0 \in S
  BY <1>1, <1>4
<1>6. ASSUME NEW n \in Nat, n \in S
      PROVE  n + 1 \in S
  <2> SUFFICES ASSUME k + (n + 1) < hi
               PROVE  H[k + (n + 1)] = k + (n + 1)
    OBVIOUS
  <2>1. /\ k + n < hi /\ k + (n + 1) \in Nat /\ k <= k + (n + 1) /\ (k + (n + 1)) - 1 = k + n
        /\ ~(k + n > k + (n + 1))
    BY <1>1
  <2>2. H[(k + (n + 1)) - 1] = k + n
    BY <1>6, <2>1
  <2>3. k + (n + 1) \in 1..Len(text) /\ RegionTo(text, k + (n + 1)) = k + (n + 1)
    BY <1>3, <2>1
  <2> QED
    BY <1>2, <2>1, <2>2, <2>3
<1> HIDE DEF S
<1>7. Nat \subseteq S
  BY <1>5, <1>6, SetInduction
<1>8. ASSUME NEW m \in k..(hi - 1)
      PROVE  H[m] = m /\ m \in Visible(text)
  <2>1. m - k \in Nat /\ k + (m - k) = m /\ m < hi /\ m \in Nat /\ k <= m /\ m <= m
    BY <1>1
  <2>2. m - k \in S
    BY <1>7, <2>1
  <2>3. H[m] = m
    BY <2>1, <2>2 DEF S
  <2> QED
    BY <1>2, <1>3, <2>1, <2>3
<1>9. ~(H[hi - 1] > hi)
  <2>1. hi - 1 \in k..(hi - 1) /\ hi - 1 <= hi
    BY <1>1
  <2> QED
    BY <1>8, <2>1
<1> QED
  BY <1>8, <1>9 DEF H

-----------------------------------------------------------------------------
(* The parameter that begins at k if no region hides it: one at most. *)
ParamsAt(text, k) ==
  {t \in {Token("named", k, SpanEnd(text, k + 1, Word))} :
     Is(text, k, {":"}) /\ Is(text, k + 1, Letters) /\ OddInRun(text, k)}
  \cup {t \in {Token("numbered", k, SpanEnd(text, k + 1, Digits))} :
          Is(text, k, {"$"}) /\ Is(text, k + 1, Digits)}
  \cup {t \in {Token("escapedQ", k, k + 2)} :
          Is(text, k, {"?"}) /\ OddInRun(text, k) /\ Is(text, k + 1, {"?"})}
  \cup {t \in {Token("ordinal", k, k + 1)} :
          Is(text, k, {"?"}) /\ OddInRun(text, k) /\ ~Is(text, k + 1, {"?", "|", "&"})}

LEMMA ParamsByPlace ==
  ASSUME NEW text
  PROVE  /\ \A t : t \in ParamsOf(text) <=> \E k \in Visible(text) : t \in ParamsAt(text, k)
         /\ \A k : \A t \in ParamsAt(text, k) : t.lo = k
<1> DEFINE seen == Visible(text)
           names == {k \in seen : Is(text, k, {":"}) /\ Is(text, k + 1, Letters) /\ OddInRun(text, k)}
           numbers == {k \in seen : Is(text, k, {"$"}) /\ Is(text, k + 1, Digits)}
           marks == {k \in seen : Is(text, k, {"?"}) /\ OddInRun(text, k)}
           A == {Token("named", k, SpanEnd(text, k + 1, Word)) : k \in names}
           B == {Token("numbered", k, SpanEnd(text, k + 1, Digits)) : k \in numbers}
           C == {Token("escapedQ", k, k + 2) : k \in {k \in marks : Is(text, k + 1, {"?"})}}
           D == {Token("ordinal", k, k + 1) : k \in {k \in marks : ~Is(text, k + 1, {"?", "|", "&"})}}
<1>1. ParamsOf(text) = A \cup B \cup C \cup D
  BY DEF ParamsOf
<1>2. \A t : t \in A <=> \E k \in seen :
        t = Token("named", k, SpanEnd(text, k + 1, Word))
        /\ Is(text, k, {":"}) /\ Is(text, k + 1, Letters) /\ OddInRun(text, k)
  BY Zenon
<1>3. \A t : t \in B <=> \E k \in seen :
        t = Token("numbered", k, SpanEnd(text, k + 1, Digits))
        /\ Is(text, k, {"$"}) /\ Is(text, k + 1, Digits)
  BY Zenon
<1>4. \A t : t \in C <=> \E k \in seen :
        t = Token("escapedQ", k, k + 2)
        /\ Is(text, k, {"?"}) /\ OddInRun(text, k) /\ Is(text, k + 1, {"?"})
  BY Zenon
<1>5. \A t : t \in D <=> \E k \in seen :
        t = Token("ordinal", k, k + 1)
        /\ Is(text, k, {"?"}) /\ OddInRun(text, k) /\ ~Is(text, k + 1, {"?", "|", "&"})
  BY Zenon
<1>6. ASSUME NEW k, NEW t
      PROVE  t \in ParamsAt(text, k) <=>
               \/ /\ t = Token("named", k, SpanEnd(text, k + 1, Word))
                  /\ Is(text, k, {":"}) /\ Is(text, k + 1, Letters) /\ OddInRun(text, k)
               \/ /\ t = Token("numbered", k, SpanEnd(text, k + 1, Digits))
                  /\ Is(text, k, {"$"}) /\ Is(text, k + 1, Digits)
               \/ /\ t = Token("escapedQ", k, k + 2)
                  /\ Is(text, k, {"?"}) /\ OddInRun(text, k) /\ Is(text, k + 1, {"?"})
               \/ /\ t = Token("ordinal", k, k + 1)
                  /\ Is(text, k, {"?"}) /\ OddInRun(text, k) /\ ~Is(text, k + 1, {"?", "|", "&"})
  BY DEF ParamsAt
<1> HIDE DEF A, B, C, D, seen
<1>7. \A t : t \in A \cup B \cup C \cup D <=> t \in A \/ t \in B \/ t \in C \/ t \in D
  OBVIOUS
<1>8. ASSUME NEW t
      PROVE  t \in A \cup B \cup C \cup D <=> \E k \in seen : t \in ParamsAt(text, k)
  <2>1. t \in A => \E k \in seen : t \in ParamsAt(text, k)
    BY <1>2, <1>6, Zenon
  <2>2. t \in B => \E k \in seen : t \in ParamsAt(text, k)
    BY <1>3, <1>6, Zenon
  <2>3. t \in C => \E k \in seen : t \in ParamsAt(text, k)
    BY <1>4, <1>6, Zenon
  <2>4. t \in D => \E k \in seen : t \in ParamsAt(text, k)
    BY <1>5, <1>6, Zenon
  <2>5. ASSUME NEW k \in seen, t \in ParamsAt(text, k)
        PROVE  t \in A \/ t \in B \/ t \in C \/ t \in D
    <3>1. \/ /\ t = Token("named", k, SpanEnd(text, k + 1, Word))
             /\ Is(text, k, {":"}) /\ Is(text, k + 1, Letters) /\ OddInRun(text, k)
          \/ /\ t = Token("numbered", k, SpanEnd(text, k + 1, Digits))
             /\ Is(text, k, {"$"}) /\ Is(text, k + 1, Digits)
          \/ /\ t = Token("escapedQ", k, k + 2)
             /\ Is(text, k, {"?"}) /\ OddInRun(text, k) /\ Is(text, k + 1, {"?"})
          \/ /\ t = Token("ordinal", k, k + 1)
             /\ Is(text, k, {"?"}) /\ OddInRun(text, k) /\ ~Is(text, k + 1, {"?", "|", "&"})
      BY <1>6, <2>5
    <3> QED
      BY <1>2, <1>3, <1>4, <1>5, <3>1, Zenon
  <2> QED
    BY <1>7, <2>1, <2>2, <2>3, <2>4, <2>5
<1>9. \A k : \A t \in ParamsAt(text, k) : t.lo = k
  BY <1>6 DEF Token
<1> QED
  BY <1>1, <1>8, <1>9 DEF seen

(* The parameters a reader meets before k. *)
ParamsBelow(text, k) == {t \in ParamsOf(text) : t.lo < k}

LEMMA ParamsGoOn ==
  ASSUME NEW text \in Seq(Chars), NEW k \in Nat, NEW hi \in Nat, k < hi
  PROVE  /\ (\A m \in k..(hi - 1) : m \notin Visible(text) \/ ParamsAt(text, m) = {})
              => ParamsBelow(text, hi) = ParamsBelow(text, k)
         /\ \A t : /\ k \in Visible(text) /\ ParamsAt(text, k) = {t}
                   /\ \A m \in (k + 1)..(hi - 1) : ParamsAt(text, m) = {}
                   => ParamsBelow(text, hi) = ParamsBelow(text, k) \cup {t}
<1>1. /\ \A t : t \in ParamsOf(text) <=> \E m \in Visible(text) : t \in ParamsAt(text, m)
      /\ \A m : \A t \in ParamsAt(text, m) : t.lo = m
  BY ParamsByPlace
<1>2. \A m \in Visible(text) : m \in Nat
  <2>1. Len(text) \in Nat /\ \A m \in 1..Len(text) : m \in Nat
    BY LenProperties
  <2> QED
    BY <2>1 DEF Visible
<1>3. ASSUME NEW t \in ParamsOf(text)
      PROVE  \E m \in Visible(text) : t \in ParamsAt(text, m) /\ t.lo = m /\ m \in Nat
  BY <1>1, <1>2
<1>4. ASSUME \A m \in k..(hi - 1) : m \notin Visible(text) \/ ParamsAt(text, m) = {}
      PROVE  ParamsBelow(text, hi) = ParamsBelow(text, k)
  <2>1. ASSUME NEW t \in ParamsOf(text)
        PROVE  t.lo < hi <=> t.lo < k
    <3>1. PICK m \in Visible(text) : t \in ParamsAt(text, m) /\ t.lo = m /\ m \in Nat
      BY <1>3
    <3>2. m \notin k..(hi - 1)
      BY <1>4, <3>1
    <3> QED
      BY <3>1, <3>2
  <2> QED
    BY <2>1 DEF ParamsBelow
<1>5. ASSUME NEW t, k \in Visible(text), ParamsAt(text, k) = {t},
             \A m \in (k + 1)..(hi - 1) : ParamsAt(text, m) = {}
      PROVE  ParamsBelow(text, hi) = ParamsBelow(text, k) \cup {t}
  <2>1. t \in ParamsOf(text) /\ t.lo = k
    BY <1>1, <1>5
  <2>2. ASSUME NEW s \in ParamsOf(text)
        PROVE  s.lo < hi <=> s.lo < k \/ s = t
    <3>1. PICK m \in Visible(text) : s \in ParamsAt(text, m) /\ s.lo = m /\ m \in Nat
      BY <1>3
    <3>2. CASE m = k
      BY <1>5, <2>1, <3>1, <3>2
    <3>3. CASE m # k
      <4>1. m \notin (k + 1)..(hi - 1)
        BY <1>5, <3>1
      <4>2. s # t
        BY <2>1, <3>1, <3>3
      <4> QED
        BY <3>1, <3>3, <4>1, <4>2
    <3> QED
      BY <3>2, <3>3
  <2> QED
    BY <2>1, <2>2 DEF ParamsBelow
<1> QED
  BY <1>4, <1>5

-----------------------------------------------------------------------------
(* Nothing that began before k goes on at k: no word, no name of a parameter,
   and of colons or question marks in a row an even number stands before it. *)
Fresh(text, k) ==
  /\ Is(text, k, Word) =>
       \A j \in 1..(k - 1) : text[j] \in Letters => \E m \in j..(k - 1) : text[m] \notin Word
  /\ Is(text, k, Letters) => ~(k > 1 /\ text[k - 1] = ":" /\ OddInRun(text, k - 1))
  /\ Is(text, k, {":", "?"}) => OddInRun(text, k)

LEMMA FreshAfter ==
  ASSUME NEW text \in Seq(Chars), NEW k \in Nat, 1 < k, text[k - 1] \notin Word \cup {":", "?"}
  PROVE  Fresh(text, k)
<1>1. \A j \in 1..(k - 1) : \E m \in j..(k - 1) : text[m] \notin Word
  <2> TAKE j \in 1..(k - 1)
  <2>1. k - 1 \in j..(k - 1)
    OBVIOUS
  <2> QED
    BY <2>1
<1>2. Is(text, k, {":", "?"}) => OddInRun(text, k)
  <2>1. Is(text, k, {":", "?"}) => text[k - 1] # text[k]
    BY DEF Is
  <2> QED
    BY <2>1, OddFirst
<1> QED
  BY <1>1, <1>2 DEF Fresh

LEMMA FreshEnds ==
  ASSUME NEW text \in Seq(Chars)
  PROVE  Fresh(text, 1) /\ Fresh(text, EndOf(text))
<1>1. Len(text) \in Nat /\ EndOf(text) = Len(text) + 1
  BY LenProperties DEF EndOf
<1>2. \A S : ~Is(text, EndOf(text), S)
  BY <1>1 DEF Is
<1>3. OddInRun(text, 1)
  BY OddFirst
<1>4. 1..(1 - 1) = {} /\ ~(1 > 1)
  OBVIOUS
<1> QED
  BY <1>2, <1>3, <1>4 DEF Fresh

LEMMA FreshEscape ==
  ASSUME NEW text, NEW k, Fresh(text, k), Pair(text, k, "E", "'")
  PROVE  EscapeAt(text, k)
<1>1. Is(text, k, Word) /\ Is(text, k, Letters)
  BY DEF Pair, Is, Word, Letters
<1> QED
  BY <1>1 DEF Fresh, EscapeAt

(* At most characters nothing begins. *)
LEMMA PlainAt ==
  ASSUME NEW text, NEW k
  PROVE  /\ text[k] \notin {":", "$", "?"} => ParamsAt(text, k) = {}
         /\ text[k] \in {":", "?"} \cup Digits => RegionTo(text, k) = k
         /\ text[k] \in Word /\ ~EscapeAt(text, k) => RegionTo(text, k) = k
<1>1. text[k] \notin {":", "$", "?"} => ParamsAt(text, k) = {}
  BY DEF ParamsAt, Is
<1>2. \A c \in Word : c \notin Quotes /\ c \notin {"-", "/", "$", ":", "?"}
  BY DEF Word, Letters, Digits, Numerals, Quotes
<1>3. \A c \in Digits : c # "E" /\ c \in Word
  BY DEF Word, Letters, Digits, Numerals
<1>4. text[k] \in Word /\ ~EscapeAt(text, k) => RegionTo(text, k) = k
  <2> SUFFICES ASSUME text[k] \in Word, ~EscapeAt(text, k)
               PROVE  RegionTo(text, k) = k
    OBVIOUS
  <2>1. ~Pair(text, k, "-", "-") /\ ~Pair(text, k, "/", "*") /\ ~Is(text, k, Quotes) /\ ~TagAt(text, k)
    BY <1>2 DEF Pair, Is, TagAt
  <2> QED
    BY <2>1, NoRegion
<1>5. text[k] # "E" => ~EscapeAt(text, k)
  BY DEF EscapeAt, Pair, Is
<1>6. text[k] \in {":", "?"} => RegionTo(text, k) = k
  <2> SUFFICES ASSUME text[k] \in {":", "?"}
               PROVE  RegionTo(text, k) = k
    OBVIOUS
  <2>1. ~Pair(text, k, "-", "-") /\ ~Pair(text, k, "/", "*") /\ ~Is(text, k, Quotes) /\ ~TagAt(text, k)
    BY DEF Pair, Is, TagAt, Quotes
  <2> QED
    BY <1>5, <2>1, NoRegion
<1> QED
  BY <1>1, <1>3, <1>4, <1>5, <1>6

-----------------------------------------------------------------------------
(* What the tokens so far are, in parts: the text of the statement is cut
   without gaps (Chain) as far as Covered, and while the scan runs the last of
   them is no text, so that the text flushed after it does not follow another. *)
Kinds == {"text", "numbered", "named", "ordinal", "escapedQ"}
Tokens == [kind : Kinds, lo : Nat, hi : Nat]

Covered(ts) == IF ts = << >> THEN 1 ELSE ts[Len(ts)].hi

Chain(ts) ==
  \A t \in DOMAIN ts :
    /\ ts[t].lo < ts[t].hi
    /\ ts[t].lo = IF t = 1 THEN 1 ELSE ts[t - 1].hi
    /\ t > 1 => "text" \notin {ts[t].kind} \cap {ts[t - 1].kind}

EndsInText(ts) == ts # << >> /\ ts[Len(ts)].kind = "text"

Types ==
  /\ sql \in Seq(Chars)
  /\ i \in Nat
  /\ textStart \in Nat \ {0}
  /\ toks \in Seq(Tokens)

IInv ==
  /\ Types
  /\ TokensTile
  /\ pc = "lex" => ~EndsInText(toks)

LEMMA TilesInParts ==
  TokensTile <=> /\ Chain(toks)
                 /\ Covered(toks) = IF pc = "lex" THEN textStart ELSE EndOf(sql)
                 /\ textStart <= i /\ i <= EndOf(sql)
BY DEF TokensTile, Chain, Covered, Last

LEMMA AppendToken ==
  ASSUME NEW ts \in Seq(Tokens), Chain(ts),
         NEW kind \in Kinds, NEW lo \in Nat, NEW hi \in Nat, lo < hi, lo = Covered(ts),
         kind = "text" => ~EndsInText(ts)
  PROVE  LET longer == Append(ts, Token(kind, lo, hi)) IN
         /\ longer \in Seq(Tokens)
         /\ Chain(longer)
         /\ Covered(longer) = hi
         /\ EndsInText(longer) <=> kind = "text"
<1> DEFINE token == Token(kind, lo, hi)
           longer == Append(ts, token)
<1>1. token \in Tokens /\ token.kind = kind /\ token.lo = lo /\ token.hi = hi
  BY DEF Token, Tokens
<1>2. Len(ts) \in Nat /\ DOMAIN ts = 1..Len(ts) /\ (ts = << >> <=> Len(ts) = 0)
  BY EmptySeq, LenProperties
<1> HIDE DEF token
<1>3. /\ longer \in Seq(Tokens) /\ Len(longer) = Len(ts) + 1
      /\ DOMAIN longer = 1..(Len(ts) + 1)
      /\ longer[Len(ts) + 1] = token
      /\ \A t \in 1..Len(ts) : longer[t] = ts[t]
  BY <1>1, AppendProperties, LenProperties
<1> HIDE DEF longer
<1>4. longer # << >> /\ Covered(longer) = hi /\ (EndsInText(longer) <=> kind = "text")
  BY <1>1, <1>2, <1>3, EmptySeq DEF Covered, EndsInText
<1>5. ASSUME NEW t \in DOMAIN longer
      PROVE  /\ longer[t].lo < longer[t].hi
             /\ longer[t].lo = IF t = 1 THEN 1 ELSE longer[t - 1].hi
             /\ t > 1 => "text" \notin {longer[t].kind} \cap {longer[t - 1].kind}
  <2>1. CASE t \in 1..Len(ts)
    <3>1. longer[t] = ts[t] /\ (t > 1 => longer[t - 1] = ts[t - 1])
      BY <1>2, <1>3, <2>1
    <3> QED
      BY <1>2, <2>1, <3>1 DEF Chain
  <2>2. CASE t = Len(ts) + 1
    <3>1. longer[t] = token /\ (t > 1 => longer[t - 1] = ts[Len(ts)])
      BY <1>2, <1>3, <2>2
    <3> QED
      BY <1>1, <1>2, <2>2, <3>1 DEF Covered, EndsInText
  <2> QED
    BY <1>2, <1>3, <2>1, <2>2
<1>6. Chain(longer)
  BY <1>5 DEF Chain
<1> QED
  BY <1>3, <1>4, <1>6 DEF longer, token

LEMMA FlushedFact ==
  ASSUME IInv, pc = "lex", NEW n \in Nat, textStart <= n
  PROVE  /\ Flushed(n) \in Seq(Tokens)
         /\ Chain(Flushed(n))
         /\ Covered(Flushed(n)) = n
<1>1. /\ Chain(toks) /\ Covered(toks) = textStart /\ ~EndsInText(toks)
      /\ toks \in Seq(Tokens) /\ textStart \in Nat
  BY TilesInParts DEF IInv, Types
<1>2. CASE n > textStart
  <2>1. Flushed(n) = Append(toks, Token("text", textStart, n))
    BY <1>2 DEF Flushed
  <2>2. /\ Append(toks, Token("text", textStart, n)) \in Seq(Tokens)
        /\ Chain(Append(toks, Token("text", textStart, n)))
        /\ Covered(Append(toks, Token("text", textStart, n))) = n
    <3>1. textStart < n /\ textStart = Covered(toks)
      BY <1>1, <1>2
    <3>2. "text" \in Kinds
      BY DEF Kinds
    <3> QED
      BY <1>1, <3>1, <3>2, AppendToken
  <2> QED
    BY <2>1, <2>2
<1>3. CASE ~(n > textStart)
  BY <1>1, <1>3 DEF Flushed
<1> QED
  BY <1>2, <1>3

LEMMA SkipFact ==
  ASSUME IInv, pc = "lex", i' \in i..EndOf(sql), UNCHANGED <<sql, pc, textStart, toks>>
  PROVE  IInv'
<1>1. Types' /\ textStart' <= i' /\ i' <= EndOf(sql)'
  BY TilesInParts DEF IInv, Types, EndOf
<1>2. Chain(toks)' /\ Covered(toks)' = textStart' /\ ~EndsInText(toks)'
  BY TilesInParts DEF IInv, Chain, Covered, EndsInText
<1>3. TokensTile'
  BY <1>1, <1>2 DEF TokensTile, Chain, Covered, Last, EndOf
<1> QED
  BY <1>1, <1>2, <1>3 DEF IInv

LEMMA EmitFact ==
  ASSUME IInv, pc = "lex", i' \in (i + 1)..EndOf(sql),
         NEW kind \in Kinds, kind # "text", toks' = Append(Flushed(i), Token(kind, i, i')),
         textStart' = i', UNCHANGED <<sql, pc>>
  PROVE  IInv'
<1>1. i \in Nat /\ i' \in Nat /\ i < i' /\ i' <= EndOf(sql) /\ textStart <= i
  BY TilesInParts DEF IInv, Types, EndOf
<1>2. /\ Flushed(i) \in Seq(Tokens)
      /\ Chain(Flushed(i))
      /\ Covered(Flushed(i)) = i
  BY <1>1, FlushedFact
<1>3. ASSUME NEW ts \in Seq(Tokens), Chain(ts), NEW lo \in Nat, NEW hi \in Nat,
             lo < hi, Covered(ts) = lo, toks' = Append(ts, Token(kind, lo, hi))
      PROVE  /\ toks' \in Seq(Tokens)
             /\ Chain(toks') /\ Covered(toks') = hi /\ ~EndsInText(toks')
  <2>1. /\ Append(ts, Token(kind, lo, hi)) \in Seq(Tokens)
        /\ Chain(Append(ts, Token(kind, lo, hi)))
        /\ Covered(Append(ts, Token(kind, lo, hi))) = hi
        /\ ~EndsInText(Append(ts, Token(kind, lo, hi)))
    BY <1>3, AppendToken
  <2> QED
    BY <1>3, <2>1
<1>4. /\ toks' \in Seq(Tokens)
      /\ Chain(toks') /\ Covered(toks') = i' /\ ~EndsInText(toks')
  BY <1>1, <1>2, <1>3
<1>5. TokensTile'
  BY <1>1, <1>4 DEF TokensTile, Chain, Covered, Last, EndOf
<1> QED
  BY <1>1, <1>4, <1>5 DEF IInv, Types, EndsInText

LEMMA EndFact ==
  ASSUME IInv, LexEnds
  PROVE  IInv'
<1>1. pc = "lex" /\ i = EndOf(sql) /\ EndOf(sql) \in Nat /\ textStart <= EndOf(sql)
  BY TilesInParts DEF IInv, Types, EndOf, LexEnds
<1>2. /\ toks' \in Seq(Tokens) /\ Chain(toks') /\ Covered(toks') = EndOf(sql)
  BY <1>1, FlushedFact DEF LexEnds
<1>3. TokensTile'
  BY <1>1, <1>2 DEF TokensTile, Chain, Covered, Last, EndOf, LexEnds
<1> QED
  BY <1>1, <1>2, <1>3 DEF IInv, Types, LexEnds

LEMMA RestFact ==
  ASSUME IInv, UNCHANGED <<sql, i, textStart, toks>>, pc' = pc \/ "lex" \notin {pc, pc'}
  PROVE  IInv'
BY DEF IInv, Types, TokensTile, EndsInText, EndOf

-----------------------------------------------------------------------------
LEMMA LexStep ==
  ASSUME IInv, LexNext
  PROVE  IInv'
<1>1. /\ sql \in Seq(Chars) /\ i \in Nat /\ EndOf(sql) \in Nat
      /\ 1 <= i /\ i <= EndOf(sql)
  BY TilesInParts DEF IInv, Types, EndOf
<1>2. /\ \A S : Is(sql, i, S) => i + 1 <= EndOf(sql)
      /\ \A S : Is(sql, i + 1, S) => i + 2 <= EndOf(sql)
      /\ \A c, d : Pair(sql, i, c, d) => i + 2 <= EndOf(sql)
      /\ Scanning => pc = "lex" /\ i + 1 <= EndOf(sql)
  BY <1>1 DEF Is, Pair, Scanning
<1>3. ASSUME NEW hi \in i..EndOf(sql), Scanning, SkipTo(hi)
      PROVE  IInv'
  BY <1>2, <1>3, SkipFact DEF SkipTo
<1>4. ASSUME NEW hi \in (i + 1)..EndOf(sql), NEW kind \in Kinds \ {"text"},
             Scanning, Emit(kind, hi)
      PROVE  IInv'
  BY <1>2, <1>4, EmitFact DEF Emit
<1>5. CASE LineComment
  BY <1>1, <1>3, <1>5, SpanIs DEF LineComment
<1>6. CASE BlockComment
  <2>1. CommentEnd(i) \in (i + 2)..EndOf(sql)
    BY <1>1, <1>2, <1>6, CommentEndMeets DEF BlockComment, EndOf
  <2> QED
    BY <1>1, <1>3, <1>6, <2>1 DEF BlockComment
<1>7. CASE EscapeString
  <2>1. PICK k \in 1..Len(sql) : k = i + 1 /\ sql[k] = "'"
    BY <1>1, <1>7 DEF EscapeString, StartsEscape, Pair, Is, EndOf
  <2>2. EscapeEnd(k) \in (k + 1)..EndOf(sql)
    BY <1>1, <2>1, EscapeEndMeets, QuotedToEnds
  <2>3. SkipTo(EscapeEnd(k)) /\ Scanning
    BY <1>7, <2>1 DEF EscapeString
  <2>4. PICK end : end = EscapeEnd(k)
    OBVIOUS
  <2> QED
    BY <1>1, <1>3, <2>1, <2>2, <2>3, <2>4
<1>8. CASE Quoted
  <2>1. i \in 1..Len(sql)
    BY <1>1, <1>2, <1>8 DEF Quoted, EndOf
  <2>2. QuoteEnd(i) \in (i + 1)..EndOf(sql)
    BY <1>1, <2>1, QuoteEndMeets, QuotedToEnds
  <2> QED
    BY <1>1, <1>3, <1>8, <2>2 DEF Quoted
<1>9. CASE Numbered
  <2>1. SpanEnd(sql, i + 1, Digits) \in (i + 1)..EndOf(sql)
    BY <1>1, <1>2, <1>9, SpanIs DEF Numbered
  <2> QED
    BY <1>4, <1>9, <2>1 DEF Numbered, Kinds
<1>10. CASE DollarQuoted
  <2>1. i \in 1..Len(sql)
    BY <1>1, <1>2, <1>10 DEF DollarQuoted, EndOf
  <2>2. DollarEnd(sql, i) \in (i + 1)..EndOf(sql)
    BY <1>1, <2>1, <1>10, DollarIs DEF DollarQuoted
  <2> QED
    BY <1>1, <1>3, <1>10, <2>2 DEF DollarQuoted
<1>11. CASE LoneDollar
  BY <1>1, <1>2, <1>3, <1>11 DEF LoneDollar
<1>12. CASE Cast
  BY <1>1, <1>2, <1>3, <1>12 DEF Cast
<1>13. CASE Named
  <2>1. SpanEnd(sql, i + 1, Word) \in (i + 1)..EndOf(sql)
    BY <1>1, <1>2, <1>13, SpanIs DEF Named
  <2> QED
    BY <1>4, <1>13, <2>1 DEF Named, Kinds
<1>14. CASE LoneColon
  BY <1>1, <1>2, <1>3, <1>14 DEF LoneColon
<1>15. CASE JsonOperator
  BY <1>1, <1>2, <1>3, <1>15 DEF JsonOperator
<1>16. CASE EscapedQ
  BY <1>1, <1>2, <1>4, <1>16 DEF EscapedQ, Kinds
<1>17. CASE Ordinal
  BY <1>1, <1>2, <1>4, <1>17 DEF Ordinal, Kinds
<1>18. CASE Identifier
  BY <1>1, <1>3, <1>18, SpanIs DEF Identifier
<1>19. CASE Other
  BY <1>1, <1>2, <1>3, <1>19 DEF Other
<1>20. CASE LexEnds
  BY <1>20, EndFact
<1> QED
  BY <1>5, <1>6, <1>7, <1>8, <1>9, <1>10, <1>11, <1>12, <1>13, <1>14, <1>15, <1>16,
     <1>17, <1>18, <1>19, <1>20 DEF LexNext

(* The tokens of every text are the text, cut into pieces without gap or overlap
   or a piece of text after another, and the scan stays within it (lex). *)
THEOREM TextIsTiled == Spec => []TokensTile
<1>1. Init => IInv
  BY TextsChars, EmptySeq DEF Init, LexInit, IInv, Types, TokensTile, EndsInText, EndOf
<1>2. IInv /\ [Next]_vars => IInv'
  <2> SUFFICES ASSUME IInv, [Next]_vars
               PROVE  IInv'
    OBVIOUS
  <2>1. CASE Lex
    BY <2>1, LexStep DEF Lex
  <2>2. CASE \/ CompileFails \/ Compile \/ Bind
             \/ RenderVerbatim \/ RenderText \/ LookupFails
             \/ RenderWhole \/ RenderEmpty \/ RenderSlice \/ RenderEnds
    <3>1. UNCHANGED <<sql, i, textStart, toks>> /\ "lex" \notin {pc, pc'}
      BY <2>2 DEF CompileFails, Compile, Bind, RenderVerbatim, RenderText, LookupFails,
                  RenderWhole, RenderEmpty, RenderSlice, RenderEnds, Rendering, Rendered,
                  Stop, GoTo
    <3> QED
      BY <3>1, RestFact
  <2>3. CASE UNCHANGED vars
    BY <2>3, RestFact DEF vars, lexVars
  <2> QED
    BY <2>1, <2>2, <2>3 DEF Next, Finished
<1>3. IInv => TokensTile
  BY DEF IInv
<1> QED
  BY <1>1, <1>2, <1>3, PTL DEF Spec

-----------------------------------------------------------------------------
(* The parameters among the tokens. *)
FoundIn(ts) == {t \in Range(ts) : t.kind # "text"}

(* What the scan has found by i is what the reader found below i, who stands
   at i outside every region and in nothing that began before. *)
ScanInv ==
  /\ pc = "lex" => /\ ~(HiddenTo(sql)[i - 1] > i)
                   /\ Fresh(sql, i)
                   /\ FoundIn(toks) = ParamsBelow(sql, i)
  /\ pc # "lex" => FoundIn(toks) = ParamsOf(sql)

LEMMA FoundAppend ==
  ASSUME NEW ts \in Seq(Tokens), NEW token \in Tokens
  PROVE  FoundIn(Append(ts, token)) =
           IF token.kind = "text" THEN FoundIn(ts) ELSE FoundIn(ts) \cup {token}
<1> DEFINE longer == Append(ts, token)
<1>1. Len(ts) \in Nat /\ DOMAIN ts = 1..Len(ts)
  BY LenProperties
<1>2. /\ DOMAIN longer = 1..(Len(ts) + 1)
      /\ longer[Len(ts) + 1] = token
      /\ \A n \in 1..Len(ts) : longer[n] = ts[n]
  BY AppendProperties, LenProperties
<1> HIDE DEF longer
<1>3. \A x : x \in Range(longer) <=> x \in Range(ts) \/ x = token
  <2>1. \A x : x \in Range(longer) => x \in Range(ts) \/ x = token
    BY <1>1, <1>2 DEF Range
  <2>2. \A x : x \in Range(ts) => x \in Range(longer)
    BY <1>1, <1>2 DEF Range
  <2>3. token \in Range(longer)
    BY <1>1, <1>2 DEF Range
  <2> QED
    BY <2>1, <2>2, <2>3
<1>4. FoundIn(longer) = IF token.kind = "text" THEN FoundIn(ts) ELSE FoundIn(ts) \cup {token}
  BY <1>3 DEF FoundIn
<1> QED
  BY <1>4 DEF longer

LEMMA FoundFlushed ==
  ASSUME IInv, pc = "lex", NEW n \in Nat
  PROVE  FoundIn(Flushed(n)) = FoundIn(toks)
<1>1. toks \in Seq(Tokens) /\ textStart \in Nat
  BY DEF IInv, Types
<1>2. Token("text", textStart, n) \in Tokens /\ Token("text", textStart, n).kind = "text"
  BY <1>1 DEF Token, Tokens, Kinds
<1>3. FoundIn(Append(toks, Token("text", textStart, n))) = FoundIn(toks)
  BY <1>1, <1>2, FoundAppend
<1> QED
  BY <1>3 DEF Flushed

LEMMA FoundEmitted ==
  ASSUME IInv, pc = "lex", NEW kind \in Kinds, kind # "text", NEW hi \in Nat
  PROVE  FoundIn(Append(Flushed(i), Token(kind, i, hi))) = FoundIn(toks) \cup {Token(kind, i, hi)}
<1>1. i \in Nat /\ textStart <= i
  BY DEF IInv, Types, TokensTile
<1>2. Flushed(i) \in Seq(Tokens) /\ FoundIn(Flushed(i)) = FoundIn(toks)
  BY <1>1, FlushedFact, FoundFlushed
<1>3. Token(kind, i, hi) \in Tokens /\ Token(kind, i, hi).kind = kind
  BY <1>1 DEF Token, Tokens
<1> HIDE DEF FoundIn
<1>4. FoundIn(Append(Flushed(i), Token(kind, i, hi))) = FoundIn(Flushed(i)) \cup {Token(kind, i, hi)}
  BY <1>2, <1>3, FoundAppend
<1> QED
  BY <1>2, <1>4

-----------------------------------------------------------------------------
(* The three ways on: over a region, over characters where nothing is, and
   over a parameter. *)
LEMMA OverRegion ==
  ASSUME IInv, ScanInv, Scanning, RegionTo(sql, i) \in (i + 1)..EndOf(sql),
         i' = RegionTo(sql, i), UNCHANGED <<sql, pc, textStart, toks>>, Fresh(sql, i')
  PROVE  ScanInv'
<1>1. sql \in Seq(Chars) /\ i \in 1..Len(sql) /\ pc = "lex" /\ pc' = "lex"
  BY LenProperties DEF IInv, Types, TokensTile, Scanning, EndOf
<1>2. PICK hi \in (i + 1)..EndOf(sql) : hi = i'
  OBVIOUS
<1>3. hi \in Nat /\ i < hi /\ i \in Nat
  BY <1>1
<1>4. /\ \A m \in i..(hi - 1) : m \notin Visible(sql)
      /\ ~(HiddenTo(sql)[hi - 1] > hi)
  BY <1>1, <1>2, HiddenOver DEF ScanInv
<1>5. ParamsBelow(sql, hi) = ParamsBelow(sql, i)
  BY <1>1, <1>3, <1>4, ParamsGoOn
<1> QED
  BY <1>1, <1>2, <1>4, <1>5 DEF ScanInv, FoundIn

LEMMA OverPlain ==
  ASSUME IInv, ScanInv, Scanning, i' \in (i + 1)..EndOf(sql),
         \A m \in i..(i' - 1) : RegionTo(sql, m) = m /\ ParamsAt(sql, m) = {},
         UNCHANGED <<sql, pc, textStart, toks>>, Fresh(sql, i')
  PROVE  ScanInv'
<1>1. sql \in Seq(Chars) /\ i \in 1..Len(sql) /\ pc = "lex" /\ pc' = "lex"
  BY LenProperties DEF IInv, Types, TokensTile, Scanning, EndOf
<1>2. PICK hi \in (i + 1)..EndOf(sql) : hi = i'
  OBVIOUS
<1>3. hi \in Nat /\ i < hi /\ i \in Nat
  BY <1>1, <1>2 DEF EndOf
<1>4. ~(HiddenTo(sql)[hi - 1] > hi)
  BY <1>1, <1>2, SeenThrough DEF ScanInv
<1>5. ParamsBelow(sql, hi) = ParamsBelow(sql, i)
  <2>1. \A m \in i..(hi - 1) : m \notin Visible(sql) \/ ParamsAt(sql, m) = {}
    BY <1>2
  <2> QED
    BY <1>1, <1>3, <2>1, ParamsGoOn
<1> QED
  BY <1>1, <1>2, <1>4, <1>5 DEF ScanInv, FoundIn

LEMMA OverParam ==
  ASSUME IInv, ScanInv, Scanning, NEW hi \in (i + 1)..EndOf(sql),
         NEW kind \in Kinds, kind # "text", Emit(kind, hi),
         ParamsAt(sql, i) = {Token(kind, i, hi)},
         \A m \in i..(hi - 1) : RegionTo(sql, m) = m,
         \A m \in (i + 1)..(hi - 1) : ParamsAt(sql, m) = {},
         Fresh(sql, hi)
  PROVE  ScanInv'
<1>1. sql \in Seq(Chars) /\ i \in 1..Len(sql) /\ pc = "lex" /\ pc' = "lex" /\ sql' = sql /\ i' = hi
  BY LenProperties DEF IInv, Types, TokensTile, Scanning, EndOf, Emit
<1>2. hi \in Nat /\ i < hi /\ i \in Nat /\ i \in i..(hi - 1)
  BY <1>1 DEF EndOf
<1>3. i \in Visible(sql) /\ ~(HiddenTo(sql)[hi - 1] > hi)
  <2>1. ~(HiddenTo(sql)[i - 1] > i)
    BY <1>1 DEF ScanInv
  <2>2. /\ \A m \in i..(hi - 1) : m \in Visible(sql)
        /\ ~(HiddenTo(sql)[hi - 1] > hi)
    BY <1>1, <2>1, SeenThrough
  <2> QED
    BY <1>2, <2>2
<1>4. ParamsBelow(sql, hi) = ParamsBelow(sql, i) \cup {Token(kind, i, hi)}
  BY <1>1, <1>2, <1>3, ParamsGoOn
<1>5. FoundIn(toks') = FoundIn(toks) \cup {Token(kind, i, hi)}
  BY <1>1, <1>2, FoundEmitted DEF Emit
<1> QED
  BY <1>1, <1>3, <1>4, <1>5 DEF ScanInv, FoundIn

LEMMA FreshOver ==
  ASSUME NEW text \in Seq(Chars), NEW k \in Nat, 1 < k, k <= EndOf(text),
         text[k - 1] \notin Word \cup {":", "?"} \/ k = EndOf(text)
  PROVE  Fresh(text, k)
BY FreshAfter, FreshEnds

LEMMA FreshApart ==
  ASSUME NEW text \in Seq(Chars), NEW k \in Nat, 1 < k,
         ~Is(text, k, Word), Is(text, k, {":", "?"}) => text[k - 1] # text[k]
  PROVE  Fresh(text, k)
<1>1. ~Is(text, k, Letters)
  BY DEF Is, Word
<1> QED
  BY <1>1, OddFirst DEF Fresh

LEMMA RegionStep ==
  ASSUME IInv, ScanInv,
         LineComment \/ BlockComment \/ EscapeString \/ Quoted \/ DollarQuoted
  PROVE  ScanInv'
<1>1. /\ sql \in Seq(Chars) /\ i \in 1..Len(sql) /\ i \in Nat /\ Len(sql) \in Nat
      /\ EndOf(sql) = Len(sql) + 1 /\ pc = "lex" /\ Scanning
  BY LenProperties DEF IInv, Types, TokensTile, Scanning, EndOf,
     LineComment, BlockComment, EscapeString, Quoted, DollarQuoted
<1>2. ASSUME NEW hi \in (i + 1)..EndOf(sql), RegionTo(sql, i) = hi, SkipTo(hi), Fresh(sql, hi)
      PROVE  ScanInv'
  BY <1>1, <1>2, OverRegion DEF SkipTo
<1>3. ASSUME NEW hi \in (i + 1)..EndOf(sql),
             sql[hi - 1] \notin Word \cup {":", "?"} \/ hi = EndOf(sql)
      PROVE  Fresh(sql, hi)
  <2>1. hi \in Nat /\ 1 < hi /\ hi <= EndOf(sql)
    BY <1>1
  <2> QED
    BY <1>1, <1>3, <2>1, FreshOver
<1>4. \A c \in {"/", "'", "dq", "bt", "$"} : c \notin Word \cup {":", "?"}
  BY DEF Word, Letters, Digits, Numerals
<1>5. CASE LineComment
  <2>1. Pair(sql, i, "-", "-") /\ sql[i] = "-"
    BY <1>5 DEF LineComment, Pair, Is
  <2> DEFINE S == {sql[k] : k \in DOMAIN sql} \ {"nl"}
             end == SpanEnd(sql, i, S)
  <2>2. /\ end \in (i + 1)..EndOf(sql)
        /\ end < EndOf(sql) => sql[end] = "nl"
        /\ Least({j \in i..Len(sql) : sql[j] = "nl"}, EndOf(sql)) = end
    BY <1>1, <2>1, LineEnds
  <2>3. SkipTo(end)
    BY <1>5 DEF LineComment
  <2> HIDE DEF end
  <2>4. RegionTo(sql, i) = end
    BY <2>1, <2>2, RegionIs
  <2>5. \A W : "nl" \notin W => ~Is(sql, end, W)
    BY <2>2 DEF Is
  <2>6. Fresh(sql, end)
    <3>1. "nl" \notin Word /\ "nl" \notin {":", "?"}
      BY DEF Word, Letters, Digits, Numerals
    <3>2. ~Is(sql, end, Word) /\ ~Is(sql, end, {":", "?"}) /\ end \in Nat /\ 1 < end
      BY <1>1, <2>2, <2>5, <3>1
    <3> QED
      BY <1>1, <3>2, FreshApart
  <2> QED
    BY <1>2, <2>2, <2>3, <2>4, <2>6
<1>6. CASE BlockComment
  <2>1. Pair(sql, i, "/", "*") /\ SkipTo(CommentEnd(i))
    BY <1>6 DEF BlockComment
  <2>2. PICK end : end = CommentEnd(i)
    OBVIOUS
  <2>3. /\ end = CommentTo(sql, i)
        /\ end \in (i + 2)..EndOf(sql)
        /\ end < EndOf(sql) => sql[end - 1] = "/"
    BY <1>1, <2>1, <2>2, CommentEndMeets
  <2>4. RegionTo(sql, i) = end
    BY <2>1, <2>3, RegionIs
  <2>5. end \in (i + 1)..EndOf(sql)
    BY <1>1, <2>3
  <2>6. sql[end - 1] \notin Word \cup {":", "?"} \/ end = EndOf(sql)
    BY <1>1, <1>4, <2>3
  <2> QED
    BY <1>2, <1>3, <2>1, <2>2, <2>4, <2>5, <2>6
<1>7. CASE EscapeString
  <2>1. Pair(sql, i, "E", "'") /\ SkipTo(EscapeEnd(i + 1))
    BY <1>7 DEF EscapeString, StartsEscape
  <2>2. i + 1 \in 1..Len(sql) /\ sql[i + 1] = "'"
    BY <1>1, <2>1 DEF Pair, Is
  <2>3. PICK end : end = EscapeEnd(i + 1)
    OBVIOUS
  <2>4. PICK k \in 1..Len(sql) : k = i + 1
    BY <2>2
  <2>5. end = QuotedTo(sql, k, TRUE)
    BY <1>1, <2>2, <2>3, <2>4, EscapeEndMeets
  <2>6. /\ end \in (k + 1)..EndOf(sql)
        /\ end < EndOf(sql) => sql[end - 1] = sql[k]
    BY <1>1, <2>5, QuotedToEnds
  <2>7. EscapeAt(sql, i)
    BY <1>1, <2>1, FreshEscape DEF ScanInv
  <2>8. RegionTo(sql, i) = end
    BY <2>4, <2>5, <2>7, RegionIs
  <2>9. end \in (i + 1)..EndOf(sql)
    BY <1>1, <2>4, <2>6
  <2>10. sql[end - 1] \notin Word \cup {":", "?"} \/ end = EndOf(sql)
    BY <1>1, <1>4, <2>2, <2>4, <2>6
  <2> QED
    BY <1>2, <1>3, <2>1, <2>3, <2>8, <2>9, <2>10
<1>8. CASE Quoted
  <2>1. Is(sql, i, Quotes) /\ sql[i] \in {"'", "dq", "bt"} /\ SkipTo(QuoteEnd(i))
    BY <1>8 DEF Quoted, Is, Quotes
  <2>2. PICK end : end = QuoteEnd(i)
    OBVIOUS
  <2>3. end = QuotedTo(sql, i, FALSE)
    BY <1>1, <2>2, QuoteEndMeets
  <2>4. /\ end \in (i + 1)..EndOf(sql)
        /\ end < EndOf(sql) => sql[end - 1] = sql[i]
    BY <1>1, <2>3, QuotedToEnds
  <2>5. RegionTo(sql, i) = end
    BY <2>1, <2>3, RegionIs
  <2>6. sql[end - 1] \notin Word \cup {":", "?"} \/ end = EndOf(sql)
    BY <1>1, <1>4, <2>1, <2>4
  <2> QED
    BY <1>2, <1>3, <2>1, <2>2, <2>4, <2>5, <2>6
<1>9. CASE DollarQuoted
  <2>1. TagAt(sql, i) /\ HasTag(sql, i) /\ SkipTo(DollarEnd(sql, i))
    BY <1>9 DEF DollarQuoted, TagAt
  <2>2. PICK end : end = DollarEnd(sql, i)
    OBVIOUS
  <2>3. /\ end \in (i + 1)..EndOf(sql)
        /\ sql[end - 1] = "$" \/ end = EndOf(sql)
    BY <1>1, <2>1, <2>2, DollarIs
  <2>4. RegionTo(sql, i) = end
    BY <2>1, <2>2, RegionIs
  <2>5. sql[end - 1] \notin Word \cup {":", "?"} \/ end = EndOf(sql)
    BY <1>4, <2>3
  <2> QED
    BY <1>2, <1>3, <2>1, <2>2, <2>3, <2>4, <2>5
<1> QED
  BY <1>5, <1>6, <1>7, <1>8, <1>9

(* Characters that are told apart by what they are. *)
LEMMA CharFacts ==
  /\ \A c \in Word : c \notin {":", "?", "$", "'", "dq", "bt", "-", "/", "|", "&", "nl"}
  /\ \A c \in Digits : c \notin Letters
  /\ Letters \subseteq Word /\ Digits \subseteq Word /\ Word \subseteq Letters \cup Digits
BY DEF Word, Letters, Digits, Numerals

LEMMA PlainStep ==
  ASSUME IInv, ScanInv,
         LoneDollar \/ Cast \/ LoneColon \/ JsonOperator \/ Identifier \/ Other
  PROVE  ScanInv'
<1>1. /\ sql \in Seq(Chars) /\ i \in 1..Len(sql) /\ i \in Nat /\ Len(sql) \in Nat
      /\ EndOf(sql) = Len(sql) + 1 /\ pc = "lex" /\ Scanning /\ i < EndOf(sql)
      /\ Fresh(sql, i)
  BY LenProperties DEF IInv, Types, TokensTile, ScanInv, Scanning, EndOf,
     LoneDollar, Cast, LoneColon, JsonOperator, Identifier, Other
<1>2. ASSUME NEW hi \in (i + 1)..EndOf(sql), SkipTo(hi), Fresh(sql, hi),
             \A m \in i..(hi - 1) : RegionTo(sql, m) = m /\ ParamsAt(sql, m) = {}
      PROVE  ScanInv'
  BY <1>1, <1>2, OverPlain DEF SkipTo
<1>3. ASSUME SkipTo(i + 1), Fresh(sql, i + 1), RegionTo(sql, i) = i, ParamsAt(sql, i) = {}
      PROVE  ScanInv'
  <2>1. i + 1 \in (i + 1)..EndOf(sql) /\ \A m \in i..((i + 1) - 1) : m = i
    BY <1>1
  <2> QED
    BY <1>2, <1>3, <2>1
<1>4. ASSUME SkipTo(i + 2), Fresh(sql, i + 2), Is(sql, i + 1, {sql[i + 1]}),
             RegionTo(sql, i) = i, ParamsAt(sql, i) = {},
             RegionTo(sql, i + 1) = i + 1, ParamsAt(sql, i + 1) = {}
      PROVE  ScanInv'
  <2>1. i + 2 \in (i + 1)..EndOf(sql) /\ \A m \in i..((i + 2) - 1) : m = i \/ m = i + 1
    BY <1>1, <1>4 DEF Is
  <2> QED
    BY <1>2, <1>4, <2>1
<1>5. (i + 1) - 1 = i /\ (i + 2) - 1 = i + 1 /\ 1 < i + 1 /\ 1 < i + 2 /\ i + 1 \in Nat /\ i + 2 \in Nat
  BY <1>1
<1>6. CASE LoneDollar
  <2>1. sql[i] = "$" /\ ~Is(sql, i + 1, Digits) /\ ~HasTag(sql, i) /\ SkipTo(i + 1)
    BY <1>6 DEF LoneDollar, Is
  <2>2. ParamsAt(sql, i) = {}
    BY <2>1 DEF ParamsAt, Is
  <2>3. RegionTo(sql, i) = i
    <3>1. /\ ~Pair(sql, i, "-", "-") /\ ~Pair(sql, i, "/", "*") /\ ~EscapeAt(sql, i)
          /\ ~Is(sql, i, Quotes) /\ ~TagAt(sql, i)
      BY <2>1 DEF Pair, Is, EscapeAt, Quotes, TagAt
    <3> QED
      BY <3>1, NoRegion
  <2>4. Fresh(sql, i + 1)
    <3>1. sql[i] \notin Word \cup {":", "?"}
      BY <2>1, CharFacts
    <3> QED
      BY <1>1, <1>5, <3>1, FreshAfter
  <2> QED
    BY <1>3, <2>1, <2>2, <2>3, <2>4
<1>7. CASE Cast
  <2>1. /\ sql[i] = ":" /\ sql[i + 1] = ":" /\ Is(sql, i, {":", "?"}) /\ Is(sql, i + 1, {sql[i + 1]})
        /\ SkipTo(i + 2)
    BY <1>7 DEF Cast, Pair, Is
  <2>2. OddInRun(sql, i) /\ ~OddInRun(sql, i + 1)
    BY <1>1, <2>1, OddNext DEF Fresh
  <2>3. RegionTo(sql, i) = i /\ RegionTo(sql, i + 1) = i + 1
    BY <2>1, PlainAt
  <2>4. ParamsAt(sql, i) = {}
    <3>1. ~Is(sql, i + 1, Letters)
      BY <2>1, CharFacts DEF Is
    <3> QED
      BY <2>1, <3>1 DEF ParamsAt, Is
  <2>5. ParamsAt(sql, i + 1) = {}
    BY <2>1, <2>2 DEF ParamsAt, Is
  <2>6. Fresh(sql, i + 2)
    <3>1. \A j \in 1..((i + 2) - 1) : \E m \in j..((i + 2) - 1) : sql[m] \notin Word
      <4> TAKE j \in 1..((i + 2) - 1)
      <4>1. i + 1 \in j..((i + 2) - 1)
        BY <1>1
      <4> QED
        BY <2>1, <4>1, CharFacts
    <3>2. Is(sql, i + 2, {":", "?"}) => OddInRun(sql, i + 2)
      <4>1. CASE sql[i + 2] = ":"
        <5>1. PICK k \in Nat : k = i + 1
          BY <1>5
        <5>2. sql[k + 1] = sql[k] /\ 1 <= k /\ k + 1 = i + 2
          BY <1>1, <2>1, <4>1, <5>1
        <5>3. OddInRun(sql, k + 1)
          BY <2>2, <5>1, <5>2, OddNext
        <5> QED
          BY <5>2, <5>3
      <4>2. CASE sql[i + 2] # ":"
        <5>1. sql[(i + 2) - 1] # sql[i + 2]
          BY <1>5, <2>1, <4>2
        <5> QED
          BY <1>5, <5>1, OddFirst
      <4> QED
        BY <4>1, <4>2
    <3> QED
      BY <1>5, <2>2, <3>1, <3>2 DEF Fresh
  <2> QED
    BY <1>4, <2>1, <2>3, <2>4, <2>5, <2>6
<1>8. CASE LoneColon
  <2>1. sql[i] = ":" /\ ~Is(sql, i + 1, Letters \cup {":"}) /\ SkipTo(i + 1)
    BY <1>8 DEF LoneColon, Is
  <2>2. RegionTo(sql, i) = i
    BY <2>1, PlainAt
  <2>3. ParamsAt(sql, i) = {}
    <3>1. ~Is(sql, i + 1, Letters)
      BY <2>1 DEF Is
    <3> QED
      BY <2>1, <3>1 DEF ParamsAt, Is
  <2>4. Fresh(sql, i + 1)
    <3>1. \A j \in 1..((i + 1) - 1) : \E m \in j..((i + 1) - 1) : sql[m] \notin Word
      <4> TAKE j \in 1..((i + 1) - 1)
      <4>1. i \in j..((i + 1) - 1)
        BY <1>1
      <4> QED
        BY <2>1, <4>1, CharFacts
    <3>2. ~Is(sql, i + 1, Letters)
      BY <2>1 DEF Is
    <3>3. Is(sql, i + 1, {":", "?"}) => OddInRun(sql, i + 1)
      <4>1. Is(sql, i + 1, {":", "?"}) => sql[(i + 1) - 1] # sql[i + 1]
        BY <1>5, <2>1 DEF Is
      <4> QED
        BY <1>5, <4>1, OddFirst
    <3> QED
      BY <3>1, <3>2, <3>3 DEF Fresh
  <2> QED
    BY <1>3, <2>1, <2>2, <2>3, <2>4
<1>9. CASE JsonOperator
  <2>1. /\ sql[i] = "?" /\ sql[i + 1] \in {"|", "&"} /\ Is(sql, i + 1, {"|", "&"})
        /\ Is(sql, i + 1, {sql[i + 1]}) /\ SkipTo(i + 2)
    BY <1>9 DEF JsonOperator, Is
  <2>2. RegionTo(sql, i) = i
    BY <2>1, PlainAt
  <2>3. ParamsAt(sql, i) = {}
    BY <2>1 DEF ParamsAt, Is
  <2>4. ParamsAt(sql, i + 1) = {}
    BY <2>1 DEF ParamsAt, Is
  <2>5. RegionTo(sql, i + 1) = i + 1
    <3>1. /\ ~Pair(sql, i + 1, "-", "-") /\ ~Pair(sql, i + 1, "/", "*") /\ ~EscapeAt(sql, i + 1)
          /\ ~Is(sql, i + 1, Quotes) /\ ~TagAt(sql, i + 1)
      BY <2>1 DEF Pair, Is, EscapeAt, Quotes, TagAt
    <3> QED
      BY <3>1, NoRegion
  <2>6. Fresh(sql, i + 2)
    <3>1. sql[i + 1] \notin Word \cup {":", "?"}
      BY <2>1, CharFacts
    <3> QED
      BY <1>1, <1>5, <3>1, FreshAfter
  <2> QED
    BY <1>4, <2>1, <2>2, <2>3, <2>4, <2>5, <2>6
<1>10. CASE Identifier
  <2>1. sql[i] \in Letters /\ ~Pair(sql, i, "E", "'") /\ SkipTo(SpanEnd(sql, i, Word))
    BY <1>10 DEF Identifier, StartsEscape, Is
  <2>2. PICK end : end = SpanEnd(sql, i, Word)
    OBVIOUS
  <2>3. /\ end \in i..EndOf(sql)
        /\ ~Is(sql, end, Word)
        /\ \A m \in i..(end - 1) : Is(sql, m, Word)
    <3>1. i \in 1..EndOf(sql)
      BY <1>1
    <3> QED
      BY <1>1, <2>2, <3>1, SpanIs
  <2>4. Is(sql, i, Word)
    BY <1>1, <2>1, CharFacts DEF Is
  <2>5. end \in (i + 1)..EndOf(sql) /\ end \in Nat /\ 1 < end /\ end - 1 \in i..(end - 1)
    <3>1. end # i /\ end \in Nat /\ i <= end /\ end <= EndOf(sql)
      BY <1>1, <2>3, <2>4
    <3> QED
      BY <1>1, <3>1
  <2>6. \A m \in i..(end - 1) : sql[m] \in Word
    BY <2>3 DEF Is
  <2>7. ASSUME NEW m \in i..(end - 1)
        PROVE  RegionTo(sql, m) = m /\ ParamsAt(sql, m) = {}
    <3>1. ~EscapeAt(sql, m)
      <4>1. CASE m = i
        BY <2>1, <4>1 DEF EscapeAt
      <4>2. CASE m # i
        <5>1. i \in 1..(m - 1) /\ \A n \in i..(m - 1) : n \in i..(end - 1)
          BY <1>1, <2>5, <4>2
        <5> QED
          BY <2>1, <2>6, <5>1 DEF EscapeAt
      <4> QED
        BY <4>1, <4>2
    <3>2. sql[m] \in Word /\ sql[m] \notin {":", "$", "?"}
      BY <2>6, CharFacts
    <3> QED
      BY <3>1, <3>2, PlainAt
  <2>8. Fresh(sql, end)
    <3>1. Is(sql, end, {":", "?"}) => sql[end - 1] # sql[end]
      BY <2>5, <2>6, CharFacts DEF Is
    <3> QED
      BY <1>1, <2>3, <2>5, <3>1, FreshApart
  <2> QED
    BY <1>2, <2>1, <2>2, <2>5, <2>7, <2>8
<1>11. CASE Other
  <2>1. /\ ~Pair(sql, i, "-", "-") /\ ~Pair(sql, i, "/", "*")
        /\ sql[i] \notin Letters \cup Quotes \cup {"$", ":", "?"} /\ SkipTo(i + 1)
    BY <1>11 DEF Other, StartsComment
  <2>2. ParamsAt(sql, i) = {}
    BY <2>1, PlainAt
  <2>3. RegionTo(sql, i) = i
    <3>1. ~EscapeAt(sql, i) /\ ~Is(sql, i, Quotes) /\ ~TagAt(sql, i)
      BY <2>1 DEF Pair, Is, EscapeAt, TagAt, Letters
    <3> QED
      BY <2>1, <3>1, NoRegion
  <2>4. Fresh(sql, i + 1)
    <3>1. CASE sql[i] \notin Word
      BY <1>1, <1>5, <2>1, <3>1, FreshAfter
    <3>2. CASE sql[i] \in Word
      <4>1. Is(sql, i, Word) /\ sql[i] # ":"
        BY <1>1, <2>1, <3>2 DEF Is
      <4>2. \A j \in 1..((i + 1) - 1) :
              sql[j] \in Letters => \E m \in j..((i + 1) - 1) : sql[m] \notin Word
        <5> SUFFICES ASSUME NEW j \in 1..((i + 1) - 1), sql[j] \in Letters
                     PROVE  \E m \in j..((i + 1) - 1) : sql[m] \notin Word
          OBVIOUS
        <5>1. j \in 1..(i - 1)
          <6>1. j # i /\ j \in 1..i
            BY <1>1, <2>1
          <6> QED
            BY <1>1, <6>1
        <5>2. PICK m \in j..(i - 1) : sql[m] \notin Word
          BY <1>1, <4>1, <5>1 DEF Fresh
        <5>3. m \in j..((i + 1) - 1)
          BY <1>1, <5>1, <5>2
        <5> QED
          BY <5>2, <5>3
      <4>3. Is(sql, i + 1, {":", "?"}) => OddInRun(sql, i + 1)
        <5>1. Is(sql, i + 1, {":", "?"}) => sql[(i + 1) - 1] # sql[i + 1]
          BY <1>5, <3>2, CharFacts DEF Is
        <5> QED
          BY <1>5, <5>1, OddFirst
      <4> QED
        BY <1>5, <4>1, <4>2, <4>3 DEF Fresh
    <3> QED
      BY <3>1, <3>2
  <2> QED
    BY <1>3, <2>1, <2>2, <2>3, <2>4
<1> QED
  BY <1>6, <1>7, <1>8, <1>9, <1>10, <1>11

LEMMA ParamStep ==
  ASSUME IInv, ScanInv, Numbered \/ Named \/ EscapedQ \/ Ordinal
  PROVE  ScanInv'
<1>1. /\ sql \in Seq(Chars) /\ i \in 1..Len(sql) /\ i \in Nat /\ Len(sql) \in Nat
      /\ EndOf(sql) = Len(sql) + 1 /\ pc = "lex" /\ Scanning /\ i < EndOf(sql)
      /\ Fresh(sql, i)
  BY LenProperties DEF IInv, Types, TokensTile, ScanInv, Scanning, EndOf,
     Numbered, Named, EscapedQ, Ordinal
<1>2. (i + 1) - 1 = i /\ (i + 2) - 1 = i + 1 /\ 1 < i + 1 /\ 1 < i + 2 /\ i + 1 \in Nat /\ i + 2 \in Nat
  BY <1>1
<1>3. {"named", "numbered", "escapedQ", "ordinal"} \subseteq Kinds \ {"text"}
  BY DEF Kinds
<1>4. ASSUME NEW S, Is(sql, i + 1, S)
      PROVE  /\ SpanEnd(sql, i + 1, Word) \in (i + 1)..EndOf(sql)
             /\ SpanEnd(sql, i + 1, Digits) \in (i + 1)..EndOf(sql)
             /\ ~Is(sql, SpanEnd(sql, i + 1, Word), Word)
             /\ ~Is(sql, SpanEnd(sql, i + 1, Digits), Digits)
             /\ \A m \in (i + 1)..(SpanEnd(sql, i + 1, Word) - 1) : Is(sql, m, Word)
             /\ \A m \in (i + 1)..(SpanEnd(sql, i + 1, Digits) - 1) : Is(sql, m, Digits)
  <2>1. i + 1 \in 1..EndOf(sql)
    BY <1>1, <1>4 DEF Is
  <2> QED
    BY <1>1, <2>1, SpanIs
<1>5. CASE Numbered
  <2>1. /\ sql[i] = "$" /\ Is(sql, i, {"$"}) /\ Is(sql, i + 1, Digits)
        /\ Emit("numbered", SpanEnd(sql, i + 1, Digits))
    BY <1>5 DEF Numbered, Is
  <2>2. PICK end : end = SpanEnd(sql, i + 1, Digits)
    OBVIOUS
  <2>3. /\ end \in (i + 1)..EndOf(sql)
        /\ ~Is(sql, end, Digits)
        /\ \A m \in (i + 1)..(end - 1) : Is(sql, m, Digits)
    BY <1>4, <2>1, <2>2
  <2>4. end \in Nat /\ i + 1 < end /\ 1 < end /\ end - 1 \in (i + 1)..(end - 1)
    <3>1. end # i + 1 /\ end \in Nat /\ i + 1 <= end
      BY <1>1, <2>1, <2>3
    <3> QED
      BY <1>1, <3>1
  <2>5. \A m \in (i + 1)..(end - 1) : sql[m] \in Digits /\ sql[m] \notin Letters
    BY <2>3, CharFacts DEF Is
  <2>6. ParamsAt(sql, i) = {Token("numbered", i, end)}
    BY <2>1, <2>2 DEF ParamsAt, Is
  <2>7. RegionTo(sql, i) = i
    <3>1. /\ ~Pair(sql, i, "-", "-") /\ ~Pair(sql, i, "/", "*") /\ ~EscapeAt(sql, i)
          /\ ~Is(sql, i, Quotes) /\ ~TagAt(sql, i)
      BY <2>1 DEF Pair, Is, EscapeAt, Quotes, TagAt
    <3> QED
      BY <3>1, NoRegion
  <2>8. \A m \in i..(end - 1) : RegionTo(sql, m) = m
    <3>1. \A m \in (i + 1)..(end - 1) : RegionTo(sql, m) = m
      BY <2>5, PlainAt
    <3>2. \A m \in i..(end - 1) : m = i \/ m \in (i + 1)..(end - 1)
      BY <1>1
    <3> QED
      BY <2>7, <3>1, <3>2
  <2>9. \A m \in (i + 1)..(end - 1) : ParamsAt(sql, m) = {}
    <3>1. \A m \in (i + 1)..(end - 1) : sql[m] \notin {":", "$", "?"}
      BY <2>5, CharFacts
    <3> QED
      BY <3>1, PlainAt
  <2>10. Fresh(sql, end)
    <3>1. \A j \in 1..(end - 1) : sql[j] \in Letters => \E m \in j..(end - 1) : sql[m] \notin Word
      <4> SUFFICES ASSUME NEW j \in 1..(end - 1), sql[j] \in Letters
                   PROVE  \E m \in j..(end - 1) : sql[m] \notin Word
        OBVIOUS
      <4>1. j \notin (i + 1)..(end - 1)
        BY <2>5
      <4>2. i \in j..(end - 1)
        BY <1>1, <2>4, <4>1
      <4> QED
        BY <2>1, <4>2, CharFacts
    <3>2. sql[end - 1] \in Word
      BY <2>4, <2>5, CharFacts
    <3>3. sql[end - 1] \notin {":", "?"}
      BY <3>2, CharFacts
    <3>4. Is(sql, end, {":", "?"}) => OddInRun(sql, end)
      <4>1. Is(sql, end, {":", "?"}) => sql[end - 1] # sql[end]
        BY <3>3 DEF Is
      <4> QED
        BY <2>4, <4>1, OddFirst
    <3>5. sql[end - 1] # ":"
      BY <3>3
    <3> QED
      BY <3>1, <3>4, <3>5 DEF Fresh
  <2>11. end \in (i + 1)..EndOf(sql) /\ "numbered" \in Kinds /\ "numbered" # "text"
    BY <1>3, <2>3
  <2>12. Emit("numbered", end)
    BY <2>1, <2>2
  <2> QED
    BY <1>1, <2>6, <2>8, <2>9, <2>10, <2>11, <2>12, OverParam
<1>6. CASE Named
  <2>1. /\ sql[i] = ":" /\ Is(sql, i, {":"}) /\ Is(sql, i, {":", "?"}) /\ Is(sql, i + 1, Letters)
        /\ sql[i + 1] \in Letters /\ Emit("named", SpanEnd(sql, i + 1, Word))
    BY <1>6 DEF Named, Is
  <2>2. PICK end : end = SpanEnd(sql, i + 1, Word)
    OBVIOUS
  <2>3. /\ end \in (i + 1)..EndOf(sql)
        /\ ~Is(sql, end, Word)
        /\ \A m \in (i + 1)..(end - 1) : Is(sql, m, Word)
    BY <1>4, <2>1, <2>2
  <2>4. end \in Nat /\ i + 1 < end /\ 1 < end /\ end - 1 \in (i + 1)..(end - 1)
    <3>1. Is(sql, i + 1, Word)
      BY <2>1, CharFacts DEF Is
    <3>2. end # i + 1 /\ end \in Nat /\ i + 1 <= end
      BY <1>1, <2>3, <3>1
    <3> QED
      BY <1>1, <3>2
  <2>5. \A m \in (i + 1)..(end - 1) : sql[m] \in Word
    BY <2>3 DEF Is
  <2>6. OddInRun(sql, i)
    BY <1>1, <2>1 DEF Fresh
  <2>7. ParamsAt(sql, i) = {Token("named", i, end)}
    BY <2>1, <2>2, <2>6 DEF ParamsAt, Is
  <2>8. ASSUME NEW m \in (i + 1)..(end - 1)
        PROVE  RegionTo(sql, m) = m /\ ParamsAt(sql, m) = {}
    <3>1. ~EscapeAt(sql, m)
      <4>1. CASE m = i + 1
        BY <1>2, <2>1, <2>6, <4>1 DEF EscapeAt
      <4>2. CASE m # i + 1
        <5>1. i + 1 \in 1..(m - 1) /\ \A n \in (i + 1)..(m - 1) : n \in (i + 1)..(end - 1)
          BY <1>1, <2>4, <4>2
        <5> QED
          BY <2>1, <2>5, <5>1 DEF EscapeAt
      <4> QED
        BY <4>1, <4>2
    <3>2. sql[m] \in Word /\ sql[m] \notin {":", "$", "?"}
      BY <2>5, CharFacts
    <3> QED
      BY <3>1, <3>2, PlainAt
  <2>9. \A m \in i..(end - 1) : RegionTo(sql, m) = m
    <3>1. RegionTo(sql, i) = i
      BY <2>1, PlainAt
    <3>2. \A m \in i..(end - 1) : m = i \/ m \in (i + 1)..(end - 1)
      BY <1>1
    <3> QED
      BY <2>8, <3>1, <3>2
  <2>10. Fresh(sql, end)
    <3>1. Is(sql, end, {":", "?"}) => sql[end - 1] # sql[end]
      BY <2>4, <2>5, CharFacts DEF Is
    <3> QED
      BY <1>1, <2>3, <2>4, <3>1, FreshApart
  <2>11. end \in (i + 1)..EndOf(sql) /\ "named" \in Kinds /\ "named" # "text"
    BY <1>3, <2>3
  <2>12. Emit("named", end)
    BY <2>1, <2>2
  <2>13. \A m \in (i + 1)..(end - 1) : ParamsAt(sql, m) = {}
    BY <2>8
  <2> QED
    BY <1>1, <2>7, <2>9, <2>10, <2>11, <2>12, <2>13, OverParam
<1>7. CASE EscapedQ
  <2>1. /\ sql[i] = "?" /\ sql[i + 1] = "?" /\ Is(sql, i, {"?"}) /\ Is(sql, i, {":", "?"})
        /\ Is(sql, i + 1, {"?"}) /\ Emit("escapedQ", i + 2)
    BY <1>7 DEF EscapedQ, Pair, Is
  <2>2. OddInRun(sql, i) /\ ~OddInRun(sql, i + 1)
    BY <1>1, <2>1, OddNext DEF Fresh
  <2>3. ParamsAt(sql, i) = {Token("escapedQ", i, i + 2)}
    BY <2>1, <2>2 DEF ParamsAt, Is
  <2>4. RegionTo(sql, i) = i /\ RegionTo(sql, i + 1) = i + 1
    BY <2>1, PlainAt
  <2>5. ParamsAt(sql, i + 1) = {}
    BY <2>1, <2>2 DEF ParamsAt, Is
  <2>6. Fresh(sql, i + 2)
    <3>1. \A j \in 1..((i + 2) - 1) : \E m \in j..((i + 2) - 1) : sql[m] \notin Word
      <4> TAKE j \in 1..((i + 2) - 1)
      <4>1. i + 1 \in j..((i + 2) - 1)
        BY <1>1
      <4> QED
        BY <2>1, <4>1, CharFacts
    <3>2. Is(sql, i + 2, {":", "?"}) => OddInRun(sql, i + 2)
      <4>1. CASE sql[i + 2] = "?"
        <5>1. PICK k \in Nat : k = i + 1
          BY <1>2
        <5>2. sql[k + 1] = sql[k] /\ 1 <= k /\ k + 1 = i + 2
          BY <1>1, <2>1, <4>1, <5>1
        <5>3. OddInRun(sql, k + 1)
          BY <2>2, <5>1, <5>2, OddNext
        <5> QED
          BY <5>2, <5>3
      <4>2. CASE sql[i + 2] # "?"
        <5>1. sql[(i + 2) - 1] # sql[i + 2]
          BY <1>2, <2>1, <4>2
        <5> QED
          BY <1>2, <5>1, OddFirst
      <4> QED
        BY <4>1, <4>2
    <3>3. sql[(i + 2) - 1] # ":"
      BY <1>2, <2>1
    <3> QED
      BY <3>1, <3>2, <3>3 DEF Fresh
  <2>7. i + 2 \in (i + 1)..EndOf(sql) /\ "escapedQ" \in Kinds /\ "escapedQ" # "text"
    BY <1>1, <1>3, <2>1 DEF Is
  <2>8. \A m \in i..((i + 2) - 1) : m = i \/ m = i + 1
    BY <1>1
  <2>9. \A m \in (i + 1)..((i + 2) - 1) : m = i + 1
    BY <1>1
  <2>10. \A m \in i..((i + 2) - 1) : RegionTo(sql, m) = m
    BY <2>4, <2>8
  <2>11. \A m \in (i + 1)..((i + 2) - 1) : ParamsAt(sql, m) = {}
    BY <2>5, <2>9
  <2> QED
    BY <1>1, <2>1, <2>3, <2>6, <2>7, <2>10, <2>11, OverParam
<1>8. CASE Ordinal
  <2>1. /\ sql[i] = "?" /\ Is(sql, i, {"?"}) /\ Is(sql, i, {":", "?"})
        /\ ~Is(sql, i + 1, {"|", "&", "?"}) /\ Emit("ordinal", i + 1)
    BY <1>8 DEF Ordinal, Is
  <2>2. OddInRun(sql, i)
    BY <1>1, <2>1 DEF Fresh
  <2>3. ParamsAt(sql, i) = {Token("ordinal", i, i + 1)}
    BY <2>1, <2>2 DEF ParamsAt, Is
  <2>4. RegionTo(sql, i) = i
    BY <2>1, PlainAt
  <2>5. Fresh(sql, i + 1)
    <3>1. \A j \in 1..((i + 1) - 1) : \E m \in j..((i + 1) - 1) : sql[m] \notin Word
      <4> TAKE j \in 1..((i + 1) - 1)
      <4>1. i \in j..((i + 1) - 1)
        BY <1>1
      <4> QED
        BY <2>1, <4>1, CharFacts
    <3>2. Is(sql, i + 1, {":", "?"}) => OddInRun(sql, i + 1)
      <4>1. Is(sql, i + 1, {":", "?"}) => sql[(i + 1) - 1] # sql[i + 1]
        BY <1>2, <2>1 DEF Is
      <4> QED
        BY <1>2, <4>1, OddFirst
    <3>3. sql[(i + 1) - 1] # ":"
      BY <1>2, <2>1
    <3> QED
      BY <3>1, <3>2, <3>3 DEF Fresh
  <2>6. i + 1 \in (i + 1)..EndOf(sql) /\ "ordinal" \in Kinds /\ "ordinal" # "text"
    BY <1>1, <1>3
  <2>7. /\ \A m \in i..((i + 1) - 1) : m = i
        /\ \A m \in (i + 1)..((i + 1) - 1) : FALSE
    BY <1>1
  <2>8. \A m \in i..((i + 1) - 1) : RegionTo(sql, m) = m
    BY <2>4, <2>7
  <2>9. \A m \in (i + 1)..((i + 1) - 1) : ParamsAt(sql, m) = {}
    BY <2>7
  <2> QED
    BY <1>1, <2>1, <2>3, <2>5, <2>6, <2>8, <2>9, OverParam
<1> QED
  BY <1>5, <1>6, <1>7, <1>8

LEMMA LastStep ==
  ASSUME IInv, ScanInv, LexEnds
  PROVE  ScanInv'
<1>1. /\ sql \in Seq(Chars) /\ i = EndOf(sql) /\ EndOf(sql) = Len(sql) + 1 /\ Len(sql) \in Nat
      /\ pc = "lex" /\ pc' = "compile" /\ sql' = sql
  BY LenProperties DEF IInv, Types, TokensTile, LexEnds, EndOf
<1>2. FoundIn(toks') = FoundIn(toks)
  BY <1>1, FoundFlushed DEF LexEnds
<1>3. ParamsBelow(sql, EndOf(sql)) = ParamsOf(sql)
  <2>1. \A t \in ParamsOf(sql) : t.lo \in Visible(sql)
    BY ParamsByPlace
  <2>2. \A k \in Visible(sql) : k < EndOf(sql)
    BY <1>1 DEF Visible
  <2> QED
    BY <2>1, <2>2 DEF ParamsBelow
<1>4. FoundIn(toks) = ParamsOf(sql)
  BY <1>1, <1>3 DEF ScanInv
<1> QED
  BY <1>1, <1>2, <1>4 DEF ScanInv, FoundIn

LEMMA OtherStep ==
  ASSUME ScanInv, UNCHANGED <<sql, i, toks>>, pc' = pc \/ "lex" \notin {pc, pc'}
  PROVE  ScanInv'
BY DEF ScanInv, FoundIn

(* Nothing is open before the first character. *)
LEMMA FirstState ==
  ASSUME Init
  PROVE  ScanInv
<1>1. sql \in Seq(Chars) /\ pc = "lex" /\ i = 1 /\ toks = << >>
  BY TextsChars DEF Init, LexInit
<1>2. HiddenTo(sql)[1 - 1] = 0
  BY <1>1, HiddenIs
<1>3. FoundIn(toks) = {}
  BY <1>1 DEF FoundIn, Range
<1>4. ParamsBelow(sql, 1) = {}
  <2>1. \A t \in ParamsOf(sql) : t.lo \in Visible(sql)
    BY ParamsByPlace
  <2>2. \A k \in Visible(sql) : ~(k < 1)
    BY <1>1 DEF Visible
  <2> QED
    BY <2>1, <2>2 DEF ParamsBelow
<1>5. ~(HiddenTo(sql)[i - 1] > i)
  BY <1>1, <1>2
<1> QED
  BY <1>1, <1>3, <1>4, <1>5, FreshEnds DEF ScanInv

(* The scan starts, and goes on, as these invariants say. *)
LEMMA ScanStarts ==
  ASSUME Init
  PROVE  IInv /\ ScanInv
<1>1. IInv
  BY TextsChars, EmptySeq DEF Init, LexInit, IInv, Types, TokensTile, EndsInText, EndOf
<1> QED
  BY <1>1, FirstState

LEMMA ScanStep ==
  ASSUME IInv, ScanInv, [Next]_vars
  PROVE  IInv' /\ ScanInv'
<1>1. CASE Lex
  <2>1. IInv'
    BY <1>1, LexStep DEF Lex
  <2>2. ScanInv'
    BY <1>1, RegionStep, PlainStep, ParamStep, LastStep DEF Lex, LexNext
  <2> QED
    BY <2>1, <2>2
<1>2. CASE \/ CompileFails \/ Compile \/ Bind
           \/ RenderVerbatim \/ RenderText \/ LookupFails
           \/ RenderWhole \/ RenderEmpty \/ RenderSlice \/ RenderEnds
  <2>1. UNCHANGED <<sql, i, textStart, toks>> /\ "lex" \notin {pc, pc'}
    BY <1>2 DEF CompileFails, Compile, Bind, RenderVerbatim, RenderText, LookupFails,
                RenderWhole, RenderEmpty, RenderSlice, RenderEnds, Rendering, Rendered,
                Stop, GoTo
  <2> QED
    BY <2>1, RestFact, OtherStep
<1>3. CASE UNCHANGED vars
  BY <1>3, RestFact, OtherStep DEF vars, lexVars
<1> QED
  BY <1>1, <1>2, <1>3 DEF Next, Finished

(* ParametersFound: once lex has returned, the :names, $numbers and ?s it  *)
(* made tokens of are those a reader of the statement finds outside its    *)
(* quotes, comments, escape strings and dollar bodies, in the same order   *)
(* and with the same names, for every text of any length (lex.go, lex).    *)
THEOREM ParametersAreFound == Spec => []ParametersFound
<1>1. Init => IInv /\ ScanInv
  BY ScanStarts
<1>2. IInv /\ ScanInv /\ [Next]_vars => IInv' /\ ScanInv'
  BY ScanStep
<1>3. IInv /\ ScanInv => ParametersFound
  BY DEF ScanInv, ParametersFound, FoundIn
<1> QED
  BY <1>1, <1>2, <1>3, PTL DEF Spec

-----------------------------------------------------------------------------
(***************************************************************************)
(* Reading a copy.  What is read from lo to hi of a text s is read of a    *)
(* text d that has the same characters by characters further on.           *)
(***************************************************************************)

(* The characters of s from lo to hi stand in d as well. *)
Moved(s, lo, hi, d, by) ==
  /\ s \in Seq(Chars) /\ d \in Seq(Chars)
  /\ lo \in Nat /\ hi \in Nat /\ by \in Int
  /\ 1 <= lo /\ lo < hi /\ hi <= EndOf(s)
  /\ 1 <= lo + by /\ hi + by <= EndOf(d)
  /\ \A k \in lo..(hi - 1) : d[k + by] = s[k]

(* They end in both texts, or a parameter follows in s, and in d what it begins
   with, a placeholder, or NULL. *)
Seam(s, hi, d, by) ==
  \/ hi = EndOf(s) /\ hi + by = EndOf(d)
  \/ /\ hi < EndOf(s) /\ hi + by < EndOf(d)
     /\ \/ s[hi] = d[hi + by] /\ s[hi] \in {"?", "$"}
        \/ /\ s[hi] \in {":", "?"} /\ d[hi + by] \in {"$", "N"}
           /\ s[hi - 1] \notin Word \cup {"$"}

(* Up to hi, B holds what A holds and by further on; a and b end the texts. *)
Shifted(A, a, B, b, hi, by) ==
  /\ A \subseteq Nat /\ B \subseteq Nat
  /\ hi \in Nat /\ by \in Int /\ a \in Nat /\ b \in Nat
  /\ \A x \in Int : x <= hi => (x \in A <=> x + by \in B)
  /\ \A x \in B : x <= b
  /\ a <= hi => a = hi /\ b = hi + by

LEMMA LeastMoves ==
  ASSUME NEW A, NEW a, NEW B, NEW b, NEW hi, NEW by, Shifted(A, a, B, b, hi, by),
         Least(A, a) <= hi
  PROVE  Least(B, b) = Least(A, a) + by
<1> USE DEF Shifted
<1>1. CASE A = {}
  <2>1. a = hi /\ b = hi + by
    BY <1>1, LeastIs
  <2>2. B = {}
    <3> SUFFICES ASSUME NEW x \in B
                 PROVE  FALSE
      OBVIOUS
    <3>1. x \in Nat /\ x - by \in Int /\ x - by <= hi /\ (x - by) + by = x
      BY <2>1
    <3> QED
      BY <1>1, <3>1
  <2> QED
    BY <1>1, <2>1, <2>2, LeastIs
<1>2. CASE A # {}
  <2> DEFINE m == Least(A, a)
  <2>1. m \in A /\ m \in Nat /\ \A n \in A : m <= n
    BY <1>2, LeastIs
  <2> HIDE DEF m
  <2>2. m <= hi
    BY DEF m
  <2>3. m + by \in B
    BY <2>1, <2>2
  <2>4. ASSUME NEW x \in B
        PROVE  m + by <= x
    <3> SUFFICES ASSUME ~(m + by <= x)
                 PROVE  FALSE
      OBVIOUS
    <3>1. x \in Nat /\ x - by \in Int /\ x - by <= hi /\ (x - by) + by = x /\ ~(m <= x - by)
      BY <2>1, <2>2
    <3> QED
      BY <2>1, <3>1
  <2> DEFINE n == m + by
  <2>6. n \in B /\ \A x \in B : n <= x
    BY <2>3, <2>4
  <2> HIDE DEF n
  <2>7. B \subseteq Nat
    OBVIOUS
  <2>5. Least(B, b) = n
    <3> HIDE DEF Shifted
    <3>1. \A y \in B : (\A x \in B : y <= x) => Least(B, b) = y
      BY <2>7, LeastIs
    <3> QED
      BY <2>6, <3>1
  <2> QED
    BY <2>5 DEF m, n
<1> QED
  BY <1>1, <1>2

LEMMA MovedIs ==
  ASSUME NEW s, NEW lo, NEW hi, NEW d, NEW by, Moved(s, lo, hi, d, by)
  PROVE  /\ Len(s) \in Nat /\ EndOf(s) = Len(s) + 1 /\ Len(d) \in Nat /\ EndOf(d) = Len(d) + 1
         /\ lo \in Nat /\ hi \in Nat /\ by \in Int /\ hi <= EndOf(s) /\ hi + by <= EndOf(d)
         /\ s \in Seq(Chars) /\ d \in Seq(Chars)
         /\ \A k \in lo..(hi - 1) :
              /\ k \in 1..Len(s) /\ k + by \in 1..Len(d) /\ k \in Nat /\ k + by \in Nat
              /\ lo <= k /\ k < hi
              /\ d[k + by] = s[k]
              /\ \A S : Is(s, k, S) <=> s[k] \in S
              /\ \A S : Is(d, k + by, S) <=> s[k] \in S
<1>1. /\ Len(s) \in Nat /\ EndOf(s) = Len(s) + 1 /\ Len(d) \in Nat /\ EndOf(d) = Len(d) + 1
  BY LenProperties DEF EndOf, Moved
<1>2. ASSUME NEW k \in lo..(hi - 1)
      PROVE  k \in 1..Len(s) /\ k + by \in 1..Len(d) /\ k \in Nat /\ k + by \in Nat
             /\ lo <= k /\ k < hi
             /\ d[k + by] = s[k] /\ k < EndOf(s) /\ k + by < EndOf(d)
  BY <1>1 DEF Moved
<1> QED
  BY <1>1, <1>2 DEF Is, Moved

LEMMA IsMoves ==
  ASSUME NEW s, NEW lo, NEW hi, NEW d, NEW by, Moved(s, lo, hi, d, by), NEW k \in lo..(hi - 1), NEW S
  PROVE  Is(s, k, S) <=> Is(d, k + by, S)
BY MovedIs

(* No mark but these follows. *)
Marks == {":", "?", "$", "N"}

LEMMA SeamIs ==
  ASSUME NEW s, NEW lo, NEW hi, NEW d, NEW by, Moved(s, lo, hi, d, by), Seam(s, hi, d, by)
  PROVE  /\ \A S : S \cap Marks = {} => ~Is(s, hi, S) /\ ~Is(d, hi + by, S)
         /\ hi <= Len(s) => s[hi] \in Marks
         /\ hi + by <= Len(d) => d[hi + by] \in Marks
         /\ hi = EndOf(s) <=> hi + by = EndOf(d)
<1>1. /\ Len(s) \in Nat /\ EndOf(s) = Len(s) + 1 /\ Len(d) \in Nat /\ EndOf(d) = Len(d) + 1
      /\ hi \in Nat /\ by \in Int
  BY MovedIs DEF Moved
<1>2. CASE hi = EndOf(s) /\ hi + by = EndOf(d)
  BY <1>1, <1>2 DEF Is
<1>3. CASE /\ hi < EndOf(s) /\ hi + by < EndOf(d)
           /\ s[hi] \in Marks /\ d[hi + by] \in Marks
  BY <1>1, <1>3 DEF Is
<1> QED
  BY <1>2, <1>3 DEF Seam, Marks

(* A pair of characters of which the second is no such mark. *)
LEMMA PairMoves ==
  ASSUME NEW s, NEW lo, NEW hi, NEW d, NEW by, Moved(s, lo, hi, d, by), Seam(s, hi, d, by),
         NEW k \in lo..(hi - 1), NEW x, NEW y, y \notin Marks
  PROVE  /\ Is(s, k + 1, {y}) <=> Is(d, (k + by) + 1, {y})
         /\ Pair(s, k, x, y) <=> Pair(d, k + by, x, y)
         /\ Pair(s, k, x, y) => k + 1 \in lo..(hi - 1)
<1>1. k \in Nat /\ hi \in Nat /\ lo \in Nat /\ by \in Int /\ (k + by) + 1 = (k + 1) + by
      /\ (k + 1 = hi \/ k + 1 \in lo..(hi - 1))
  BY DEF Moved
<1>2. CASE k + 1 = hi
  <2>1. {y} \cap Marks = {}
    OBVIOUS
  <2>2. ~Is(s, hi, {y}) /\ ~Is(d, hi + by, {y})
    BY <2>1, SeamIs
  <2> QED
    BY <1>1, <1>2, <2>2, MovedIs DEF Pair
<1>3. CASE k + 1 \in lo..(hi - 1)
  <2>1. \A S : (Is(s, k, S) <=> s[k] \in S) /\ (Is(d, k + by, S) <=> s[k] \in S)
    BY MovedIs
  <2>2. \A S : (Is(s, k + 1, S) <=> s[k + 1] \in S) /\ (Is(d, (k + 1) + by, S) <=> s[k + 1] \in S)
    BY <1>3, MovedIs
  <2> QED
    BY <1>1, <1>3, <2>1, <2>2 DEF Pair
<1> QED
  BY <1>1, <1>2, <1>3

(* A comment to the end of the line. *)
LEMMA LineMoves ==
  ASSUME NEW s, NEW lo, NEW hi, NEW d, NEW by, Moved(s, lo, hi, d, by), Seam(s, hi, d, by),
         NEW k \in lo..(hi - 1),
         Least({j \in k..Len(s) : s[j] = "nl"}, EndOf(s)) <= hi
  PROVE  Least({j \in (k + by)..Len(d) : d[j] = "nl"}, EndOf(d))
           = Least({j \in k..Len(s) : s[j] = "nl"}, EndOf(s)) + by
<1> DEFINE A == {j \in k..Len(s) : s[j] = "nl"}
           B == {j \in (k + by)..Len(d) : d[j] = "nl"}
<1>1. /\ Len(s) \in Nat /\ EndOf(s) = Len(s) + 1 /\ Len(d) \in Nat /\ EndOf(d) = Len(d) + 1
      /\ hi \in Nat /\ by \in Int /\ k \in Nat /\ k + by \in Nat /\ lo \in Nat /\ k < hi /\ lo <= k
      /\ hi <= EndOf(s) /\ hi + by <= EndOf(d)
  BY MovedIs
<1>2. A \subseteq Nat /\ B \subseteq Nat /\ (\A x \in B : x <= EndOf(d))
  BY <1>1
<1>3. EndOf(s) <= hi => EndOf(s) = hi /\ EndOf(d) = hi + by
  BY <1>1, SeamIs
<1>4. ASSUME NEW x \in Int, x <= hi
      PROVE  x \in A <=> x + by \in B
  <2>1. CASE x < k
    BY <1>1, <2>1
  <2>2. CASE x \in k..(hi - 1)
    <3>1. x \in lo..(hi - 1)
      BY <1>1, <2>2
    <3>2. x \in 1..Len(s) /\ x + by \in 1..Len(d) /\ d[x + by] = s[x]
      BY <3>1, MovedIs
    <3>3. x \in k..Len(s) /\ x + by \in (k + by)..Len(d)
      BY <1>1, <2>2, <3>2
    <3> QED
      BY <3>2, <3>3
  <2>3. CASE x = hi
    <3>1. hi <= Len(s) => s[hi] # "nl"
      BY SeamIs DEF Marks
    <3>2. hi + by <= Len(d) => d[hi + by] # "nl"
      BY SeamIs DEF Marks
    <3> QED
      BY <1>1, <2>3, <3>1, <3>2
  <2> QED
    BY <1>1, <1>4, <2>1, <2>2, <2>3
<1> HIDE DEF A, B
<1>5. Least(A, EndOf(s)) <= hi
  BY DEF A
<1>6. EndOf(s) \in Nat /\ EndOf(d) \in Nat
  BY <1>1
<1>7. \A x \in Int : x <= hi => (x \in A <=> x + by \in B)
  BY <1>4
<1>8. hi \in Nat /\ by \in Int
  BY <1>1
<1>9. Shifted(A, EndOf(s), B, EndOf(d), hi, by)
  BY <1>2, <1>3, <1>6, <1>7, <1>8 DEF Shifted
<1>10. Least(B, EndOf(d)) = Least(A, EndOf(s)) + by
  BY <1>5, <1>9, LeastMoves
<1> QED
  BY <1>10 DEF A, B

LEMMA CommentMoves ==
  ASSUME NEW s, NEW lo, NEW hi, NEW d, NEW by, Moved(s, lo, hi, d, by), Seam(s, hi, d, by),
         NEW k \in lo..(hi - 1), CommentTo(s, k) <= hi
  PROVE  CommentTo(d, k + by) = CommentTo(s, k) + by
<1>1. /\ Len(s) \in Nat /\ EndOf(s) = Len(s) + 1 /\ Len(d) \in Nat /\ EndOf(d) = Len(d) + 1
      /\ lo \in Nat /\ hi \in Nat /\ by \in Int /\ hi <= EndOf(s) /\ hi + by <= EndOf(d)
      /\ s \in Seq(Chars) /\ d \in Seq(Chars)
  BY MovedIs
<1>2. k \in Nat /\ k + by \in Nat /\ k < hi /\ lo <= k /\ k \in 1..Len(s) /\ k + by \in 1..Len(d)
  BY MovedIs
<1>3. PICK f : /\ Nests(s, k, f)
               /\ CommentTo(s, k)
                    = Least({j + 1 : j \in {j \in (k + 2)..Len(s) : f[j][1] = 0}}, EndOf(s))
  BY <1>1, <1>2, CommentToDefined
<1>4. PICK g : /\ Nests(d, k + by, g)
               /\ CommentTo(d, k + by)
                    = Least({j + 1 : j \in {j \in ((k + by) + 2)..Len(d) : g[j][1] = 0}}, EndOf(d))
  BY <1>1, <1>2, CommentToDefined
<1> DEFINE S == {n \in Nat : (k - 1) + n < hi => f[(k - 1) + n] = g[((k - 1) + n) + by]}
<1>5. 0 \in S
  <2>1. (k - 1) + 0 = k - 1 /\ ((k - 1) + 0) + by = (k + by) - 1
    BY <1>1, <1>2
  <2> QED
    BY <1>3, <1>4, <2>1 DEF Nests
<1>6. ASSUME NEW n \in Nat, n \in S
      PROVE  n + 1 \in S
  <2> SUFFICES ASSUME (k - 1) + (n + 1) < hi
               PROVE  f[(k - 1) + (n + 1)] = g[((k - 1) + (n + 1)) + by]
    OBVIOUS
  <2> DEFINE j == (k - 1) + (n + 1)
  <2>1. /\ j \in lo..(hi - 1) /\ j - 1 = (k - 1) + n /\ (j + by) - 1 = ((k - 1) + n) + by
        /\ (k - 1) + n < hi
    BY <1>1, <1>2
  <2>2. f[j - 1] = g[(j + by) - 1]
    BY <1>6, <2>1
  <2>3. j \in k..Len(s) /\ j + by \in (k + by)..Len(d)
    BY <1>1, <1>2
  <2> HIDE DEF j
  <2>4. s[j] = d[j + by]
    BY <2>1, MovedIs
  <2>5. f[j] = IF f[j - 1][2] = "/" /\ s[j] = "*" THEN <<f[j - 1][1] + 1, "used">>
               ELSE IF f[j - 1][2] = "*" /\ s[j] = "/" THEN <<f[j - 1][1] - 1, "used">>
               ELSE <<f[j - 1][1], s[j]>>
    BY <1>3, <2>3 DEF Nests
  <2>6. g[j + by] = IF g[(j + by) - 1][2] = "/" /\ d[j + by] = "*"
                    THEN <<g[(j + by) - 1][1] + 1, "used">>
                    ELSE IF g[(j + by) - 1][2] = "*" /\ d[j + by] = "/"
                    THEN <<g[(j + by) - 1][1] - 1, "used">>
                    ELSE <<g[(j + by) - 1][1], d[j + by]>>
    BY <1>4, <2>3 DEF Nests
  <2>7. f[j] = g[j + by]
    BY <2>2, <2>4, <2>5, <2>6
  <2> QED
    BY <2>7 DEF j
<1> HIDE DEF S
<1>7. Nat \subseteq S
  BY <1>5, <1>6, SetInduction
<1>8. ASSUME NEW j \in k..(hi - 1)
      PROVE  f[j] = g[j + by]
  <2>1. j - (k - 1) \in Nat /\ (k - 1) + (j - (k - 1)) = j /\ j < hi
    BY <1>1, <1>2
  <2>2. j - (k - 1) \in S
    BY <1>7, <2>1
  <2> QED
    BY <2>1, <2>2 DEF S
<1> DEFINE A == {j + 1 : j \in {j \in (k + 2)..Len(s) : f[j][1] = 0}}
           B == {j + 1 : j \in {j \in ((k + by) + 2)..Len(d) : g[j][1] = 0}}
<1>9. /\ A \subseteq Nat /\ B \subseteq Nat /\ (\A x \in B : x <= EndOf(d))
      /\ EndOf(s) \in Nat /\ EndOf(d) \in Nat
  <2>1. \A j \in (k + 2)..Len(s) : j + 1 \in Nat
    BY <1>2
  <2>2. \A j \in ((k + by) + 2)..Len(d) : j + 1 \in Nat /\ j + 1 <= EndOf(d)
    BY <1>1, <1>2
  <2>3. EndOf(s) \in Nat /\ EndOf(d) \in Nat
    BY <1>1
  <2>4. A \subseteq Nat
    BY <2>1
  <2>5. B \subseteq Nat /\ \A x \in B : x <= EndOf(d)
    BY <2>2
  <2> HIDE DEF A, B
  <2> QED
    BY <2>3, <2>4, <2>5
<1>10. \A x \in Int : x <= hi => (x \in A <=> x + by \in B)
  <2> SUFFICES ASSUME NEW x \in Int, x <= hi
               PROVE  x \in A <=> x + by \in B
    OBVIOUS
  <2>1. x \in A <=> x - 1 \in (k + 2)..Len(s) /\ f[x - 1][1] = 0
    <3>1. \A j \in Int : x = j + 1 <=> j = x - 1
      OBVIOUS
    <3> QED
      BY <1>1, <1>2, <3>1
  <2>2. x + by \in B <=> (x - 1) + by \in ((k + by) + 2)..Len(d) /\ g[(x - 1) + by][1] = 0
    <3>1. \A j \in Int : x + by = j + 1 <=> j = (x - 1) + by
      BY <1>1
    <3> QED
      BY <1>1, <1>2, <3>1
  <2> HIDE DEF A, B
  <2>3. CASE x - 1 \in (k + 2)..(hi - 1)
    <3>1. x - 1 \in k..(hi - 1) /\ x - 1 \in (k + 2)..Len(s)
          /\ (x - 1) + by \in ((k + by) + 2)..Len(d)
      BY <1>1, <1>2, <2>3
    <3> QED
      BY <1>8, <2>1, <2>2, <3>1
  <2>4. CASE x - 1 < k + 2
    BY <1>1, <1>2, <2>1, <2>2, <2>4
  <2> QED
    BY <1>1, <1>2, <2>3, <2>4
<1> HIDE DEF A, B
<1>11. Shifted(A, EndOf(s), B, EndOf(d), hi, by)
  <2>1. hi = EndOf(s) <=> hi + by = EndOf(d)
    BY SeamIs
  <2>2. EndOf(s) <= hi => EndOf(s) = hi /\ EndOf(d) = hi + by
    BY <1>1, <1>9, <2>1
  <2> QED
    BY <1>1, <1>9, <1>10, <2>2 DEF Shifted
<1>12. Least(A, EndOf(s)) <= hi
  BY <1>3 DEF A
<1>13. Least(B, EndOf(d)) = Least(A, EndOf(s)) + by
  BY <1>11, <1>12, LeastMoves
<1> QED
  BY <1>3, <1>4, <1>13 DEF A, B

(* Strings and quoted identifiers: the same quotes count. *)
LEMMA BackslashMoves ==
  ASSUME NEW s, NEW lo, NEW hi, NEW d, NEW by, Moved(s, lo, hi, d, by),
         NEW q \in lo..(hi - 1), NEW k \in q..(hi - 1)
  PROVE  Backslashed(s, q, k) <=> Backslashed(d, q + by, k + by)
<1>1. /\ lo \in Nat /\ hi \in Nat /\ by \in Int /\ q \in Nat /\ q + by \in Nat /\ q < hi /\ lo <= q
  BY MovedIs
<1> DEFINE S == {n \in Nat : q + n < hi =>
                   (Backslashed(s, q, q + n) <=> Backslashed(d, q + by, (q + n) + by))}
<1>2. 0 \in S
  <2>1. q + 0 = q /\ (q + 0) + by = q + by
    BY <1>1
  <2>2. ~Backslashed(s, q, q) /\ ~Backslashed(d, q + by, q + by)
    BY <1>1, BackslashNext
  <2> QED
    BY <2>1, <2>2
<1>3. ASSUME NEW n \in Nat, n \in S
      PROVE  n + 1 \in S
  <2> SUFFICES ASSUME q + (n + 1) < hi
               PROVE  Backslashed(s, q, q + (n + 1)) <=> Backslashed(d, q + by, (q + (n + 1)) + by)
    OBVIOUS
  <2> DEFINE j == q + n
  <2>1. /\ j \in lo..(hi - 1) /\ j \in Nat /\ q <= j /\ j + by \in Nat /\ q + by <= j + by
        /\ q + (n + 1) = j + 1 /\ (q + (n + 1)) + by = (j + by) + 1 /\ j < hi
    <3>1. j \in lo..(hi - 1) /\ j \in Nat /\ q <= j /\ q + by <= j + by
        /\ q + (n + 1) = j + 1 /\ (q + (n + 1)) + by = (j + by) + 1 /\ j < hi
      BY <1>1
    <3> QED
      BY <3>1, MovedIs
  <2>2. Backslashed(s, q, j) <=> Backslashed(d, q + by, j + by)
    BY <1>3, <2>1
  <2> HIDE DEF j
  <2>3. s[j] = d[j + by]
    BY <2>1, MovedIs
  <2>4. Backslashed(s, q, j + 1) <=> s[j] = "bs" /\ ~Backslashed(s, q, j)
    BY <1>1, <2>1, BackslashNext
  <2>5. Backslashed(d, q + by, (j + by) + 1) <=> d[j + by] = "bs" /\ ~Backslashed(d, q + by, j + by)
    BY <1>1, <2>1, BackslashNext
  <2> QED
    BY <2>1, <2>2, <2>3, <2>4, <2>5
<1> HIDE DEF S
<1>4. Nat \subseteq S
  BY <1>2, <1>3, SetInduction
<1>5. k - q \in Nat /\ q + (k - q) = k /\ k < hi
  BY <1>1
<1>6. k - q \in S
  BY <1>4, <1>5
<1> QED
  BY <1>5, <1>6 DEF S

LEMMA CountsMove ==
  ASSUME NEW s, NEW lo, NEW hi, NEW d, NEW by, Moved(s, lo, hi, d, by),
         NEW q \in lo..(hi - 1), NEW escapes \in BOOLEAN
  PROVE  /\ \A k \in q..(hi - 1) : k \in Counts(s, q, escapes) <=> k + by \in Counts(d, q + by, escapes)
         /\ \A k \in q..hi : Before(Counts(s, q, escapes), k) = Before(Counts(d, q + by, escapes), k + by)
<1>1. /\ Len(s) \in Nat /\ EndOf(s) = Len(s) + 1 /\ Len(d) \in Nat /\ EndOf(d) = Len(d) + 1
      /\ lo \in Nat /\ hi \in Nat /\ by \in Int /\ hi <= EndOf(s) /\ hi + by <= EndOf(d)
      /\ q \in Nat /\ q + by \in Nat /\ q < hi /\ lo <= q /\ d[q + by] = s[q]
  BY MovedIs
<1> DEFINE C == Counts(s, q, escapes)
           D == Counts(d, q + by, escapes)
<1>2. ASSUME NEW k \in q..(hi - 1)
      PROVE  k \in C <=> k + by \in D
  <2>1. k \in lo..(hi - 1) /\ k \in Nat
    BY <1>1
  <2>2. d[k + by] = s[k]
    BY <2>1, MovedIs
  <2>3. k \in q..Len(s) /\ k + by \in (q + by)..Len(d)
    BY <1>1, <2>1
  <2>4. Backslashed(s, q, k) <=> Backslashed(d, q + by, k + by)
    BY BackslashMoves
  <2> QED
    BY <1>1, <2>2, <2>3, <2>4 DEF Counts
<1>3. C \subseteq q..Len(s) /\ D \subseteq (q + by)..Len(d)
  BY DEF Counts
<1> HIDE DEF C, D
<1>4. C \in SUBSET (1..Len(s)) /\ D \in SUBSET (1..Len(d))
  <2>1. q \in 1..Len(s) /\ q + by \in 1..Len(d)
    BY MovedIs
  <2> QED
    BY <1>1, <1>3, <2>1
<1> DEFINE S == {n \in Nat : q + n <= hi => Before(C, q + n) = Before(D, (q + n) + by)}
<1>5. 0 \in S
  <2>1. q + 0 = q /\ (q + 0) + by = q + by
    BY <1>1
  <2>2. (\A c \in C : q <= c) /\ (\A c \in D : q + by <= c)
    BY <1>1, <1>3
  <2>3. Before(C, q) = 0
    BY <1>1, <1>4, <2>2, BeforeGrows
  <2>4. Before(D, q + by) = 0
    BY <1>1, <1>4, <2>2, BeforeGrows
  <2> QED
    BY <2>1, <2>3, <2>4
<1>6. ASSUME NEW n \in Nat, n \in S
      PROVE  n + 1 \in S
  <2> SUFFICES ASSUME q + (n + 1) <= hi
               PROVE  Before(C, q + (n + 1)) = Before(D, (q + (n + 1)) + by)
    OBVIOUS
  <2> DEFINE j == q + n
  <2>1. /\ j \in q..(hi - 1) /\ j \in Nat /\ j + by \in Nat /\ q + (n + 1) = j + 1 
        /\ (q + (n + 1)) + by = (j + by) + 1 /\ j <= hi
    BY <1>1
  <2>2. Before(C, j) = Before(D, j + by)
    BY <1>6, <2>1
  <2> HIDE DEF j
  <2>3. j \in C <=> j + by \in D
    BY <1>2, <2>1
  <2>4. Before(C, j + 1) = IF j \in C THEN Before(C, j) + 1 ELSE Before(C, j)
    BY <1>1, <1>4, <2>1, BeforeGrows
  <2>5. Before(D, (j + by) + 1) = IF j + by \in D THEN Before(D, j + by) + 1 ELSE Before(D, j + by)
    BY <1>1, <1>4, <2>1, BeforeGrows
  <2> QED
    BY <2>1, <2>2, <2>3, <2>4, <2>5
<1> HIDE DEF S
<1>7. Nat \subseteq S
  BY <1>5, <1>6, SetInduction
<1>8. ASSUME NEW k \in q..hi
      PROVE  Before(C, k) = Before(D, k + by)
  <2>1. k - q \in Nat /\ q + (k - q) = k /\ k <= hi
    BY <1>1
  <2>2. k - q \in S
    BY <1>7, <2>1
  <2> QED
    BY <2>1, <2>2 DEF S
<1> QED
  BY <1>2, <1>8 DEF C, D

LEMMA QuotedMoves ==
  ASSUME NEW s, NEW lo, NEW hi, NEW d, NEW by, Moved(s, lo, hi, d, by), Seam(s, hi, d, by),
         NEW q \in lo..(hi - 1), NEW escapes \in BOOLEAN, s[q] \notin Marks,
         QuotedTo(s, q, escapes) <= hi
  PROVE  QuotedTo(d, q + by, escapes) = QuotedTo(s, q, escapes) + by
<1>1. /\ Len(s) \in Nat /\ EndOf(s) = Len(s) + 1 /\ Len(d) \in Nat /\ EndOf(d) = Len(d) + 1
      /\ lo \in Nat /\ hi \in Nat /\ by \in Int /\ hi <= EndOf(s) /\ hi + by <= EndOf(d)
      /\ s \in Seq(Chars) /\ d \in Seq(Chars)
      /\ q \in Nat /\ q + by \in Nat /\ q < hi /\ lo <= q /\ d[q + by] = s[q]
      /\ q \in 1..Len(s) /\ q + by \in 1..Len(d)
  BY MovedIs
<1> DEFINE C == Closers(s, q, escapes)
           D == Closers(d, q + by, escapes)
           A == {k + 1 : k \in C}
           B == {k + 1 : k \in D}
<1>2. C \in SUBSET (q..Len(s)) /\ D \in SUBSET ((q + by)..Len(d))
      /\ QuotedTo(s, q, escapes) = Least(A, EndOf(s))
      /\ QuotedTo(d, q + by, escapes) = Least(B, EndOf(d))
  BY <1>1, QuotedToCloser
<1>3. ASSUME NEW k \in q..(hi - 1)
      PROVE  k \in C <=> k + by \in D
  <2>1. k \in lo..(hi - 1) /\ k \in Nat /\ k + 1 \in q..hi /\ (k + by) + 1 = (k + 1) + by
    BY <1>1
  <2>2. k \in Counts(s, q, escapes) <=> k + by \in Counts(d, q + by, escapes)
    BY CountsMove
  <2>3. Before(Counts(s, q, escapes), k + 1) = Before(Counts(d, q + by, escapes), (k + by) + 1)
    BY <2>1, CountsMove
  <2> DEFINE c == s[q]
  <2>5. c \notin Marks /\ d[q + by] = c
    BY <1>1
  <2> HIDE DEF c
  <2>6. Is(s, k + 1, {c}) <=> Is(d, (k + by) + 1, {c})
    BY <2>1, <2>5, PairMoves
  <2>4. Is(s, k + 1, {s[q]}) <=> Is(d, (k + by) + 1, {d[q + by]})
    BY <2>5, <2>6 DEF c
  <2> QED
    BY <2>2, <2>3, <2>4 DEF Closers
<1> HIDE DEF C, D
<1>4. \A x \in Int : x <= hi => (x \in A <=> x + by \in B)
  <2> SUFFICES ASSUME NEW x \in Int, x <= hi
               PROVE  x \in A <=> x + by \in B
    OBVIOUS
  <2>1. x \in A <=> x - 1 \in C
    <3>1. \A j \in Int : x = j + 1 <=> j = x - 1
      OBVIOUS
    <3>2. \A j \in C : j \in Int
      BY <1>1, <1>2
    <3> QED
      BY <3>1, <3>2
  <2>2. x + by \in B <=> (x - 1) + by \in D
    <3>1. \A j \in Int : x + by = j + 1 <=> j = (x - 1) + by
      BY <1>1
    <3>2. \A j \in D : j \in Int
      BY <1>1, <1>2
    <3> QED
      BY <3>1, <3>2
  <2> HIDE DEF A, B
  <2>3. CASE x - 1 \in q..(hi - 1)
    BY <1>3, <2>1, <2>2, <2>3
  <2>4. CASE x - 1 < q
    <3>1. x - 1 \notin C /\ (x - 1) + by \notin D
      BY <1>1, <1>2, <2>4
    <3> QED
      BY <2>1, <2>2, <3>1
  <2> QED
    BY <1>1, <2>3, <2>4
<1>5. /\ A \subseteq Nat /\ B \subseteq Nat /\ (\A x \in B : x <= EndOf(d))
      /\ EndOf(s) \in Nat /\ EndOf(d) \in Nat
  <2>1. \A j \in C : j + 1 \in Nat
    BY <1>1, <1>2
  <2>2. \A j \in D : j + 1 \in Nat /\ j + 1 <= EndOf(d)
    BY <1>1, <1>2
  <2> QED
    BY <1>1, <2>1, <2>2
<1> HIDE DEF A, B
<1>6. Shifted(A, EndOf(s), B, EndOf(d), hi, by)
  <2>1. hi = EndOf(s) <=> hi + by = EndOf(d)
    BY SeamIs
  <2>2. EndOf(s) <= hi => EndOf(s) = hi /\ EndOf(d) = hi + by
    BY <1>1, <1>5, <2>1
  <2> QED
    BY <1>1, <1>4, <1>5, <2>2 DEF Shifted
<1>7. Least(B, EndOf(d)) = Least(A, EndOf(s)) + by
  BY <1>2, <1>6, LeastMoves
<1> QED
  BY <1>2, <1>7

(* A run of characters is as long, or goes up to hi in both. *)
LEMMA SpanMoves ==
  ASSUME NEW s, NEW lo, NEW hi, NEW d, NEW by, Moved(s, lo, hi, d, by),
         NEW k \in lo..(hi - 1), NEW S
  PROVE  LET e == SpanEnd(s, k + 1, S)  f == SpanEnd(d, (k + by) + 1, S) IN
         /\ e \in Nat /\ f \in Nat /\ k + 1 <= e /\ e <= EndOf(s) /\ f <= EndOf(d)
         /\ e < hi => f = e + by
         /\ e >= hi => f >= hi + by /\ \A m \in (k + 1)..(hi - 1) : s[m] \in S
         /\ ~Is(s, e, S) /\ ~Is(d, f, S)
<1> DEFINE e == SpanEnd(s, k + 1, S)
           f == SpanEnd(d, (k + by) + 1, S)
<1>1. /\ Len(s) \in Nat /\ EndOf(s) = Len(s) + 1 /\ Len(d) \in Nat /\ EndOf(d) = Len(d) + 1
      /\ lo \in Nat /\ hi \in Nat /\ by \in Int /\ hi <= EndOf(s) /\ hi + by <= EndOf(d)
      /\ s \in Seq(Chars) /\ d \in Seq(Chars)
      /\ k \in Nat /\ k + by \in Nat /\ k < hi /\ lo <= k /\ k \in 1..Len(s) /\ k + by \in 1..Len(d)
  BY MovedIs
<1>2. k + 1 \in 1..EndOf(s) /\ (k + by) + 1 \in 1..EndOf(d)
  BY <1>1
<1>3. /\ e \in (k + 1)..EndOf(s) /\ ~Is(s, e, S)
      /\ \A m \in (k + 1)..(e - 1) : Is(s, m, S)
  BY <1>1, <1>2, SpanIs
<1>4. /\ f \in ((k + by) + 1)..EndOf(d) /\ ~Is(d, f, S)
      /\ \A m \in ((k + by) + 1)..(f - 1) : Is(d, m, S)
  BY <1>1, <1>2, SpanIs
<1> HIDE DEF e, f
<1>5. e \in Nat /\ f \in Nat /\ k + 1 <= e /\ e <= EndOf(s) /\ f <= EndOf(d) /\ (k + by) + 1 <= f
  BY <1>1, <1>3, <1>4
<1>6. \A m \in lo..(hi - 1) : /\ Is(s, m, S) <=> s[m] \in S
                              /\ Is(d, m + by, S) <=> s[m] \in S
  BY MovedIs
<1>7. e < hi => f = e + by
  <2> SUFFICES ASSUME e < hi
               PROVE  ~(f < e + by) /\ ~(e + by < f)
    BY <1>1, <1>5
  <2>1. CASE f < e + by
    <3>1. f - by \in (k + 1)..(e - 1) /\ f - by \in lo..(hi - 1) /\ (f - by) + by = f
      BY <1>1, <1>5, <2>1
    <3> QED
      BY <1>3, <1>4, <1>6, <3>1
  <2>2. CASE e + by < f
    <3>1. e + by \in ((k + by) + 1)..(f - 1) /\ e \in lo..(hi - 1)
      BY <1>1, <1>5, <2>2
    <3> QED
      BY <1>3, <1>4, <1>6, <3>1
  <2> QED
    BY <2>1, <2>2
<1>8. e >= hi => f >= hi + by /\ \A m \in (k + 1)..(hi - 1) : s[m] \in S
  <2> SUFFICES ASSUME e >= hi
               PROVE  ~(f < hi + by) /\ \A m \in (k + 1)..(hi - 1) : s[m] \in S
    BY <1>1, <1>5
  <2>1. ASSUME NEW m \in (k + 1)..(hi - 1)
        PROVE  s[m] \in S
    <3>1. m \in (k + 1)..(e - 1) /\ m \in lo..(hi - 1)
      BY <1>1, <1>5
    <3> QED
      BY <1>3, <1>6, <3>1
  <2>2. CASE f < hi + by
    <3>1. f - by \in (k + 1)..(hi - 1) /\ f - by \in lo..(hi - 1) /\ (f - by) + by = f
      BY <1>1, <1>5, <2>2
    <3> QED
      BY <1>4, <1>6, <2>1, <3>1
  <2> QED
    BY <2>1, <2>2
<1> QED
  BY <1>3, <1>4, <1>5, <1>7, <1>8 DEF e, f

Cut(s, a, b, d, by) == SubSeq(d, a + by, b + by) = SubSeq(s, a, b)

LEMMA CutMoves ==
  ASSUME NEW s, NEW lo, NEW hi, NEW d, NEW by, Moved(s, lo, hi, d, by)
  PROVE  \A a, b \in Int : lo <= a /\ b < hi => Cut(s, a, b, d, by)
<1> SUFFICES ASSUME NEW a \in Int, NEW b \in Int, lo <= a, b < hi
             PROVE  SubSeq(d, a + by, b + by) = SubSeq(s, a, b)
  BY DEF Cut
<1>1. lo \in Nat /\ hi \in Nat /\ by \in Int /\ s \in Seq(Chars) /\ d \in Seq(Chars)
  BY MovedIs
<1>2. ASSUME NEW x \in a..b
      PROVE  s[x] \in Chars /\ d[x + by] = s[x] /\ d[x + by] \in Chars
  <2>1. x \in lo..(hi - 1)
    BY <1>1
  <2>2. x \in 1..Len(s) /\ d[x + by] = s[x]
    BY <2>1, MovedIs
  <2>3. s[x] \in Chars
    BY <1>1, <2>2, ElementOfSeq
  <2> QED
    BY <2>2, <2>3
<1>3. ASSUME NEW x \in (a + by)..(b + by)
      PROVE  d[x] \in Chars
  <2>1. x - by \in a..b /\ (x - by) + by = x
    BY <1>1
  <2> QED
    BY <1>2, <2>1
<1>4. a + by \in Int /\ b + by \in Int
  BY <1>1
<1>5. /\ SubSeq(s, a, b) \in Seq(Chars)
      /\ Len(SubSeq(s, a, b)) = IF a <= b THEN b - a + 1 ELSE 0
      /\ \A x \in 1..(b - a + 1) : SubSeq(s, a, b)[x] = s[a + x - 1]
  <2>1. \A x \in a..b : s[x] \in Chars
    BY <1>2
  <2> QED
    BY <2>1, SubSeqProperties
<1>6. /\ SubSeq(d, a + by, b + by) \in Seq(Chars)
      /\ Len(SubSeq(d, a + by, b + by)) = IF a + by <= b + by THEN (b + by) - (a + by) + 1 ELSE 0
      /\ \A x \in 1..((b + by) - (a + by) + 1) : SubSeq(d, a + by, b + by)[x] = d[(a + by) + x - 1]
  BY <1>3, <1>4, SubSeqProperties
<1>7. Len(SubSeq(s, a, b)) = Len(SubSeq(d, a + by, b + by))
  BY <1>1, <1>5, <1>6
<1>8. ASSUME NEW x \in 1..Len(SubSeq(d, a + by, b + by))
      PROVE  SubSeq(d, a + by, b + by)[x] = SubSeq(s, a, b)[x]
  <2>1. x \in 1..(b - a + 1) /\ x \in 1..((b + by) - (a + by) + 1)
        /\ (a + by) + x - 1 = (a + x - 1) + by /\ a + x - 1 \in a..b
    BY <1>1, <1>6
  <2> QED
    BY <1>2, <1>5, <1>6, <2>1
<1> QED
  BY <1>5, <1>6, <1>7, <1>8, SeqEqual

(* What is a tag here is one there. *)
LEMMA TagMoves ==
  ASSUME NEW s, NEW lo, NEW hi, NEW d, NEW by, Moved(s, lo, hi, d, by), Seam(s, hi, d, by),
         NEW k \in lo..(hi - 1)
  PROVE  TagAt(s, k) <=> TagAt(d, k + by)
<1>1. /\ Len(s) \in Nat /\ EndOf(s) = Len(s) + 1 /\ Len(d) \in Nat /\ EndOf(d) = Len(d) + 1
      /\ lo \in Nat /\ hi \in Nat /\ by \in Int /\ hi <= EndOf(s) /\ hi + by <= EndOf(d)
      /\ s \in Seq(Chars) /\ d \in Seq(Chars)
      /\ k \in Nat /\ k + by \in Nat /\ k < hi /\ lo <= k /\ k \in 1..Len(s) /\ k + by \in 1..Len(d)
      /\ d[k + by] = s[k]
      /\ \A S : Is(s, k, S) <=> s[k] \in S
      /\ \A S : Is(d, k + by, S) <=> s[k] \in S
  BY MovedIs
<1>2. CASE s[k] # "$"
  BY <1>1, <1>2 DEF TagAt
<1>3. CASE s[k] = "$"
  <2> DEFINE e == SpanEnd(s, k + 1, Word)
             f == SpanEnd(d, (k + by) + 1, Word)
  <2>1. /\ e \in Nat /\ f \in Nat /\ k + 1 <= e /\ e <= EndOf(s) /\ f <= EndOf(d)
        /\ e < hi => f = e + by
        /\ e >= hi => f >= hi + by /\ \A m \in (k + 1)..(hi - 1) : s[m] \in Word
        /\ ~Is(s, e, Word) /\ ~Is(d, f, Word)
    BY SpanMoves
  <2>2. (HasTag(s, k) <=> Is(s, e, {"$"})) /\ (HasTag(d, k + by) <=> Is(d, f, {"$"}))
    <3>1. TagEnd(s, k) - 1 = e /\ TagEnd(d, k + by) - 1 = f
      BY <2>1 DEF TagEnd
    <3> QED
      BY <3>1 DEF HasTag
  <2> HIDE DEF e, f
  <2>3. Is(s, k + 1, Digits) <=> Is(d, (k + by) + 1, Digits)
    <3>1. CASE k + 1 = hi
      <4>1. Digits \cap Marks = {}
        BY DEF Digits, Marks, Numerals
      <4>2. (k + by) + 1 = hi + by
        BY <1>1, <3>1
      <4>3. ~Is(s, hi, Digits) /\ ~Is(d, hi + by, Digits)
        BY <4>1, SeamIs
      <4> QED
        BY <3>1, <4>2, <4>3
    <3>2. CASE k + 1 # hi
      <4>1. k + 1 \in lo..(hi - 1) /\ (k + by) + 1 = (k + 1) + by
        BY <1>1, <3>2
      <4> DEFINE n == k + 1
      <4> HIDE DEF n
      <4>2. n \in lo..(hi - 1)
        BY <4>1 DEF n
      <4>3. Is(s, n, Digits) <=> Is(d, n + by, Digits)
        BY <4>2, IsMoves
      <4> QED
        BY <4>1, <4>3 DEF n
    <3> QED
      BY <3>1, <3>2
  <2>4. HasTag(s, k) <=> HasTag(d, k + by)
    <3>1. CASE e < hi
      <4>1. e \in lo..(hi - 1) /\ f = e + by
        BY <1>1, <2>1, <3>1
      <4>2. Is(s, e, {"$"}) <=> Is(d, e + by, {"$"})
        BY <4>1, IsMoves
      <4> QED
        BY <2>2, <4>1, <4>2
    <3>2. CASE e >= hi /\ hi = EndOf(s) /\ hi + by = EndOf(d)
      <4>1. ~(e < EndOf(s)) /\ ~(f < EndOf(d))
        BY <1>1, <2>1, <3>2
      <4> QED
        BY <2>2, <4>1 DEF Is
    <3>3. CASE /\ e >= hi /\ hi < EndOf(s) /\ hi + by < EndOf(d)
               /\ s[hi] = d[hi + by] /\ s[hi] \in {"?", "$"}
      <4>1. s[hi] \notin Word
        BY <3>3, CharFacts
      <4>2. ~(e > hi)
        <5> SUFFICES ASSUME e > hi
                     PROVE  FALSE
          OBVIOUS
        <5>1. k + 1 \in 1..EndOf(s) /\ hi \in (k + 1)..(e - 1)
          BY <1>1, <2>1
        <5>2. \A m \in (k + 1)..(e - 1) : Is(s, m, Word)
          BY <1>1, <5>1, SpanIs DEF e
        <5> QED
          BY <4>1, <5>1, <5>2 DEF Is
      <4>3. ~(f > hi + by)
        <5> SUFFICES ASSUME f > hi + by
                     PROVE  FALSE
          OBVIOUS
        <5>1. (k + by) + 1 \in 1..EndOf(d) /\ hi + by \in ((k + by) + 1)..(f - 1)
          BY <1>1, <2>1
        <5>2. \A m \in ((k + by) + 1)..(f - 1) : Is(d, m, Word)
          BY <1>1, <5>1, SpanIs DEF f
        <5> QED
          BY <3>3, <4>1, <5>1, <5>2 DEF Is
      <4>4. e = hi /\ f = hi + by
        BY <1>1, <2>1, <3>3, <4>2, <4>3
      <4> QED
        BY <2>2, <3>3, <4>4 DEF Is
    <3>4. CASE e >= hi /\ s[hi - 1] \notin Word \cup {"$"}
      <4>1. hi - 1 # k
        BY <1>3, <3>4
      <4>2. hi - 1 \in (k + 1)..(hi - 1)
        BY <1>1, <4>1
      <4> QED
        BY <2>1, <3>4, <4>2
    <3> QED
      BY <1>1, <2>1, <3>1, <3>2, <3>3, <3>4 DEF Seam
  <2> QED
    BY <1>1, <2>3, <2>4 DEF TagAt
<1> QED
  BY <1>2, <1>3

(* Where a dollar quote ends, as a least element. *)
Closing(text, k) ==
  LET len == TagEnd(text, k) - k IN
  {x \in Nat : /\ TagEnd(text, k) + len <= x /\ x <= EndOf(text)
               /\ SubSeq(text, x - len, x - 1) = SubSeq(text, k, k + len - 1)}

LEMMA DollarLeast ==
  ASSUME NEW text \in Seq(Chars), NEW k \in 1..Len(text), HasTag(text, k)
  PROVE  /\ TagEnd(text, k) \in (k + 2)..EndOf(text)
         /\ TagEnd(text, k) <= DollarEnd(text, k)
         /\ DollarEnd(text, k) = Least(Closing(text, k), EndOf(text))
<1> DEFINE to == TagEnd(text, k)
           len == to - k
           closes == {j \in to..(EndOf(text) - len) :
                        SubSeq(text, j, j + len - 1) = SubSeq(text, k, k + len - 1)}
<1>1. EndOf(text) \in Nat /\ EndOf(text) = Len(text) + 1 /\ Len(text) \in Nat /\ k \in Nat
      /\ k + 1 \in 1..EndOf(text)
  BY LenProperties DEF EndOf
<1>2. to \in Nat /\ k + 2 <= to /\ to <= EndOf(text)
  <2>1. SpanEnd(text, k + 1, Word) \in (k + 1)..EndOf(text)
    BY <1>1, SpanIs
  <2>2. SpanEnd(text, k + 1, Word) < EndOf(text) /\ to = SpanEnd(text, k + 1, Word) + 1
    BY <1>1, <2>1 DEF HasTag, TagEnd, Is
  <2> HIDE DEF to
  <2> QED
    BY <1>1, <2>1, <2>2
<1>3. DollarEnd(text, k) = IF closes = {} THEN EndOf(text)
                           ELSE len + CHOOSE j \in closes : \A other \in closes : j <= other
  BY DEF DollarEnd
<1>4. Closing(text, k) = {x \in Nat : /\ to + len <= x /\ x <= EndOf(text)
                                      /\ SubSeq(text, x - len, x - 1) = SubSeq(text, k, k + len - 1)}
  BY DEF Closing
<1> HIDE DEF to
<1>5. len \in Nat
  BY <1>1, <1>2
<1> HIDE DEF len
<1>6. ASSUME NEW j \in closes
      PROVE  j \in Nat /\ to <= j /\ j + len \in Closing(text, k)
  <2>1. j \in Nat /\ to <= j /\ j + len <= EndOf(text) /\ (j + len) - len = j
        /\ j + len - 1 = (j + len) - 1 /\ j + len \in Nat /\ to + len <= j + len
    BY <1>1, <1>2, <1>5
  <2>2. SubSeq(text, (j + len) - len, (j + len) - 1) = SubSeq(text, k, k + len - 1)
    BY <2>1
  <2> QED
    BY <1>4, <2>1, <2>2
<1>7. ASSUME NEW x \in Closing(text, k)
      PROVE  x - len \in closes
  <2>1. x \in Nat /\ to + len <= x /\ x <= EndOf(text)
        /\ SubSeq(text, x - len, x - 1) = SubSeq(text, k, k + len - 1)
    BY <1>4
  <2>2. x - len \in to..(EndOf(text) - len) /\ (x - len) + len - 1 = x - 1
    BY <1>1, <1>2, <1>5, <2>1
  <2> QED
    BY <2>1, <2>2
<1>8. Closing(text, k) \subseteq Nat
  BY <1>4
<1> HIDE DEF closes
<1>9. CASE closes = {}
  <2>1. Closing(text, k) = {}
    BY <1>7, <1>9
  <2>2. Least(Closing(text, k), EndOf(text)) = EndOf(text)
    BY <1>8, <2>1, LeastIs
  <2> QED
    BY <1>1, <1>2, <1>3, <1>9, <2>2 DEF to
<1>10. CASE closes # {}
  <2> DEFINE first == CHOOSE j \in closes : \A other \in closes : j <= other
  <2>1. \E j \in closes : \A other \in closes : j <= other
    <3>1. closes \subseteq Nat
      BY <1>6
    <3> QED
      BY <1>10, <3>1, LeastElement
  <2>2. first \in closes /\ \A other \in closes : first <= other
    BY <2>1
  <2>3. DollarEnd(text, k) = len + first
    BY <1>3, <1>10
  <2> HIDE DEF first
  <2>4. first \in Nat /\ to <= first /\ first + len \in Closing(text, k)
    BY <1>6, <2>2
  <2>5. \A x \in Closing(text, k) : first + len <= x
    <3> TAKE x \in Closing(text, k)
    <3>1. x \in Nat /\ first <= x - len
      BY <1>7, <1>8, <2>2
    <3> QED
      BY <1>5, <2>4, <3>1
  <2>6. Least(Closing(text, k), EndOf(text)) = first + len
    BY <1>8, <2>4, <2>5, LeastIs
  <2>7. DollarEnd(text, k) = first + len /\ to <= DollarEnd(text, k)
    BY <1>2, <1>5, <2>3, <2>4
  <2> QED
    BY <1>1, <1>2, <2>6, <2>7 DEF to
<1> QED
  BY <1>9, <1>10

LEMMA DollarMoves ==
  ASSUME NEW s, NEW lo, NEW hi, NEW d, NEW by, Moved(s, lo, hi, d, by), Seam(s, hi, d, by),
         NEW k \in lo..(hi - 1), TagAt(s, k), DollarEnd(s, k) <= hi
  PROVE  DollarEnd(d, k + by) = DollarEnd(s, k) + by
<1>1. /\ Len(s) \in Nat /\ EndOf(s) = Len(s) + 1 /\ Len(d) \in Nat /\ EndOf(d) = Len(d) + 1
      /\ lo \in Nat /\ hi \in Nat /\ by \in Int /\ hi <= EndOf(s) /\ hi + by <= EndOf(d)
      /\ s \in Seq(Chars) /\ d \in Seq(Chars)
      /\ k \in Nat /\ k + by \in Nat /\ k < hi /\ lo <= k /\ k \in 1..Len(s) /\ k + by \in 1..Len(d)
  BY MovedIs
<1>2. HasTag(s, k) /\ HasTag(d, k + by)
  BY TagMoves DEF TagAt
<1> DEFINE to == TagEnd(s, k)
           len == to - k
           A == Closing(s, k)
           B == Closing(d, k + by)
<1>3. /\ to \in (k + 2)..EndOf(s) /\ to <= DollarEnd(s, k)
      /\ DollarEnd(s, k) = Least(A, EndOf(s))
  BY <1>1, <1>2, DollarLeast
<1>4. DollarEnd(d, k + by) = Least(B, EndOf(d))
  BY <1>1, <1>2, DollarLeast
<1>5. DollarEnd(s, k) \in (k + 1)..EndOf(s)
  BY <1>1, <1>2, DollarIs
<1>6. to \in Nat /\ k + 2 <= to /\ to <= hi
  BY <1>1, <1>3, <1>5
<1>7. TagEnd(d, k + by) = to + by
  <2>1. SpanEnd(s, k + 1, Word) \in Nat /\ to = SpanEnd(s, k + 1, Word) + 1
    BY SpanMoves DEF TagEnd
  <2>2. SpanEnd(s, k + 1, Word) < hi
    BY <1>1, <1>6, <2>1
  <2>3. SpanEnd(d, (k + by) + 1, Word) = SpanEnd(s, k + 1, Word) + by
    BY <2>2, SpanMoves
  <2> HIDE DEF to
  <2>4. TagEnd(d, k + by) = SpanEnd(d, (k + by) + 1, Word) + 1
    BY DEF TagEnd
  <2> DEFINE e == SpanEnd(s, k + 1, Word)
  <2>5. e \in Nat /\ to = e + 1 /\ TagEnd(d, k + by) = (e + by) + 1 /\ by \in Int
    BY <1>1, <2>1, <2>3, <2>4
  <2> HIDE DEF e
  <2> QED
    BY <2>5
<1> HIDE DEF to
<1>8. TagEnd(d, k + by) - (k + by) = len /\ len \in Nat
  BY <1>1, <1>6, <1>7
<1>9. A = {x \in Nat : /\ to + len <= x /\ x <= EndOf(s)
                       /\ SubSeq(s, x - len, x - 1) = SubSeq(s, k, k + len - 1)}
  BY DEF Closing, to
<1>10. B = {x \in Nat : /\ (to + by) + len <= x /\ x <= EndOf(d)
                        /\ SubSeq(d, x - len, x - 1) = SubSeq(d, k + by, (k + by) + len - 1)}
  BY <1>7, <1>8 DEF Closing
<1>11. k + len = to
  BY <1>1, <1>6
<1> HIDE DEF A, B, len
<1>12. SubSeq(d, k + by, (k + by) + len - 1) = SubSeq(s, k, k + len - 1)
  <2> DEFINE b == k + len - 1
  <2>1. (k + by) + len - 1 = b + by /\ b < hi /\ b \in Int /\ k \in Int
    BY <1>1, <1>6, <1>8, <1>11
  <2> HIDE DEF b
  <2>2. Cut(s, k, b, d, by)
    BY <1>1, <2>1, CutMoves
  <2>3. SubSeq(d, k + by, b + by) = SubSeq(s, k, b)
    BY <2>2 DEF Cut
  <2> QED
    BY <2>1, <2>3 DEF b
<1>13. \A x \in Int : x <= hi => (x \in A <=> x + by \in B)
  <2> SUFFICES ASSUME NEW x \in Int, x <= hi
               PROVE  x \in A <=> x + by \in B
    OBVIOUS
  <2>1. CASE to + len <= x
    <3> DEFINE a == x - len
               b == x - 1
    <3>1. a \in Int /\ b \in Int /\ lo <= a /\ b < hi
          /\ (x + by) - len = a + by /\ (x + by) - 1 = b + by
      BY <1>1, <1>6, <1>8, <2>1
    <3> HIDE DEF a, b
    <3>2. Cut(s, a, b, d, by)
      BY <3>1, CutMoves
    <3>5. SubSeq(d, a + by, b + by) = SubSeq(s, a, b)
      BY <3>2 DEF Cut
    <3>3. SubSeq(d, (x + by) - len, (x + by) - 1) = SubSeq(s, x - len, x - 1)
      BY <3>1, <3>5 DEF a, b
    <3>4. x \in Nat /\ x + by \in Nat /\ x <= EndOf(s) /\ x + by <= EndOf(d)
          /\ (to + by) + len <= x + by
      BY <1>1, <1>6, <1>8, <2>1
    <3> QED
      BY <1>9, <1>10, <1>12, <2>1, <3>3, <3>4
  <2>2. CASE ~(to + len <= x)
    <3>1. ~((to + by) + len <= x + by)
      BY <1>1, <1>6, <1>8, <2>2
    <3> QED
      BY <1>9, <1>10, <2>2, <3>1
  <2> QED
    BY <2>1, <2>2
<1>14. Shifted(A, EndOf(s), B, EndOf(d), hi, by)
  <2>1. hi = EndOf(s) <=> hi + by = EndOf(d)
    BY SeamIs
  <2>2. EndOf(s) <= hi => EndOf(s) = hi /\ EndOf(d) = hi + by
    BY <1>1, <2>1
  <2>3. A \subseteq Nat /\ B \subseteq Nat /\ \A x \in B : x <= EndOf(d)
    BY <1>9, <1>10
  <2> QED
    BY <1>1, <1>13, <2>2, <2>3 DEF Shifted
<1>15. Least(B, EndOf(d)) = Least(A, EndOf(s)) + by
  BY <1>3, <1>14, LeastMoves
<1> QED
  BY <1>3, <1>4, <1>15

(* At k begins nothing that the characters before it belong to; of Fresh what
   the regions and the numbers of a text depend on. *)
Settled(text, k) ==
  /\ Is(text, k, Word) =>
       \A j \in 1..(k - 1) : text[j] \in Letters => \E m \in j..(k - 1) : text[m] \notin Word
  /\ Is(text, k, Letters) => ~(k > 1 /\ text[k - 1] = ":" /\ OddInRun(text, k - 1))
  /\ Is(text, k, {":"}) => OddInRun(text, k)

LEMMA FreshSettled ==
  ASSUME NEW text, NEW k, Fresh(text, k)
  PROVE  Settled(text, k)
BY DEF Fresh, Settled, Is

LEMMA ColonsMove ==
  ASSUME NEW s, NEW lo, NEW hi, NEW d, NEW by, Moved(s, lo, hi, d, by),
         Settled(s, lo), Settled(d, lo + by),
         NEW k \in lo..(hi - 1), s[k] = ":"
  PROVE  OddInRun(s, k) <=> OddInRun(d, k + by)
<1>1. /\ lo \in Nat /\ hi \in Nat /\ by \in Int /\ 1 <= lo /\ 1 <= lo + by /\ lo < hi
      /\ k \in Nat /\ lo <= k /\ k < hi
  BY MovedIs DEF Moved
<1> DEFINE S == {n \in Nat : lo + n < hi /\ s[lo + n] = ":"
                               => (OddInRun(s, lo + n) <=> OddInRun(d, (lo + n) + by))}
<1>2. 0 \in S
  <2> SUFFICES ASSUME s[lo] = ":"
               PROVE  OddInRun(s, lo) /\ OddInRun(d, lo + by)
    BY <1>1
  <2>1. lo \in lo..(hi - 1)
    BY <1>1
  <2>3. \A S_1 : Is(s, lo, S_1) <=> s[lo] \in S_1
    BY <2>1, MovedIs
  <2>4. Is(s, lo, {":"})
    BY <2>3
  <2>2. Is(s, lo, {":"}) /\ Is(d, lo + by, {":"})
    BY <2>1, <2>4, IsMoves
  <2> QED
    BY <2>2 DEF Settled
<1>3. ASSUME NEW n \in Nat, n \in S
      PROVE  n + 1 \in S
  <2> DEFINE p == lo + n
  <2> SUFFICES ASSUME p + 1 < hi, s[p + 1] = ":"
               PROVE  OddInRun(s, p + 1) <=> OddInRun(d, (p + 1) + by)
    BY <1>1
  <2>1. /\ p \in lo..(hi - 1) /\ p + 1 \in lo..(hi - 1) /\ p < hi /\ p \in Nat /\ 1 <= p
        /\ p + by \in Nat /\ 1 <= p + by /\ (p + 1) + by = (p + by) + 1
        /\ p + 1 \in Nat /\ (p + by) + 1 \in Nat /\ (p + 1) - 1 = p /\ ((p + by) + 1) - 1 = p + by
    BY <1>1
  <2>2. s[p] = ":" => (OddInRun(s, p) <=> OddInRun(d, p + by))
    BY <1>3, <2>1
  <2> HIDE DEF p
  <2>3. d[p + by] = s[p] /\ d[(p + by) + 1] = s[p + 1]
    <3>1. d[p + by] = s[p]
      BY <2>1, MovedIs
    <3> DEFINE r == p + 1
    <3>2. r \in lo..(hi - 1) /\ r + by = (p + by) + 1
      BY <2>1
    <3> HIDE DEF r
    <3>3. d[r + by] = s[r]
      BY <3>2, MovedIs
    <3> QED
      BY <3>1, <3>2, <3>3 DEF r
  <2>4. CASE s[p] = ":"
    <3>1. OddInRun(s, p + 1) <=> ~OddInRun(s, p)
      BY <2>1, <2>4, OddNext
    <3>2. OddInRun(d, (p + by) + 1) <=> ~OddInRun(d, p + by)
      BY <2>1, <2>3, <2>4, OddNext
    <3> QED
      BY <2>1, <2>2, <2>4, <3>1, <3>2
  <2>5. CASE s[p] # ":"
    <3>1. OddInRun(s, p + 1)
      BY <2>1, <2>5, OddFirst
    <3>2. OddInRun(d, (p + by) + 1)
      BY <2>1, <2>3, <2>5, OddFirst
    <3> QED
      BY <2>1, <3>1, <3>2
  <2> QED
    BY <2>4, <2>5
<1> HIDE DEF S
<1>4. Nat \subseteq S
  BY <1>2, <1>3, SetInduction
<1>5. k - lo \in Nat /\ lo + (k - lo) = k
  BY <1>1
<1>6. k - lo \in S
  BY <1>4, <1>5
<1> QED
  BY <1>1, <1>5, <1>6 DEF S

(* k is in a word that begins at lo or later. *)
Joined(text, lo, k) ==
  \E j \in lo..(k - 1) : text[j] \in Letters /\ \A m \in j..(k - 1) : text[m] \in Word

LEMMA JoinedFrom ==
  ASSUME NEW text, NEW lo \in Nat, 1 <= lo, Settled(text, lo),
         NEW k \in Nat, lo <= k, Is(text, k, Word), EndOf(text) \in Nat
  PROVE  Joined(text, 1, k) <=> Joined(text, lo, k)
<1>1. Joined(text, lo, k) => Joined(text, 1, k)
  <2>1. \A j \in lo..(k - 1) : j \in 1..(k - 1)
    OBVIOUS
  <2> QED
    BY <2>1 DEF Joined
<1>2. ASSUME Joined(text, 1, k)
      PROVE  Joined(text, lo, k)
  <2>1. PICK j \in 1..(k - 1) : text[j] \in Letters /\ \A m \in j..(k - 1) : text[m] \in Word
    BY <1>2 DEF Joined
  <2>2. CASE lo <= j
    <3>1. j \in lo..(k - 1)
      BY <2>2
    <3> QED
      BY <2>1, <3>1 DEF Joined
  <2>3. CASE j < lo
    <3>1. Is(text, lo, Word)
      <4>1. CASE lo = k
        BY <4>1
      <4>2. CASE lo # k
        <5>1. lo \in j..(k - 1) /\ lo < EndOf(text)
          BY <2>3, <4>2 DEF Is
        <5> QED
          BY <2>1, <5>1 DEF Is
      <4> QED
        BY <4>1, <4>2
    <3>2. j \in 1..(lo - 1)
      BY <2>3
    <3>3. PICK m \in j..(lo - 1) : text[m] \notin Word
      BY <2>1, <3>1, <3>2 DEF Settled
    <3>4. m \in j..(k - 1)
      OBVIOUS
    <3> QED
      BY <2>1, <3>3, <3>4
  <2> QED
    BY <2>2, <2>3
<1> QED
  BY <1>1, <1>2

LEMMA JoinedMoves ==
  ASSUME NEW s, NEW lo, NEW hi, NEW d, NEW by, Moved(s, lo, hi, d, by), NEW k \in lo..(hi - 1)
  PROVE  Joined(s, lo, k) <=> Joined(d, lo + by, k + by)
<1>1. lo \in Nat /\ hi \in Nat /\ by \in Int /\ k \in Nat /\ lo <= k /\ k < hi
  BY MovedIs
<1>2. \A m \in lo..(k - 1) : d[m + by] = s[m]
  <2>1. \A m \in lo..(k - 1) : m \in lo..(hi - 1)
    BY <1>1
  <2> QED
    BY <2>1, MovedIs
<1>3. ASSUME Joined(s, lo, k)
      PROVE  Joined(d, lo + by, k + by)
  <2>1. PICK j \in lo..(k - 1) : s[j] \in Letters /\ \A m \in j..(k - 1) : s[m] \in Word
    BY <1>3 DEF Joined
  <2>2. j + by \in (lo + by)..((k + by) - 1) /\ d[j + by] \in Letters
    BY <1>1, <1>2, <2>1
  <2>3. ASSUME NEW m \in (j + by)..((k + by) - 1)
        PROVE  d[m] \in Word
    <3>1. m - by \in j..(k - 1) /\ m - by \in lo..(k - 1) /\ (m - by) + by = m
      BY <1>1, <2>1
    <3> QED
      BY <1>2, <2>1, <3>1
  <2> QED
    BY <2>2, <2>3 DEF Joined
<1>4. ASSUME Joined(d, lo + by, k + by)
      PROVE  Joined(s, lo, k)
  <2>1. PICK j \in (lo + by)..((k + by) - 1) :
          d[j] \in Letters /\ \A m \in j..((k + by) - 1) : d[m] \in Word
    BY <1>4 DEF Joined
  <2>2. j - by \in lo..(k - 1) /\ (j - by) + by = j
    BY <1>1
  <2>3. s[j - by] \in Letters
    BY <1>2, <2>1, <2>2
  <2>4. ASSUME NEW m \in (j - by)..(k - 1)
        PROVE  s[m] \in Word
    <3>1. m + by \in j..((k + by) - 1) /\ m \in lo..(k - 1)
      BY <1>1, <2>2
    <3> QED
      BY <1>2, <2>1, <3>1
  <2> QED
    BY <2>2, <2>3, <2>4 DEF Joined
<1> QED
  BY <1>3, <1>4

LEMMA EscapeIs ==
  ASSUME NEW text, NEW k
  PROVE  EscapeAt(text, k) <=> /\ Pair(text, k, "E", "'")
                               /\ ~Joined(text, 1, k)
                               /\ ~(k > 1 /\ text[k - 1] = ":" /\ OddInRun(text, k - 1))
BY DEF EscapeAt, Joined

LEMMA EscapeMoves ==
  ASSUME NEW s, NEW lo, NEW hi, NEW d, NEW by, Moved(s, lo, hi, d, by), Seam(s, hi, d, by),
         Settled(s, lo), Settled(d, lo + by), NEW k \in lo..(hi - 1)
  PROVE  EscapeAt(s, k) <=> EscapeAt(d, k + by)
<1>1. /\ lo \in Nat /\ hi \in Nat /\ by \in Int /\ 1 <= lo /\ 1 <= lo + by /\ lo < hi
      /\ k \in Nat /\ lo <= k /\ k < hi /\ k + by \in Nat /\ d[k + by] = s[k]
      /\ EndOf(s) \in Nat /\ EndOf(d) \in Nat /\ lo + by \in Nat /\ lo + by <= k + by
  <2>1. /\ k \in Nat /\ lo <= k /\ k < hi /\ k + by \in Nat /\ d[k + by] = s[k]
        /\ Len(s) \in Nat /\ EndOf(s) = Len(s) + 1 /\ Len(d) \in Nat /\ EndOf(d) = Len(d) + 1
    BY MovedIs
  <2>2. lo \in Nat /\ hi \in Nat /\ by \in Int /\ 1 <= lo /\ 1 <= lo + by /\ lo < hi
    BY DEF Moved
  <2> QED
    BY <2>1, <2>2
<1>2. Pair(s, k, "E", "'") <=> Pair(d, k + by, "E", "'")
  BY PairMoves DEF Marks
<1> SUFFICES ASSUME Pair(s, k, "E", "'"), Pair(d, k + by, "E", "'")
             PROVE  EscapeAt(s, k) <=> EscapeAt(d, k + by)
  BY <1>2 DEF EscapeAt
<1>3. Is(s, k, Word) /\ Is(d, k + by, Word) /\ Is(s, k, Letters) /\ Is(d, k + by, Letters)
  BY DEF Pair, Is, Word, Letters
<1>4. Joined(s, 1, k) <=> Joined(d, 1, k + by)
  <2>1. Joined(s, 1, k) <=> Joined(s, lo, k)
    BY <1>1, <1>3, JoinedFrom
  <2>2. Joined(d, 1, k + by) <=> Joined(d, lo + by, k + by)
    BY <1>1, <1>3, JoinedFrom
  <2> QED
    BY <2>1, <2>2, JoinedMoves
<1>5. k > 1 /\ s[k - 1] = ":" /\ OddInRun(s, k - 1)
        <=> k + by > 1 /\ d[(k + by) - 1] = ":" /\ OddInRun(d, (k + by) - 1)
  <2>1. CASE k = lo
    BY <1>3, <2>1 DEF Settled
  <2>2. CASE k # lo
    <3> DEFINE p == k - 1
    <3>1. p \in lo..(hi - 1) /\ (k + by) - 1 = p + by /\ k > 1 /\ k + by > 1
      BY <1>1, <2>2
    <3> HIDE DEF p
    <3>2. d[p + by] = s[p]
      BY <3>1, MovedIs
    <3>3. s[p] = ":" => (OddInRun(s, p) <=> OddInRun(d, p + by))
      BY <3>1, ColonsMove
    <3> QED
      BY <3>1, <3>2, <3>3 DEF p
  <2> QED
    BY <2>1, <2>2
<1> QED
  BY <1>4, <1>5, EscapeIs

(* A region that ends by hi ends there in the copy. *)
LEMMA RegionMoves ==
  ASSUME NEW s, NEW lo, NEW hi, NEW d, NEW by, Moved(s, lo, hi, d, by), Seam(s, hi, d, by),
         Settled(s, lo), Settled(d, lo + by), NEW k \in lo..(hi - 1), RegionTo(s, k) <= hi
  PROVE  RegionTo(d, k + by) = RegionTo(s, k) + by
<1>1. /\ lo \in Nat /\ hi \in Nat /\ by \in Int /\ k \in Nat /\ k + by \in Nat /\ d[k + by] = s[k]
  BY MovedIs
<1>2. /\ Pair(s, k, "-", "-") <=> Pair(d, k + by, "-", "-")
      /\ Pair(s, k, "/", "*") <=> Pair(d, k + by, "/", "*")
  BY PairMoves DEF Marks
<1>3. EscapeAt(s, k) <=> EscapeAt(d, k + by)
  BY EscapeMoves
<1>4. TagAt(s, k) <=> TagAt(d, k + by)
  BY TagMoves
<1>5. Is(s, k, Quotes) <=> Is(d, k + by, Quotes)
  BY IsMoves
<1>6. CASE Pair(s, k, "-", "-")
  <2>1. RegionTo(s, k) = Least({j \in k..Len(s) : s[j] = "nl"}, EndOf(s))
    BY <1>6, RegionIs
  <2>2. RegionTo(d, k + by) = Least({j \in (k + by)..Len(d) : d[j] = "nl"}, EndOf(d))
    BY <1>2, <1>6, RegionIs
  <2> QED
    BY <2>1, <2>2, LineMoves
<1>7. CASE Pair(s, k, "/", "*")
  <2>1. RegionTo(s, k) = CommentTo(s, k) /\ RegionTo(d, k + by) = CommentTo(d, k + by)
    BY <1>2, <1>7, RegionIs
  <2> QED
    BY <2>1, CommentMoves
<1>8. CASE EscapeAt(s, k)
  <2> DEFINE q == k + 1
  <2>1. RegionTo(s, k) = QuotedTo(s, q, TRUE) /\ RegionTo(d, k + by) = QuotedTo(d, (k + by) + 1, TRUE)
    BY <1>3, <1>8, RegionIs
  <2>2. Pair(s, k, "E", "'")
    BY <1>8 DEF EscapeAt
  <2>3. q \in lo..(hi - 1)
    BY <2>2, PairMoves DEF Marks
  <2>4. s[q] \notin Marks
    BY <2>2 DEF Pair, Is, Marks
  <2>5. (k + by) + 1 = q + by
    BY <1>1
  <2> DEFINE escapes == TRUE
  <2>6. escapes \in BOOLEAN
    OBVIOUS
  <2> HIDE DEF q, escapes
  <2>7. QuotedTo(s, q, escapes) <= hi
    BY <2>1 DEF escapes
  <2>8. QuotedTo(d, q + by, escapes) = QuotedTo(s, q, escapes) + by
    BY <2>3, <2>4, <2>6, <2>7, QuotedMoves
  <2> QED
    BY <2>1, <2>5, <2>8 DEF escapes
<1>9. CASE Is(s, k, Quotes)
  <2>1. RegionTo(s, k) = QuotedTo(s, k, FALSE) /\ RegionTo(d, k + by) = QuotedTo(d, k + by, FALSE)
    BY <1>5, <1>9, RegionIs
  <2>2. s[k] \notin Marks
    BY <1>9 DEF Is, Marks, Quotes
  <2> DEFINE escapes == FALSE
  <2>3. escapes \in BOOLEAN
    OBVIOUS
  <2> HIDE DEF escapes
  <2>4. QuotedTo(s, k, escapes) <= hi
    BY <2>1 DEF escapes
  <2>5. QuotedTo(d, k + by, escapes) = QuotedTo(s, k, escapes) + by
    BY <2>2, <2>3, <2>4, QuotedMoves
  <2> QED
    BY <2>1, <2>5 DEF escapes
<1>10. CASE TagAt(s, k)
  <2>1. RegionTo(s, k) = DollarEnd(s, k) /\ RegionTo(d, k + by) = DollarEnd(d, k + by)
    BY <1>4, <1>10, RegionIs
  <2> QED
    BY <1>10, <2>1, DollarMoves
<1>11. CASE /\ ~Pair(s, k, "-", "-") /\ ~Pair(s, k, "/", "*") /\ ~EscapeAt(s, k)
            /\ ~Is(s, k, Quotes) /\ ~TagAt(s, k)
  <2>1. RegionTo(s, k) = k
    BY <1>11, NoRegion
  <2>2. RegionTo(d, k + by) = k + by
    BY <1>2, <1>3, <1>4, <1>5, <1>11, NoRegion
  <2> QED
    BY <2>1, <2>2
<1> QED
  BY <1>6, <1>7, <1>8, <1>9, <1>10, <1>11

(* A region that goes past a place hides up to it. *)
LEMMA HiddenStays ==
  ASSUME NEW text \in Seq(Chars), NEW k \in 1..Len(text), ~(HiddenTo(text)[k - 1] > k),
         NEW hi \in Nat, k < hi, hi <= EndOf(text), ~(HiddenTo(text)[hi - 1] > hi)
  PROVE  RegionTo(text, k) \in Nat /\ RegionTo(text, k) <= hi
<1> DEFINE H == HiddenTo(text)
           v == RegionTo(text, k)
<1>1. /\ Len(text) \in Nat /\ EndOf(text) = Len(text) + 1 /\ k \in Nat /\ 1 <= k /\ v \in Nat
  BY LenProperties, RegionNat DEF EndOf
<1>2. /\ \A m \in 1..Len(text) : H[m] = IF H[m - 1] > m THEN H[m - 1] ELSE RegionTo(text, m)
  BY HiddenIs
<1>3. H[k] = v
  BY <1>2
<1> SUFFICES ASSUME ~(v <= hi)
             PROVE  FALSE
  BY <1>1
<1> HIDE DEF H, v
<1> DEFINE S == {n \in Nat : k + n < hi => H[k + n] = v}
<1>4. 0 \in S
  BY <1>1, <1>3
<1>5. ASSUME NEW n \in Nat, n \in S
      PROVE  n + 1 \in S
  <2> SUFFICES ASSUME k + (n + 1) < hi
               PROVE  H[k + (n + 1)] = v
    OBVIOUS
  <2>1. /\ k + n < hi /\ k + (n + 1) \in 1..Len(text) /\ (k + (n + 1)) - 1 = k + n
        /\ v > k + (n + 1)
    BY <1>1
  <2>2. H[(k + (n + 1)) - 1] = v
    BY <1>5, <2>1
  <2> QED
    BY <1>2, <2>1, <2>2
<1> HIDE DEF S
<1>6. Nat \subseteq S
  BY <1>4, <1>5, SetInduction
<1>7. (hi - 1) - k \in Nat /\ k + ((hi - 1) - k) = hi - 1 /\ hi - 1 < hi
  BY <1>1
<1>8. (hi - 1) - k \in S
  BY <1>6, <1>7
<1>9. H[hi - 1] = v
  BY <1>7, <1>8 DEF S
<1> QED
  BY <1>1, <1>9 DEF H

(* What is seen here is seen there. *)
LEMMA HiddenMoves ==
  ASSUME NEW s, NEW lo, NEW hi, NEW d, NEW by, Moved(s, lo, hi, d, by), Seam(s, hi, d, by),
         Settled(s, lo), Settled(d, lo + by),
         ~(HiddenTo(s)[lo - 1] > lo), ~(HiddenTo(d)[(lo + by) - 1] > lo + by),
         ~(HiddenTo(s)[hi - 1] > hi)
  PROVE  /\ \A k \in lo..(hi - 1) : k \in Visible(s) <=> k + by \in Visible(d)
         /\ ~(HiddenTo(d)[(hi + by) - 1] > hi + by)
<1> DEFINE H == HiddenTo(s)
           G == HiddenTo(d)
<1>1. /\ Len(s) \in Nat /\ EndOf(s) = Len(s) + 1 /\ Len(d) \in Nat /\ EndOf(d) = Len(d) + 1
      /\ lo \in Nat /\ hi \in Nat /\ by \in Int /\ hi <= EndOf(s) /\ hi + by <= EndOf(d)
      /\ s \in Seq(Chars) /\ d \in Seq(Chars) /\ lo < hi /\ 1 <= lo /\ 1 <= lo + by
  BY MovedIs DEF Moved
<1>2. /\ \A m \in 1..Len(s) : H[m] = IF H[m - 1] > m THEN H[m - 1] ELSE RegionTo(s, m)
      /\ Visible(s) = {m \in 1..Len(s) : H[m] <= m}
      /\ \A m \in 1..Len(d) : G[m] = IF G[m - 1] > m THEN G[m - 1] ELSE RegionTo(d, m)
      /\ Visible(d) = {m \in 1..Len(d) : G[m] <= m}
  BY <1>1, HiddenIs
<1>3. ~(H[lo - 1] > lo) /\ ~(G[(lo + by) - 1] > lo + by) /\ ~(H[hi - 1] > hi)
  OBVIOUS
<1> HIDE DEF G
<1>4. ASSUME NEW k \in lo..(hi - 1), ~(H[k - 1] > k)
      PROVE  RegionTo(s, k) \in Nat /\ RegionTo(d, k + by) = RegionTo(s, k) + by
  <2>1. k \in 1..Len(s) /\ k < hi
    BY <1>1
  <2>2. RegionTo(s, k) \in Nat /\ RegionTo(s, k) <= hi
    BY <1>1, <1>4, <2>1, HiddenStays
  <2> QED
    BY <2>2, RegionMoves
<1> HIDE DEF H
<1> DEFINE S == {n \in Nat : lo + n < hi => /\ H[lo + n] \in Int
                                            /\ G[(lo + n) + by] = H[lo + n] + by}
<1>5. 0 \in S
  <2>1. lo \in lo..(hi - 1) /\ lo \in 1..Len(s) /\ lo + by \in 1..Len(d)
    BY <1>1
  <2>2. H[lo] = RegionTo(s, lo)
    BY <1>2, <1>3, <2>1
  <2>3. G[lo + by] = RegionTo(d, lo + by)
    BY <1>2, <1>3, <2>1
  <2> QED
    BY <1>1, <1>3, <1>4, <2>1, <2>2, <2>3
<1>6. ASSUME NEW n \in Nat, n \in S
      PROVE  n + 1 \in S
  <2> DEFINE k == lo + (n + 1)
  <2> SUFFICES ASSUME k < hi
               PROVE  H[k] \in Int /\ G[k + by] = H[k] + by
    OBVIOUS
  <2>1. /\ lo + n < hi /\ k \in Nat /\ k - 1 = lo + n /\ (k + by) - 1 = (lo + n) + by
        /\ k \in lo..(hi - 1) /\ k \in 1..Len(s) /\ k + by \in 1..Len(d)
    BY <1>1
  <2>2. H[k - 1] \in Int /\ G[(k + by) - 1] = H[k - 1] + by
    BY <1>6, <2>1
  <2> HIDE DEF k
  <2>3. H[k - 1] > k <=> G[(k + by) - 1] > k + by
    <3> DEFINE h == H[k - 1]
    <3>1. h \in Int /\ k \in Int /\ by \in Int
      BY <1>1, <2>1, <2>2
    <3> HIDE DEF h
    <3>2. h > k <=> h + by > k + by
      BY <3>1
    <3> QED
      BY <2>2, <3>2 DEF h
  <2>4. H[k] = IF H[k - 1] > k THEN H[k - 1] ELSE RegionTo(s, k)
    BY <1>2, <2>1
  <2>5. G[k + by] = IF G[(k + by) - 1] > k + by THEN G[(k + by) - 1] ELSE RegionTo(d, k + by)
    BY <1>2, <2>1
  <2>6. CASE H[k - 1] > k
    BY <2>2, <2>3, <2>4, <2>5, <2>6
  <2>7. CASE ~(H[k - 1] > k)
    BY <1>4, <2>1, <2>3, <2>4, <2>5, <2>7
  <2> QED
    BY <2>6, <2>7
<1> HIDE DEF S
<1>7. Nat \subseteq S
  BY <1>5, <1>6, SetInduction
<1>8. ASSUME NEW k \in lo..(hi - 1)
      PROVE  H[k] \in Int /\ G[k + by] = H[k] + by
  <2>1. k - lo \in Nat /\ lo + (k - lo) = k /\ k < hi
    BY <1>1
  <2>2. k - lo \in S
    BY <1>7, <2>1
  <2> QED
    BY <2>1, <2>2 DEF S
<1>9. ASSUME NEW k \in lo..(hi - 1)
      PROVE  k \in Visible(s) <=> k + by \in Visible(d)
  <2>1. k \in 1..Len(s) /\ k + by \in 1..Len(d) /\ k \in Nat
    BY <1>1
  <2>2. H[k] <= k <=> G[k + by] <= k + by
    <3> DEFINE h == H[k]
    <3>1. h \in Int /\ k \in Int /\ by \in Int /\ G[k + by] = h + by
      BY <1>1, <1>8, <2>1
    <3> HIDE DEF h
    <3>2. h <= k <=> h + by <= k + by
      BY <3>1
    <3> QED
      BY <3>1, <3>2 DEF h
  <2> QED
    BY <1>2, <2>1, <2>2
<1>10. ~(G[(hi + by) - 1] > hi + by)
  <2>1. hi - 1 \in lo..(hi - 1) /\ (hi + by) - 1 = (hi - 1) + by
    BY <1>1
  <2> DEFINE k == hi - 1
  <2> HIDE DEF k
  <2>2. H[k] \in Int /\ G[k + by] = H[k] + by
    BY <1>8, <2>1 DEF k
  <2>3. ~(H[k] > hi)
    BY <1>3 DEF k
  <2>4. ~(G[k + by] > hi + by)
    BY <1>1, <2>2, <2>3
  <2> QED
    BY <2>1, <2>4 DEF k
<1> QED
  BY <1>9, <1>10 DEF G

OrderedBy(S, C) == [n \in 1..Cardinality(S) |-> CHOOSE t \in S : C[t] = n - 1]

LEMMA InOrderBy ==
  ASSUME NEW S, NEW C, \A t \in S : C[t] = Cardinality({u \in S : u.lo < t.lo})
  PROVE  InOrder(S) = OrderedBy(S, C)
<1>1. \A n : (CHOOSE t \in S : Cardinality({u \in S : u.lo < t.lo}) = n - 1)
               = CHOOSE t \in S : C[t] = n - 1
  BY Zenon
<1> QED
  BY <1>1 DEF InOrder, OrderedBy

(* One token more, behind all the others. *)
LEMMA InOrderGrows ==
  ASSUME NEW S, IsFiniteSet(S), \A u \in S : u.lo \in Nat,
         NEW x, x.lo \in Nat, \A u \in S : u.lo < x.lo
  PROVE  /\ Cardinality(S) \in Nat
         /\ DOMAIN InOrder(S) = 1..Cardinality(S)
         /\ DOMAIN InOrder(S \cup {x}) = 1..(Cardinality(S) + 1)
         /\ \A n \in 1..Cardinality(S) : InOrder(S \cup {x})[n] = InOrder(S)[n]
         /\ InOrder(S \cup {x})[Cardinality(S) + 1] = x
<1> DEFINE T == S \cup {x}
           C == [t \in S |-> Cardinality({u \in S : u.lo < t.lo})]
           D == [t \in T |-> Cardinality({u \in T : u.lo < t.lo})]
           c == Cardinality(S)
<1>1. x \notin S
  <2> SUFFICES ASSUME x \in S
               PROVE  FALSE
    OBVIOUS
  <2>1. x.lo < x.lo
    OBVIOUS
  <2> QED
    BY <2>1
<1>2. c \in Nat /\ Cardinality(T) = c + 1
  BY <1>1, FS_CardinalityType, FS_AddElement
<1>3. D[x] = c
  <2>1. {u \in T : u.lo < x.lo} = S
    BY <1>1
  <2> QED
    BY <2>1
<1>4. ASSUME NEW t \in S
      PROVE  D[t] = C[t] /\ C[t] \in Nat /\ C[t] < c
  <2>1. ~(x.lo < t.lo)
    BY <1>1
  <2>2. {u \in T : u.lo < t.lo} = {u \in S : u.lo < t.lo}
    BY <2>1
  <2>3. D[t] = C[t]
    BY <2>2
  <2>4. {u \in S : u.lo < t.lo} \in SUBSET (S \ {t})
    OBVIOUS
  <2>5. IsFiniteSet(S \ {t}) /\ Cardinality(S \ {t}) = c - 1
    BY FS_RemoveElement
  <2> DEFINE B == {u \in S : u.lo < t.lo}
  <2> HIDE DEF B
  <2>6. B \in SUBSET (S \ {t})
    BY <2>4 DEF B
  <2>7. IsFiniteSet(B) /\ Cardinality(B) <= c - 1
    BY <2>5, <2>6, FS_Subset
  <2>8. Cardinality(B) \in Nat
    BY <2>7, FS_CardinalityType
  <2>9. C[t] = Cardinality(B)
    BY DEF B
  <2> HIDE DEF C, D, c
  <2> QED
    BY <1>2, <2>3, <2>7, <2>8, <2>9
<1>5. InOrder(S) = OrderedBy(S, C)
  <2>1. \A t \in S : C[t] = Cardinality({u \in S : u.lo < t.lo})
    OBVIOUS
  <2> HIDE DEF C
  <2> QED
    BY <2>1, InOrderBy
<1>6. InOrder(T) = OrderedBy(T, D)
  <2>1. \A t \in T : D[t] = Cardinality({u \in T : u.lo < t.lo})
    OBVIOUS
  <2> HIDE DEF T, D
  <2> QED
    BY <2>1, InOrderBy
<1> HIDE DEF C, D, c
<1>10. /\ InOrder(S) = [n \in 1..c |-> CHOOSE t \in S : C[t] = n - 1]
       /\ InOrder(T) = [n \in 1..(c + 1) |-> CHOOSE t \in T : D[t] = n - 1]
  <2>1. InOrder(S) = [n \in 1..c |-> CHOOSE t \in S : C[t] = n - 1]
    BY <1>5 DEF OrderedBy, c
  <2> HIDE DEF T
  <2>2. InOrder(T) = [n \in 1..(c + 1) |-> CHOOSE t \in T : D[t] = n - 1]
    BY <1>2, <1>6 DEF OrderedBy
  <2> QED
    BY <2>1, <2>2
<1>7. ASSUME NEW n \in 1..c
      PROVE  InOrder(T)[n] = InOrder(S)[n]
  <2>1. n \in 1..(c + 1) /\ n \in Nat /\ n - 1 # c
    BY <1>2
  <2>2. \A t : (t \in S /\ C[t] = n - 1) <=> (t \in T /\ D[t] = n - 1)
    BY <1>3, <1>4, <2>1
  <2>3. (CHOOSE t \in S : C[t] = n - 1) = CHOOSE t \in T : D[t] = n - 1
    BY <2>2, Zenon
  <2> HIDE DEF T
  <2> QED
    BY <1>10, <2>1, <2>3
<1>8. InOrder(T)[c + 1] = x
  <2>1. c + 1 \in 1..(c + 1) /\ (c + 1) - 1 = c
    BY <1>2
  <2>2. \A t \in T : D[t] = c <=> t = x
    BY <1>2, <1>3, <1>4
  <2>3. x \in T
    OBVIOUS
  <2> HIDE DEF T
  <2>4. (CHOOSE t \in T : D[t] = c) = x
    BY <2>2, <2>3
  <2> QED
    BY <1>10, <2>1, <2>4
<1>9. DOMAIN InOrder(S) = 1..c /\ DOMAIN InOrder(T) = 1..(c + 1)
  BY <1>10
<1> QED
  BY <1>2, <1>7, <1>8, <1>9 DEF c

(* The numbered parameters below k, and their numbers. *)
NumberedBelow(text, k) == {t \in ParamsBelow(text, k) : t.kind = "numbered"}

NumbersOf(text, S) ==
  [n \in DOMAIN InOrder(S) |-> SubSeq(text, InOrder(S)[n].lo + 1, InOrder(S)[n].hi - 1)]

NumbersTo(text, k) == NumbersOf(text, NumberedBelow(text, k))

NumberAt(text, k) == Is(text, k, {"$"}) /\ Is(text, k + 1, Digits)

LEMMA NumbersGrow ==
  ASSUME NEW text, NEW S, IsFiniteSet(S), \A u \in S : u.lo \in Nat,
         NEW x, x.lo \in Nat, \A u \in S : u.lo < x.lo
  PROVE  NumbersOf(text, S \cup {x}) = Append(NumbersOf(text, S), SubSeq(text, x.lo + 1, x.hi - 1))
<1> DEFINE c == Cardinality(S)
           T == S \cup {x}
           a == InOrder(S)
           b == InOrder(T)
           v == SubSeq(text, x.lo + 1, x.hi - 1)
           f == NumbersOf(text, S)
           g == NumbersOf(text, T)
           W == {f[n] : n \in 1..c} \cup {v}
<1>1. /\ c \in Nat /\ DOMAIN a = 1..c /\ DOMAIN b = 1..(c + 1)
      /\ \A n \in 1..c : b[n] = a[n]
      /\ b[c + 1] = x
  <2>1. c \in Nat /\ DOMAIN a = 1..c
    BY InOrderGrows
  <2>2. DOMAIN b = 1..(c + 1) /\ b[c + 1] = x
    BY InOrderGrows
  <2>3. \A n \in 1..c : b[n] = a[n]
    BY InOrderGrows
  <2> QED
    BY <2>1, <2>2, <2>3
<1>2. /\ f = [n \in DOMAIN a |-> SubSeq(text, a[n].lo + 1, a[n].hi - 1)]
      /\ g = [n \in DOMAIN b |-> SubSeq(text, b[n].lo + 1, b[n].hi - 1)]
  BY DEF NumbersOf
<1> HIDE DEF a, b, c, f, g, T
<1>3. DOMAIN f = 1..c /\ DOMAIN g = 1..(c + 1)
  BY <1>1, <1>2
<1>4. ASSUME NEW n \in 1..c
      PROVE  g[n] = f[n]
  <2>1. n \in 1..(c + 1)
    BY <1>1
  <2> QED
    BY <1>1, <1>2, <2>1
<1>5. g[c + 1] = v
  <2>1. c + 1 \in 1..(c + 1)
    BY <1>1
  <2> QED
    BY <1>1, <1>2, <2>1
<1> HIDE DEF v
<1>6. f \in [1..c -> W]
  <2>1. \A n \in 1..c : f[n] \in W
    OBVIOUS
  <2>2. f = [n \in 1..c |-> f[n]]
    BY <1>2, <1>3
  <2> HIDE DEF W
  <2> QED
    BY <2>1, <2>2
<1>7. g \in [1..(c + 1) -> W]
  <2>1. \A n \in 1..(c + 1) : g[n] \in W
    <3> TAKE n \in 1..(c + 1)
    <3>1. CASE n = c + 1
      BY <1>5, <3>1
    <3>2. CASE n # c + 1
      <4>1. n \in 1..c
        BY <1>1, <3>2
      <4> QED
        BY <1>4, <4>1
    <3> QED
      BY <3>1, <3>2
  <2>2. g = [n \in 1..(c + 1) |-> g[n]]
    BY <1>2, <1>3
  <2> HIDE DEF W
  <2> QED
    BY <2>1, <2>2
<1>8. v \in W
  OBVIOUS
<1> HIDE DEF W
<1>9. f \in Seq(W) /\ Len(f) = c /\ g \in Seq(W) /\ Len(g) = c + 1
  BY <1>1, <1>6, <1>7
<1>10. /\ Append(f, v) \in Seq(W) /\ Len(Append(f, v)) = c + 1
       /\ \A n \in 1..c : Append(f, v)[n] = f[n]
       /\ Append(f, v)[c + 1] = v
  BY <1>8, <1>9, AppendProperties
<1>11. \A n \in 1..Len(g) : g[n] = Append(f, v)[n]
  <2> TAKE n \in 1..Len(g)
  <2>1. CASE n = c + 1
    BY <1>5, <1>10, <2>1
  <2>2. CASE n # c + 1
    <3>1. n \in 1..c
      BY <1>1, <1>9, <2>2
    <3> QED
      BY <1>4, <1>10, <3>1
  <2> QED
    BY <2>1, <2>2
<1>12. g = Append(f, v)
  BY <1>9, <1>10, <1>11, SeqEqual
<1> QED
  BY <1>12 DEF g, f, v, T

LEMMA NumberedIs ==
  ASSUME NEW text \in Seq(Chars), NEW k \in Nat
  PROVE  /\ \A t : t \in NumberedBelow(text, k) <=>
              \E p \in Visible(text) :
                p < k /\ NumberAt(text, p) /\ t = Token("numbered", p, SpanEnd(text, p + 1, Digits))
         /\ \A t \in NumberedBelow(text, k) : t.lo \in Nat /\ t.lo < k
         /\ IsFiniteSet(NumberedBelow(text, k))
<1> DEFINE S == NumberedBelow(text, k)
           tok(p) == Token("numbered", p, SpanEnd(text, p + 1, Digits))
<1>1. Len(text) \in Nat /\ Visible(text) \subseteq 1..Len(text)
  BY LenProperties, HiddenIs
<1>2. ASSUME NEW t
      PROVE  t \in S <=> \E p \in Visible(text) : p < k /\ NumberAt(text, p) /\ t = tok(p)
  <2>1. t \in ParamsOf(text) <=> \E p \in Visible(text) : t \in ParamsAt(text, p)
    BY ParamsByPlace
  <2>2. \A p : t \in ParamsAt(text, p) => t.lo = p
    BY ParamsByPlace
  <2>3. \A p : t \in ParamsAt(text, p) /\ t.kind = "numbered" <=> NumberAt(text, p) /\ t = tok(p)
    BY DEF ParamsAt, NumberAt, Token
  <2>4. t \in S <=> t \in ParamsOf(text) /\ t.lo < k /\ t.kind = "numbered"
    BY DEF NumberedBelow, ParamsBelow
  <2> HIDE DEF S, tok
  <2> QED
    BY <2>1, <2>2, <2>3, <2>4
<1>3. \A p : tok(p).lo = p
  BY DEF Token
<1> HIDE DEF S, tok
<1>4. \A t \in S : t.lo \in 1..Len(text) /\ t.lo \in Nat /\ t.lo < k /\ t = tok(t.lo)
  BY <1>1, <1>2, <1>3
<1>5. IsFiniteSet(S)
  <2> DEFINE f == [t \in S |-> t.lo]
  <2>1. f \in Injection(S, 1..Len(text))
    BY <1>4 DEF Injection, IsInjective
  <2>2. IsFiniteSet(1..Len(text))
    BY <1>1, FS_Interval
  <2> HIDE DEF f
  <2> QED
    BY <2>1, <2>2, FS_Injection
<1> QED
  BY <1>2, <1>4, <1>5 DEF S, tok

LEMMA NumbersFirst ==
  ASSUME NEW text \in Seq(Chars)
  PROVE  /\ NumbersTo(text, 1) = << >>
         /\ NumbersTo(text, EndOf(text)) = NumbersIn(text)
<1>1. Len(text) \in Nat /\ EndOf(text) = Len(text) + 1 /\ Visible(text) \subseteq 1..Len(text)
  BY LenProperties, HiddenIs DEF EndOf
<1>2. NumberedBelow(text, 1) = {}
  <2>1. \A t \in NumberedBelow(text, 1) : \E p \in Visible(text) : p < 1
    BY NumberedIs
  <2> QED
    BY <1>1, <2>1
<1>3. NumbersOf(text, {}) = << >>
  <2>1. DOMAIN InOrder({}) = {}
    BY FS_EmptySet DEF InOrder
  <2> QED
    BY <2>1 DEF NumbersOf
<1>4. NumberedBelow(text, EndOf(text)) = {t \in ParamsOf(text) : t.kind = "numbered"}
  <2>1. \A t \in ParamsOf(text) : t.lo < EndOf(text)
    BY <1>1, ParamsByPlace
  <2> QED
    BY <2>1 DEF NumberedBelow, ParamsBelow
<1> QED
  BY <1>2, <1>3, <1>4 DEF NumbersTo, NumbersOf, NumbersIn

LEMMA NumbersSame ==
  ASSUME NEW text \in Seq(Chars), NEW k \in Nat, NEW hi \in Nat, k <= hi,
         \A m \in k..(hi - 1) : ~(m \in Visible(text) /\ NumberAt(text, m))
  PROVE  NumbersTo(text, hi) = NumbersTo(text, k)
<1>1. Visible(text) \subseteq Nat
  BY LenProperties, HiddenIs
<1>2. \A p \in Visible(text) : NumberAt(text, p) => (p < hi <=> p < k)
  <2> SUFFICES ASSUME NEW p \in Visible(text), NumberAt(text, p), p < hi, ~(p < k)
               PROVE  FALSE
    BY <1>1
  <2>1. p \in k..(hi - 1)
    BY <1>1
  <2> QED
    BY <2>1
<1>3. \A t : t \in NumberedBelow(text, hi) <=> t \in NumberedBelow(text, k)
  <2> TAKE t
  <2> DEFINE is(p) == t = Token("numbered", p, SpanEnd(text, p + 1, Digits))
  <2>1. t \in NumberedBelow(text, hi) <=> \E p \in Visible(text) : p < hi /\ NumberAt(text, p) /\ is(p)
    BY NumberedIs
  <2>2. t \in NumberedBelow(text, k) <=> \E p \in Visible(text) : p < k /\ NumberAt(text, p) /\ is(p)
    BY NumberedIs
  <2> HIDE DEF is
  <2> QED
    BY <1>2, <2>1, <2>2
<1>4. NumberedBelow(text, hi) = NumberedBelow(text, k)
  BY <1>3
<1> QED
  BY <1>4 DEF NumbersTo

LEMMA NumbersNext ==
  ASSUME NEW text \in Seq(Chars), NEW k \in Nat, NEW hi \in Nat, k < hi,
         k \in Visible(text), NumberAt(text, k),
         \A m \in (k + 1)..(hi - 1) : ~(m \in Visible(text) /\ NumberAt(text, m))
  PROVE  NumbersTo(text, hi)
           = Append(NumbersTo(text, k), SubSeq(text, k + 1, SpanEnd(text, k + 1, Digits) - 1))
<1> DEFINE x == Token("numbered", k, SpanEnd(text, k + 1, Digits))
           S == NumberedBelow(text, k)
<1>1. x.lo = k /\ x.hi = SpanEnd(text, k + 1, Digits)
  BY DEF Token
<1>2. Visible(text) \subseteq Nat
  BY LenProperties, HiddenIs
<1>3. NumbersTo(text, hi) = NumbersTo(text, k + 1)
  <2>1. k + 1 \in Nat /\ k + 1 <= hi
    OBVIOUS
  <2> QED
    BY <2>1, NumbersSame
<1>4. NumberedBelow(text, k + 1) = S \cup {x}
  <2> SUFFICES ASSUME NEW t
               PROVE  t \in NumberedBelow(text, k + 1) <=> t \in NumberedBelow(text, k) \/ t = x
    OBVIOUS
  <2> DEFINE is(p) == t = Token("numbered", p, SpanEnd(text, p + 1, Digits))
  <2>1. t \in NumberedBelow(text, k + 1)
          <=> \E p \in Visible(text) : p < k + 1 /\ NumberAt(text, p) /\ is(p)
    <3>1. k + 1 \in Nat
      OBVIOUS
    <3> QED
      BY <3>1, NumberedIs
  <2>2. t \in NumberedBelow(text, k) <=> \E p \in Visible(text) : p < k /\ NumberAt(text, p) /\ is(p)
    BY NumberedIs
  <2>3. is(k) <=> t = x
    OBVIOUS
  <2> HIDE DEF is, x
  <2>4. \A p \in Visible(text) : p < k + 1 <=> p < k \/ p = k
    BY <1>2
  <2> QED
    BY <2>1, <2>2, <2>3, <2>4
<1> HIDE DEF x
<1>5. IsFiniteSet(S) /\ \A t \in S : t.lo \in Nat /\ t.lo < k
  BY NumberedIs
<1> HIDE DEF S
<1>6. NumbersOf(text, S \cup {x}) = Append(NumbersOf(text, S), SubSeq(text, x.lo + 1, x.hi - 1))
  BY <1>1, <1>5, NumbersGrow
<1> QED
  BY <1>1, <1>3, <1>4, <1>6 DEF NumbersTo, S
=============================================================================
