---------------------------- MODULE StatementProofs --------------------------
(***************************************************************************)
(* compile and render, proved for every text, slices of any length and any *)
(* arguments: the driver gets the text with its parameters replaced and    *)
(* nothing else changed but ??, and one argument for each placeholder      *)
(* (StatementIsRendered), and the engine finds these placeholders in it,   *)
(* and no others (PlaceholdersAreSeen).                                    *)
(*                                                                         *)
(* The argument has three stages.  The tokens of a scanned text are the    *)
(* text, piece by piece, and its slots are those a reader sees (Scanned,   *)
(* SlotsAre, LiteralIs).  The parts compiled from them say what a reader   *)
(* makes of the text with the arguments in place, token after token        *)
(* (Says, PartsSay).  What render has written is what the parts before     *)
(* the next one say (RenderInv), and at the end all of them.               *)
(*                                                                         *)
(* For the engine's reading, each token has an image in the rendered text, *)
(* and they lie one behind the other (Laid).  A token ends outside every   *)
(* region of the text (SeamInv), so that its image is read as it was read  *)
(* there, wherever it stands (HiddenMoves of LexerProofs).  Image after    *)
(* image, the placeholders found are as many as the values so far, and no  *)
(* region is left open (ReadTo).                                           *)
(***************************************************************************)
EXTENDS LexerProofs

-----------------------------------------------------------------------------
(* Sequences put one after another. *)
Gathers(g, f, n) ==
  /\ FlattenSeq(f) = g[n]
  /\ g[1] = f[1]
  /\ \A k \in 2..n : g[k] = g[k - 1] \o f[k]

LEMMA FlattenDefined ==
  ASSUME NEW W, NEW n \in Nat, n > 0, NEW f \in [1..n -> Seq(W)]
  PROVE  \E g \in [1..n -> Seq(W)] : Gathers(g, f, n)
<1> DEFINE V == Seq(W)
           F(g) == [i_1 \in 1..Len(f) |-> IF i_1 = 1 THEN f[i_1] ELSE g[i_1 - 1] \o f[i_1]]
           g == CHOOSE g : g = F(g)
           step == [k \in (1 + 1)..n |-> [before \in V |-> before \o f[k]]]
<1>1. f \in Seq(V) /\ Len(f) = n /\ ~(Len(f) = 0)
  BY LenProperties
<1>2. FlattenSeq(f) = g[n]
  BY <1>1 DEF FlattenSeq
<1>3. step \in [(1 + 1)..n -> [V -> V]]
  <2>1. \A k \in (1 + 1)..n : f[k] \in Seq(W)
    OBVIOUS
  <2>2. \A k \in (1 + 1)..n : \A before \in Seq(W) : before \o f[k] \in Seq(W)
    BY <2>1, ConcatProperties
  <2> QED
    BY <2>2
<1>4. 1 \in Nat /\ 1 <= n /\ f[1] \in V
  OBVIOUS
<1> HIDE DEF V
<1>5. PICK h \in [1..n -> V] : StepsTo(h, 1, n, f[1], step)
  <2> HIDE DEF step
  <2> QED
    BY <1>3, <1>4, StepsDefine
<1>6. h = F(h)
  <2>1. ASSUME NEW k \in 1..n
        PROVE  h[k] = IF k = 1 THEN f[k] ELSE h[k - 1] \o f[k]
    <3>1. h[k] = IF k = 1 THEN f[1] ELSE step[k][h[k - 1]]
      BY <1>5 DEF StepsTo
    <3>2. CASE k = 1
      BY <3>1, <3>2
    <3>3. CASE k # 1
      <4>1. k \in (1 + 1)..n /\ k - 1 \in 1..n
        BY <3>3
      <4>2. h[k - 1] \in V
        BY <1>5, <4>1
      <4> QED
        BY <3>1, <3>3, <4>1, <4>2
    <3> QED
      BY <3>2, <3>3
  <2> QED
    BY <1>1, <1>5, <2>1
<1> HIDE DEF F
<1>7. g = F(g)
  BY <1>6
<1> HIDE DEF g
<1>8. \A k \in 1..n : g[k] = IF k = 1 THEN f[k] ELSE g[k - 1] \o f[k]
  BY <1>1, <1>7 DEF F
<1>9. g[1] = f[1] /\ \A k \in 2..n : g[k] = g[k - 1] \o f[k]
  <2>1. 1 \in 1..n /\ \A k \in 2..n : k \in 1..n /\ k # 1
    OBVIOUS
  <2> QED
    BY <1>8, <2>1
<1>10. h = [k \in 1..n |-> h[k]] /\ DOMAIN g = 1..n /\ g = [k \in 1..n |-> g[k]]
  BY <1>1, <1>5, <1>7 DEF F
<1>11. \A k \in Nat : k \in 1..n => g[k] \in V
  <2> DEFINE S == {k \in Nat : k \in 1..n => g[k] \in V}
  <2>1. 0 \in S
    OBVIOUS
  <2>2. ASSUME NEW k \in Nat, k \in S
        PROVE  k + 1 \in S
    <3>1. CASE k + 1 \in 2..n
      <4>1. k \in 1..n /\ (k + 1) - 1 = k /\ k + 1 \in 1..n
        BY <3>1
      <4>2. g[k] \in V /\ g[k + 1] = g[k] \o f[k + 1] /\ f[k + 1] \in V
        BY <1>9, <2>2, <3>1, <4>1 DEF V
      <4>3. g[k] \o f[k + 1] \in V
        BY <4>2, ConcatProperties DEF V
      <4>4. g[k + 1] \in V /\ k + 1 \in Nat
        BY <4>2, <4>3
      <4> QED
        BY <4>4
    <3>2. CASE k + 1 \notin 2..n
      <4>1. k + 1 \in 1..n => k + 1 = 1
        BY <3>2
      <4> QED
        BY <1>4, <1>9, <4>1
    <3> QED
      BY <3>1, <3>2
  <2> HIDE DEF S
  <2>3. Nat \subseteq S
    BY <2>1, <2>2, SetInduction
  <2> QED
    BY <2>3 DEF S
<1>12. g \in [1..n -> Seq(W)]
  <2>1. \A k \in 1..n : k \in Nat
    OBVIOUS
  <2>2. \A k \in 1..n : g[k] \in V
    BY <1>11, <2>1
  <2> QED
    BY <1>10, <2>2 DEF V
<1> QED
  BY <1>2, <1>9, <1>12 DEF Gathers

LEMMA FlattenStep ==
  ASSUME NEW W, NEW n \in Nat, NEW f \in [1..n -> Seq(W)]
  PROVE  /\ FlattenSeq(f) \in Seq(W)
         /\ n = 0 => FlattenSeq(f) = << >>
         /\ n > 0 => FlattenSeq(f) = FlattenSeq([k \in 1..(n - 1) |-> f[k]]) \o f[n]
<1>1. CASE n = 0
  <2>1. f \in Seq(Seq(W)) /\ Len(f) = 0
    BY <1>1, LenProperties
  <2>2. f = << >>
    BY <2>1, EmptySeq
  <2>3. FlattenSeq(f) = f
    BY <2>1 DEF FlattenSeq
  <2>4. << >> \in Seq(W) /\ ~(n > 0)
    BY <1>1, EmptySeq
  <2> QED
    BY <2>2, <2>3, <2>4
<1>2. CASE n = 1
  <2>0. n > 0
    BY <1>2
  <2>1. PICK g \in [1..n -> Seq(W)] : Gathers(g, f, n)
    BY <2>0, FlattenDefined
  <2>2. FlattenSeq(f) = f[1] /\ f[1] \in Seq(W)
    BY <1>2, <2>1 DEF Gathers
  <2> DEFINE e == [k \in 1..(n - 1) |-> f[k]]
  <2>3. e \in Seq(Seq(W)) /\ Len(e) = 0
    BY <1>2, LenProperties
  <2>4. e = << >> /\ FlattenSeq(e) = e
    BY <2>3, EmptySeq DEF FlattenSeq
  <2> HIDE DEF e
  <2>5. << >> \o f[1] = f[1]
    BY <2>2, ConcatEmptySeq
  <2>6. FlattenSeq(f) = FlattenSeq(e) \o f[n]
    BY <1>2, <2>2, <2>4, <2>5
  <2> QED
    BY <1>2, <2>2, <2>6 DEF e
<1>3. CASE n > 1
  <2> DEFINE e == [k \in 1..(n - 1) |-> f[k]]
  <2>1. n - 1 \in Nat /\ n - 1 > 0 /\ n > 0 /\ e \in [1..(n - 1) -> Seq(W)]
    BY <1>3
  <2>3. \A k \in 1..(n - 1) : e[k] = f[k]
    OBVIOUS
  <2> HIDE DEF e
  <2>2. PICK g \in [1..n -> Seq(W)] : Gathers(g, f, n)
    BY <2>1, FlattenDefined
  <2>4. PICK h \in [1..(n - 1) -> Seq(W)] : Gathers(h, e, n - 1)
    BY <2>1, FlattenDefined
  <2> DEFINE S == {k \in Nat : k \in 1..(n - 1) => g[k] = h[k]}
  <2>5. 0 \in S
    OBVIOUS
  <2>6. ASSUME NEW k \in Nat, k \in S
        PROVE  k + 1 \in S
    <3>1. CASE k + 1 \in 2..(n - 1)
      <4>1. /\ k \in 1..(n - 1) /\ (k + 1) - 1 = k /\ k + 1 \in 2..n
            /\ k + 1 \in 1..(n - 1)
        BY <3>1
      <4>2. g[k + 1] = g[k] \o f[k + 1] /\ h[k + 1] = h[k] \o e[k + 1] /\ g[k] = h[k]
        BY <2>2, <2>4, <2>6, <3>1, <4>1 DEF Gathers
      <4>3. e[k + 1] = f[k + 1]
        BY <2>3, <4>1
      <4>4. g[k + 1] = h[k + 1] /\ k + 1 \in Nat
        BY <4>2, <4>3
      <4> QED
        BY <4>4
    <3>2. CASE k + 1 \notin 2..(n - 1)
      <4>1. k + 1 \in 1..(n - 1) => k + 1 = 1
        BY <3>2
      <4>2. 1 \in 1..(n - 1)
        BY <1>3
      <4>3. g[1] = f[1] /\ h[1] = e[1] /\ e[1] = f[1]
        BY <2>2, <2>3, <2>4, <4>2 DEF Gathers
      <4> QED
        BY <4>1, <4>3
    <3> QED
      BY <3>1, <3>2
  <2> HIDE DEF S
  <2>7. Nat \subseteq S
    BY <2>5, <2>6, SetInduction
  <2>8. n - 1 \in 1..(n - 1) /\ n \in 2..n /\ n \in 1..n
    BY <1>3
  <2>9. g[n - 1] = h[n - 1]
    BY <2>1, <2>7, <2>8 DEF S
  <2>10. FlattenSeq(f) = FlattenSeq(e) \o f[n] /\ FlattenSeq(f) \in Seq(W)
    BY <2>2, <2>4, <2>8, <2>9 DEF Gathers
  <2> QED
    BY <1>3, <2>10 DEF e
<1> QED
  BY <1>1, <1>2, <1>3

-----------------------------------------------------------------------------
LEMMA FlattenNext ==
  ASSUME NEW W, NEW n \in Nat, NEW f \in [1..n -> Seq(W)], NEW g \in [1..(n + 1) -> Seq(W)],
         \A k \in 1..n : g[k] = f[k]
  PROVE  FlattenSeq(g) = FlattenSeq(f) \o g[n + 1]
<1> DEFINE e == [k \in 1..((n + 1) - 1) |-> g[k]]
<1>1. n + 1 \in Nat /\ n + 1 > 0 /\ (n + 1) - 1 = n
  OBVIOUS
<1>2. e = f
  BY <1>1
<1>3. FlattenSeq(g) = FlattenSeq(e) \o g[n + 1]
  BY <1>1, FlattenStep
<1> QED
  BY <1>2, <1>3

LEMMA DecimalText ==
  ASSUME NEW n \in Nat
  PROVE  Decimal(n) \in Seq(Digits) /\ Decimal(n) # << >> /\ Decimal(n) \in Seq(Chars)
<1> DEFINE V == Seq(Digits) \ {<< >>}
           G(f, b) == [m \in 0..b |-> IF m < 10 THEN <<Numerals[m + 1]>>
                                      ELSE Append(f[m \div 10], Numerals[(m % 10) + 1])]
           digits == CHOOSE f : f = G(f, n)
           S == {b \in Nat : \E f \in [0..b -> V] : f = G(f, b)}
<1>0. \A f \in V, x \in Digits : Append(f, x) \in V
  <2> TAKE f \in V, x \in Digits
  <2>1. f \in Seq(Digits) /\ Len(f) \in Nat
    BY LenProperties
  <2>2. Append(f, x) \in Seq(Digits) /\ Len(Append(f, x)) = Len(f) + 1
    BY <2>1, AppendProperties
  <2>3. Len(Append(f, x)) # 0
    BY <2>1, <2>2
  <2> QED
    BY <2>2, <2>3, EmptySeq
<1>1. Decimal(n) = digits[n]
  BY DEF Decimal
<1>2. \A m \in Nat : Numerals[(m % 10) + 1] \in Digits
  <2> TAKE m \in Nat
  <2>1. (m % 10) + 1 \in 1..10
    OBVIOUS
  <2>2. DOMAIN Numerals = 1..10
    BY DEF Numerals
  <2> QED
    BY <2>1, <2>2 DEF Digits
<1>3. \A m \in 0..9 : <<Numerals[m + 1]>> \in V
  <2> TAKE m \in 0..9
  <2>1. m + 1 = (m % 10) + 1 /\ m \in Nat
    OBVIOUS
  <2>2. Numerals[m + 1] \in Digits
    BY <1>2, <2>1
  <2> QED
    BY <2>2
<1>4. 0 \in S
  <2> DEFINE f == [m \in 0..0 |-> <<Numerals[m + 1]>>]
  <2>1. 0 \in 0..9 /\ \A m \in 0..0 : m \in 0..9 /\ m < 10
    OBVIOUS
  <2>2. f \in [0..0 -> V]
    BY <1>3, <2>1
  <2>3. f = G(f, 0)
    BY <2>1
  <2> QED
    BY <2>2, <2>3
<1>5. ASSUME NEW b \in Nat, b \in S
      PROVE  b + 1 \in S
  <2> DEFINE z == b + 1
  <2>1. PICK f \in [0..b -> V] : f = G(f, b)
    BY <1>5
  <2>2. \A m \in 0..b : f[m] = IF m < 10 THEN <<Numerals[m + 1]>>
                               ELSE Append(f[m \div 10], Numerals[(m % 10) + 1])
    BY <2>1
  <2> DEFINE g == [m \in 0..z |-> IF m = z
                                  THEN IF m < 10 THEN <<Numerals[m + 1]>>
                                       ELSE Append(f[m \div 10], Numerals[(m % 10) + 1])
                                  ELSE f[m]]
  <2>3. /\ z \in Nat
        /\ \A m \in 0..z : m # z => m \in 0..b
        /\ \A m \in 0..z : m < 10 => m \in 0..9
        /\ \A m \in 0..z : ~(m < 10) => m \div 10 \in 0..b /\ m \div 10 # z /\ m \div 10 \in 0..z
    OBVIOUS
  <2> HIDE DEF z
  <2>4. ASSUME NEW m \in 0..z
        PROVE  g[m] \in V
    <3>1. CASE m # z
      BY <2>1, <2>3, <3>1
    <3>2. CASE m = z /\ m < 10
      BY <1>3, <2>3, <3>2
    <3>3. CASE m = z /\ ~(m < 10)
      <4>1. f[m \div 10] \in V
        BY <2>1, <2>3, <3>3
      <4>2. Numerals[(m % 10) + 1] \in Digits
        BY <1>2
      <4>3. Append(f[m \div 10], Numerals[(m % 10) + 1]) \in V
        BY <1>0, <4>1, <4>2
      <4> QED
        BY <3>3, <4>3
    <3> QED
      BY <3>1, <3>2, <3>3
  <2>5. g \in [0..z -> V]
    BY <2>4
  <2>6. ASSUME NEW m \in 0..z
        PROVE  g[m] = IF m < 10 THEN <<Numerals[m + 1]>>
                      ELSE Append(g[m \div 10], Numerals[(m % 10) + 1])
    <3>1. ~(m < 10) => g[m \div 10] = f[m \div 10]
      BY <2>3
    <3>2. CASE m = z
      BY <3>1, <3>2
    <3>3. CASE m # z
      <4>1. m \in 0..b /\ g[m] = f[m]
        BY <2>3, <3>3
      <4> QED
        BY <2>2, <3>1, <4>1
    <3> QED
      BY <3>2, <3>3
  <2>7. g = G(g, z)
    BY <2>6
  <2> HIDE DEF g, G
  <2>8. z \in S
    BY <2>3, <2>5, <2>7
  <2> QED
    BY <2>8 DEF z
<1>6. n \in S
  <2> HIDE DEF S
  <2> QED
    BY <1>4, <1>5, SetInduction
<1>7. PICK f \in [0..n -> V] : f = G(f, n)
  <2> HIDE DEF G
  <2> QED
    BY <1>6
<1> HIDE DEF S
<1>8. digits = G(digits, n)
  <2> HIDE DEF G
  <2> QED
    BY <1>7
<1> HIDE DEF digits
<1>9. \A m \in 0..n : digits[m] = IF m < 10 THEN <<Numerals[m + 1]>>
                                  ELSE Append(digits[m \div 10], Numerals[(m % 10) + 1])
  BY <1>8
<1> DEFINE T == {b \in Nat : \A m \in 0..n : m <= b => digits[m] \in V}
<1>10. 0 \in T
  <2>1. \A m \in 0..n : m <= 0 => m \in 0..9 /\ m < 10
    OBVIOUS
  <2> QED
    BY <1>3, <1>9, <2>1
<1>11. ASSUME NEW b \in Nat, b \in T
       PROVE  b + 1 \in T
  <2>1. ASSUME NEW m \in 0..n, m <= b + 1
        PROVE  digits[m] \in V
    <3>1. CASE m < 10
      <4>1. m \in 0..9
        BY <3>1
      <4> QED
        BY <1>3, <1>9, <3>1, <4>1
    <3>2. CASE ~(m < 10)
      <4>1. m \div 10 \in 0..n /\ m \div 10 <= b /\ m \in Nat
        BY <2>1, <3>2
      <4>2. digits[m \div 10] \in V
        BY <1>11, <4>1
      <4>3. Numerals[(m % 10) + 1] \in Digits
        BY <1>2, <4>1
      <4>4. Append(digits[m \div 10], Numerals[(m % 10) + 1]) \in V
        BY <1>0, <4>2, <4>3
      <4> QED
        BY <1>9, <3>2, <4>4
    <3> QED
      BY <3>1, <3>2
  <2>2. b + 1 \in Nat
    OBVIOUS
  <2> QED
    BY <2>1, <2>2
<1>12. n \in T
  <2> HIDE DEF T
  <2> QED
    BY <1>10, <1>11, SetInduction
<1>13. n \in 0..n /\ n <= n
  OBVIOUS
<1>14. digits[n] \in V
  BY <1>12, <1>13
<1>15. digits[n] \in Seq(Chars)
  <2>1. Digits \subseteq Chars
    BY DEF Chars
  <2> QED
    BY <1>14, <2>1, SeqMonotonic
<1> QED
  BY <1>1, <1>14, <1>15

LEMMA Joins ==
  ASSUME NEW W
  PROVE  /\ \A a, b \in Seq(W) : a \o b \in Seq(W) /\ Len(a \o b) = Len(a) + Len(b)
         /\ \A a, b, c \in Seq(W) : (a \o b) \o c = a \o (b \o c)
         /\ \A a \in Seq(W) : << >> \o a = a /\ a \o << >> = a
         /\ \A x \in W, a \in Seq(W) : Tail(<<x>> \o a) = a
         /\ << >> \in Seq(W)
         /\ \A x \in W : <<x>> \in Seq(W)
<1>1. \A a, b \in Seq(W) : a \o b \in Seq(W) /\ Len(a \o b) = Len(a) + Len(b)
  BY ConcatProperties
<1>2. \A a, b, c \in Seq(W) : (a \o b) \o c = a \o (b \o c)
  BY ConcatAssociative
<1>3. \A a \in Seq(W) : << >> \o a = a /\ a \o << >> = a
  BY ConcatEmptySeq
<1>4. \A x \in W : <<x>> \in Seq(W) /\ Len(<<x>>) = 1
  OBVIOUS
<1>5. ASSUME NEW x \in W, NEW a \in Seq(W)
      PROVE  Tail(<<x>> \o a) = a
  <2> DEFINE s == <<x>> \o a
  <2>1. <<x>> \in Seq(W) /\ Len(<<x>>) = 1 /\ Len(a) \in Nat
    BY <1>4, LenProperties
  <2>2. s \in Seq(W) /\ Len(s) = 1 + Len(a)
    BY <1>1, <2>1
  <2>3. \A k \in 1..(1 + Len(a)) : s[k] = IF k <= 1 THEN <<x>>[k] ELSE a[k - 1]
    BY <2>1, ConcatProperties
  <2> HIDE DEF s
  <2>4. s # << >>
    BY <2>1, <2>2, EmptySeq
  <2>5. /\ Tail(s) \in Seq(W) /\ Len(Tail(s)) = Len(s) - 1
        /\ \A k \in 1..Len(Tail(s)) : Tail(s)[k] = s[k + 1]
    BY <2>2, <2>4, HeadTailProperties
  <2>6. Len(Tail(s)) = Len(a)
    BY <2>1, <2>2, <2>5
  <2>7. ASSUME NEW k \in 1..Len(Tail(s))
        PROVE  Tail(s)[k] = a[k]
    <3>1. k + 1 \in 1..(1 + Len(a)) /\ ~(k + 1 <= 1) /\ (k + 1) - 1 = k
      BY <2>1, <2>6
    <3>2. s[k + 1] = a[(k + 1) - 1]
      BY <2>3, <3>1
    <3> QED
      BY <2>5, <3>1, <3>2
  <2>8. Tail(s) = a
    BY <2>5, <2>6, <2>7, SeqEqual
  <2> QED
    BY <2>8 DEF s
<1>6. << >> \in Seq(W)
  BY EmptySeq
<1> QED
  BY <1>1, <1>2, <1>3, <1>4, <1>5, <1>6

LEMMA Associates ==
  \A a, b, c \in Seq(Chars) : (a \o b) \o c = a \o (b \o c)
BY ConcatAssociative

(* The placeholders of a slice are what a reader expects of its elements. *)
LEMMA SliceIs ==
  ASSUME NEW before \in Nat, NEW size \in Nat
  PROVE  /\ SliceText(size, before) \in Seq(Chars)
         /\ size > 0 =>
              Tail(FlattenSeq([e \in 1..size |-> <<",">> \o Placeholder(before + e)]))
                = SliceText(size, before)
         /\ SliceText(1, before) = Placeholder(before + 1)
<1> DEFINE V == Seq(Chars)
           comma == <<",">>
           with(k) == [e \in 1..k |-> <<",">> \o Placeholder(before + e)]
           item(e) == (IF e > 1 THEN <<",">> ELSE << >>) \o Placeholder(before + e)
           bare(k) == [e \in 1..k |-> item(e)]
           S == {k \in Nat : k > 0 => FlattenSeq(with(k)) = comma \o FlattenSeq(bare(k))}
<1>1. /\ \A a, b \in V : a \o b \in V
      /\ \A a, b, c \in V : (a \o b) \o c = a \o (b \o c)
      /\ \A a \in V : << >> \o a = a
      /\ << >> \in V
  BY Joins
<1>2. comma \in V /\ <<"$">> \in V /\ \A a \in V : Tail(comma \o a) = a
  <2>1. "," \in Chars /\ "$" \in Chars
    BY DEF Chars
  <2> QED
    BY <2>1, Joins
<1>3. \A e \in Nat : Placeholder(before + e) \in V
  <2>1. \A e \in Nat : before + e \in Nat
    OBVIOUS
  <2>2. \A e \in Nat : Decimal(before + e) \in V
    BY <2>1, DecimalText
  <2> QED
    BY <1>1, <1>2, <2>2 DEF Placeholder
<1>5. \A a, b, c \in V : (a \o b) \o c = a \o (b \o c)
  BY Joins
<1> HIDE DEF V
<1>4. \A e \in Nat : item(e) \in V
  BY <1>1, <1>2, <1>3
<1>6. \A e \in Nat : <<",">> \o Placeholder(before + e) \in V
  BY <1>1, <1>2, <1>3
<1>7. \A k \in Nat : with(k) \in [1..k -> V] /\ bare(k) \in [1..k -> V]
  <2> TAKE k \in Nat
  <2>1. \A e \in 1..k : e \in Nat
    OBVIOUS
  <2> HIDE DEF item
  <2> QED
    BY <1>4, <1>6, <2>1
<1>8. /\ \A e \in Nat : e > 1 => item(e) = comma \o Placeholder(before + e)
      /\ item(1) = Placeholder(before + 1)
  <2>1. ~(1 > 1) /\ Placeholder(before + 1) \in V
    BY <1>3
  <2>2. << >> \o Placeholder(before + 1) = Placeholder(before + 1)
    BY <1>1, <2>1
  <2> QED
    BY <2>1, <2>2
<1> HIDE DEF item
<1>9. ASSUME NEW k \in Nat
      PROVE  /\ FlattenSeq(with(k + 1)) = FlattenSeq(with(k)) \o (comma \o Placeholder(before + (k + 1)))
             /\ FlattenSeq(bare(k + 1)) = FlattenSeq(bare(k)) \o item(k + 1)
  <2>1. k + 1 \in Nat /\ k + 1 \in 1..(k + 1) /\ \A e \in 1..k : e \in 1..(k + 1)
    OBVIOUS
  <2>2. /\ with(k) \in [1..k -> V] /\ bare(k) \in [1..k -> V]
        /\ with(k + 1) \in [1..(k + 1) -> V] /\ bare(k + 1) \in [1..(k + 1) -> V]
    BY <1>7, <2>1
  <2>3. /\ \A e \in 1..k : with(k + 1)[e] = with(k)[e]
        /\ \A e \in 1..k : bare(k + 1)[e] = bare(k)[e]
        /\ with(k + 1)[k + 1] = comma \o Placeholder(before + (k + 1))
        /\ bare(k + 1)[k + 1] = item(k + 1)
    BY <2>1
  <2> HIDE DEF with, bare
  <2>4. FlattenSeq(with(k + 1)) = FlattenSeq(with(k)) \o with(k + 1)[k + 1]
    BY <2>2, <2>3, FlattenNext DEF V
  <2>5. FlattenSeq(bare(k + 1)) = FlattenSeq(bare(k)) \o bare(k + 1)[k + 1]
    BY <2>2, <2>3, FlattenNext DEF V
  <2> QED
    BY <2>3, <2>4, <2>5
<1> HIDE DEF with, bare
<1>10. \A k \in Nat : FlattenSeq(with(k)) \in V /\ FlattenSeq(bare(k)) \in V
  BY <1>7, FlattenStep DEF V
<1>11. FlattenSeq(with(0)) = << >> /\ FlattenSeq(bare(0)) = << >>
  <2>1. 0 \in Nat /\ with(0) \in [1..0 -> V] /\ bare(0) \in [1..0 -> V]
    BY <1>7
  <2> QED
    BY <2>1, FlattenStep DEF V
<1> HIDE DEF comma
<1>20. FlattenSeq(bare(1)) = Placeholder(before + 1)
  <2>1. 0 \in Nat /\ 0 + 1 = 1 /\ 1 \in Nat
    OBVIOUS
  <2>2. FlattenSeq(bare(1)) = << >> \o Placeholder(before + 1)
    BY <1>8, <1>9, <1>11, <2>1
  <2> QED
    BY <1>1, <1>3, <2>1, <2>2
<1>19. comma \in V
  BY <1>2
<1>12. ASSUME NEW k \in Nat, k \in S
       PROVE  k + 1 \in S
  <2>1. k + 1 \in Nat /\ Placeholder(before + (k + 1)) \in V
    BY <1>3
  <2>2. CASE k = 0
    <3>0. 0 \in Nat /\ 1 \in Nat /\ 0 + 1 = 1
      OBVIOUS
    <3>1. FlattenSeq(with(1)) = << >> \o (comma \o Placeholder(before + 1))
      BY <1>9, <1>11, <3>0
    <3>3. comma \o Placeholder(before + 1) \in V
      BY <1>1, <1>2, <1>3, <3>0
    <3>4. FlattenSeq(with(1)) = comma \o FlattenSeq(bare(1))
      BY <1>1, <1>20, <3>1, <3>3
    <3>5. k + 1 = 1
      BY <2>2
    <3> QED
      BY <3>0, <3>4, <3>5
  <2>3. CASE k > 0
    <3>1. FlattenSeq(with(k)) = comma \o FlattenSeq(bare(k))
      BY <1>12, <2>3
    <3>2. item(k + 1) = comma \o Placeholder(before + (k + 1))
      <4>1. k + 1 > 1
        BY <2>3
      <4> QED
        BY <1>8, <2>1, <4>1
    <3>3. FlattenSeq(with(k + 1)) = (comma \o FlattenSeq(bare(k))) \o item(k + 1)
      BY <1>9, <3>1, <3>2
    <3>4. FlattenSeq(bare(k + 1)) = FlattenSeq(bare(k)) \o item(k + 1)
      BY <1>9
    <3>5. FlattenSeq(bare(k)) \in V /\ item(k + 1) \in V
      BY <1>4, <1>10, <2>1
    <3>6. (comma \o FlattenSeq(bare(k))) \o item(k + 1) = comma \o (FlattenSeq(bare(k)) \o item(k + 1))
      BY <1>5, <1>19, <3>5
    <3>7. FlattenSeq(with(k + 1)) = comma \o FlattenSeq(bare(k + 1))
      BY <3>3, <3>4, <3>6
    <3> QED
      BY <2>1, <3>7
  <2> QED
    BY <2>2, <2>3
<1>13. 0 \in S
  OBVIOUS
<1>14. size \in S
  <2> HIDE DEF S
  <2> QED
    BY <1>12, <1>13, SetInduction
<1>15. /\ SliceText(size, before) = FlattenSeq(bare(size))
       /\ SliceText(1, before) = FlattenSeq(bare(1))
  BY DEF SliceText, bare, item
<1>16. FlattenSeq([e \in 1..size |-> <<",">> \o Placeholder(before + e)]) = FlattenSeq(with(size))
  BY DEF with
<1>17. size > 0 => Tail(FlattenSeq(with(size))) = FlattenSeq(bare(size))
  <2>1. size > 0 => FlattenSeq(with(size)) = comma \o FlattenSeq(bare(size))
    BY <1>14
  <2>2. FlattenSeq(bare(size)) \in V
    BY <1>10
  <2> QED
    BY <1>2, <2>1, <2>2
<1> QED
  BY <1>10, <1>15, <1>16, <1>17, <1>20 DEF V

-----------------------------------------------------------------------------
(* The text between two offsets, one character after another. *)
Doubled(params) == {t.lo + 1 : t \in {t \in params : t.kind = "escapedQ"}}

Keeps(f, params, lo, hi) ==
  /\ TextBetween(params, lo, hi) = f[hi - 1]
  /\ f[lo - 1] = << >>
  /\ \A k \in lo..(hi - 1) :
       f[k] = IF k \in Doubled(params) THEN f[k - 1] ELSE Append(f[k - 1], sql[k])

LEMMA TextBetweenDefined ==
  ASSUME sql \in Seq(Chars), NEW params, NEW lo \in Nat, NEW hi \in Nat,
         0 < lo, lo <= hi, hi <= EndOf(sql)
  PROVE  \E f \in [(lo - 1)..(hi - 1) -> Seq(Chars)] : Keeps(f, params, lo, hi)
<1> DEFINE V == Seq(Chars)
           D == Doubled(params)
           rest(k, before) == IF k \in D THEN before ELSE Append(before, sql[k])
           F(f) == [k \in (lo - 1)..(hi - 1) |-> IF k < lo THEN << >> ELSE rest(k, f[k - 1])]
           G(f) == [k \in (lo - 1)..(hi - 1) |->
                      IF k < lo THEN << >> ELSE IF k \in D THEN f[k - 1] ELSE Append(f[k - 1], sql[k])]
           step == [k \in ((lo - 1) + 1)..(hi - 1) |-> [before \in V |-> rest(k, before)]]
           kept == CHOOSE f : f = G(f)
<1>1. TextBetween(params, lo, hi) = kept[hi - 1]
  BY DEF TextBetween, Doubled
<1>2. /\ lo - 1 \in Nat /\ hi - 1 \in Nat /\ lo - 1 <= hi - 1 /\ (lo - 1) + 1 = lo
      /\ Len(sql) \in Nat
      /\ \A k \in lo..(hi - 1) : k \in 1..Len(sql)
  <2>1. Len(sql) \in Nat
    BY LenProperties
  <2> QED
    BY <2>1 DEF EndOf
<1>3. \A k \in lo..(hi - 1) : sql[k] \in Chars
  BY <1>2, ElementOfSeq DEF Chars
<1> HIDE DEF D
<1>4. \A k \in lo..(hi - 1) : \A before \in V : rest(k, before) \in V
  BY <1>3, AppendProperties
<1>5. << >> \in V
  BY EmptySeq
<1> HIDE DEF V, rest
<1>6. step \in [((lo - 1) + 1)..(hi - 1) -> [V -> V]]
  BY <1>2, <1>4
<1>7. PICK f \in [(lo - 1)..(hi - 1) -> V] : StepsTo(f, lo - 1, hi - 1, << >>, step)
  <2> HIDE DEF step
  <2> QED
    BY <1>2, <1>5, <1>6, StepsDefine
<1>8. ASSUME NEW k \in (lo - 1)..(hi - 1)
      PROVE  f[k] = IF k < lo THEN << >> ELSE rest(k, f[k - 1])
  <2>1. f[k] = IF k = lo - 1 THEN << >> ELSE step[k][f[k - 1]]
    BY <1>7 DEF StepsTo
  <2>2. CASE k = lo - 1
    BY <1>2, <2>1, <2>2
  <2>3. CASE k # lo - 1
    <3>1. k \in ((lo - 1) + 1)..(hi - 1) /\ k - 1 \in (lo - 1)..(hi - 1) /\ ~(k < lo)
      BY <1>2, <2>3
    <3>2. f[k - 1] \in V
      BY <1>7, <3>1
    <3> QED
      BY <2>1, <2>3, <3>1, <3>2
  <2> QED
    BY <2>2, <2>3
<1>9. f = G(f)
  <2>1. f = [k \in (lo - 1)..(hi - 1) |-> f[k]]
    BY <1>7
  <2>2. \A k \in (lo - 1)..(hi - 1) :
          f[k] = IF k < lo THEN << >> ELSE IF k \in D THEN f[k - 1] ELSE Append(f[k - 1], sql[k])
    BY <1>8 DEF rest
  <2> QED
    BY <2>1, <2>2
<1> HIDE DEF G
<1>10. kept = G(kept)
  BY <1>9
<1> HIDE DEF kept
<1>11. /\ kept = [k \in (lo - 1)..(hi - 1) |-> kept[k]]
       /\ \A k \in (lo - 1)..(hi - 1) :
            kept[k] = IF k < lo THEN << >> ELSE IF k \in D THEN kept[k - 1] ELSE Append(kept[k - 1], sql[k])
  <2>1. kept = [k \in (lo - 1)..(hi - 1) |-> 
            IF k < lo THEN << >> ELSE IF k \in D THEN kept[k - 1] ELSE Append(kept[k - 1], sql[k])]
    BY <1>10 DEF G
  <2>2. \A k \in (lo - 1)..(hi - 1) :
            kept[k] = IF k < lo THEN << >> ELSE IF k \in D THEN kept[k - 1] ELSE Append(kept[k - 1], sql[k])
    BY <2>1, Zenon
  <2> QED
    BY <2>1, <2>2, Zenon
<1>12. kept[lo - 1] = << >>
  <2>1. lo - 1 \in (lo - 1)..(hi - 1) /\ lo - 1 < lo
    BY <1>2
  <2> QED
    BY <1>11, <2>1
<1>13. \A k \in lo..(hi - 1) : kept[k] = IF k \in D THEN kept[k - 1] ELSE Append(kept[k - 1], sql[k])
  <2>1. \A k \in lo..(hi - 1) : k \in (lo - 1)..(hi - 1) /\ ~(k < lo)
    BY <1>2
  <2> QED
    BY <1>11, <2>1
<1> DEFINE S == {n \in Nat : (lo - 1) + n <= hi - 1 => kept[(lo - 1) + n] \in V}
<1>14. 0 \in S
  BY <1>2, <1>5, <1>12
<1>15. ASSUME NEW n \in Nat, n \in S
       PROVE  n + 1 \in S
  <2> SUFFICES ASSUME (lo - 1) + (n + 1) <= hi - 1
               PROVE  kept[(lo - 1) + (n + 1)] \in V
    BY DEF S
  <2> DEFINE z == (lo - 1) + (n + 1)
  <2>1. z \in lo..(hi - 1) /\ z - 1 = (lo - 1) + n /\ (lo - 1) + n <= hi - 1
    BY <1>2
  <2>2. kept[z - 1] \in V
    BY <1>15, <2>1
  <2> HIDE DEF z
  <2>3. kept[z] = rest(z, kept[z - 1])
    BY <1>13, <2>1 DEF rest
  <2>4. kept[z] \in V
    BY <1>4, <2>1, <2>2, <2>3
  <2> QED
    BY <2>4 DEF z
<1>16. \A k \in (lo - 1)..(hi - 1) : kept[k] \in V
  <2> HIDE DEF S
  <2>1. Nat \subseteq S
    BY <1>14, <1>15, SetInduction
  <2> TAKE k \in (lo - 1)..(hi - 1)
  <2>2. k - (lo - 1) \in Nat /\ (lo - 1) + (k - (lo - 1)) = k /\ k <= hi - 1
    BY <1>2
  <2>3. k - (lo - 1) \in S
    BY <2>1, <2>2
  <2> QED
    BY <2>2, <2>3 DEF S
<1>17. kept \in [(lo - 1)..(hi - 1) -> Seq(Chars)]
  BY <1>11, <1>16 DEF V
<1> QED
  BY <1>1, <1>12, <1>13, <1>17 DEF Keeps, D

LEMMA TextBetweenNext ==
  ASSUME sql \in Seq(Chars), NEW params, NEW lo \in Nat, NEW hi \in Nat,
         0 < lo, lo <= hi, hi <= EndOf(sql)
  PROVE  /\ TextBetween(params, lo, hi) \in Seq(Chars)
         /\ TextBetween(params, lo, lo) = << >>
         /\ hi < EndOf(sql) =>
              TextBetween(params, lo, hi + 1)
                = IF hi \in Doubled(params) THEN TextBetween(params, lo, hi)
                  ELSE Append(TextBetween(params, lo, hi), sql[hi])
<1>1. PICK f \in [(lo - 1)..(hi - 1) -> Seq(Chars)] : Keeps(f, params, lo, hi)
  BY TextBetweenDefined
<1>2. TextBetween(params, lo, hi) \in Seq(Chars)
  <2>1. hi - 1 \in (lo - 1)..(hi - 1)
    OBVIOUS
  <2> QED
    BY <1>1, <2>1 DEF Keeps
<1>3. TextBetween(params, lo, lo) = << >>
  <2>1. lo <= lo /\ lo <= EndOf(sql)
    BY LenProperties DEF EndOf
  <2>2. PICK g \in [(lo - 1)..(lo - 1) -> Seq(Chars)] : Keeps(g, params, lo, lo)
    BY <2>1, TextBetweenDefined
  <2> QED
    BY <2>2 DEF Keeps
<1>4. ASSUME hi < EndOf(sql)
      PROVE  TextBetween(params, lo, hi + 1)
                = IF hi \in Doubled(params) THEN TextBetween(params, lo, hi)
                  ELSE Append(TextBetween(params, lo, hi), sql[hi])
  <2>1. hi + 1 \in Nat /\ lo <= hi + 1 /\ hi + 1 <= EndOf(sql) /\ (hi + 1) - 1 = hi /\ hi \in lo..hi
    BY <1>4, LenProperties DEF EndOf
  <2>2. PICK g \in [(lo - 1)..((hi + 1) - 1) -> Seq(Chars)] : Keeps(g, params, lo, hi + 1)
    BY <2>1, TextBetweenDefined
  <2>3. /\ TextBetween(params, lo, hi + 1) = g[hi]
        /\ g[lo - 1] = << >>
        /\ \A k \in lo..hi : g[k] = IF k \in Doubled(params) THEN g[k - 1] ELSE Append(g[k - 1], sql[k])
    BY <2>1, <2>2 DEF Keeps
  <2>4. /\ TextBetween(params, lo, hi) = f[hi - 1]
        /\ f[lo - 1] = << >>
        /\ \A k \in lo..(hi - 1) :
             f[k] = IF k \in Doubled(params) THEN f[k - 1] ELSE Append(f[k - 1], sql[k])
    BY <1>1 DEF Keeps
  <2> DEFINE S == {n \in Nat : (lo - 1) + n <= hi - 1 => g[(lo - 1) + n] = f[(lo - 1) + n]}
  <2>5. 0 \in S
    <3>1. (lo - 1) + 0 = lo - 1
      OBVIOUS
    <3> QED
      BY <2>3, <2>4, <3>1
  <2>6. ASSUME NEW n \in Nat, n \in S
        PROVE  n + 1 \in S
    <3> SUFFICES ASSUME (lo - 1) + (n + 1) <= hi - 1
                 PROVE  g[(lo - 1) + (n + 1)] = f[(lo - 1) + (n + 1)]
      BY DEF S
    <3> DEFINE z == (lo - 1) + (n + 1)
    <3>1. z \in lo..(hi - 1) /\ z \in lo..hi /\ z - 1 = (lo - 1) + n /\ (lo - 1) + n <= hi - 1
      OBVIOUS
    <3>2. g[z - 1] = f[z - 1]
      BY <2>6, <3>1
    <3> HIDE DEF z
    <3>3. g[z] = f[z]
      BY <2>3, <2>4, <3>1, <3>2
    <3> QED
      BY <3>3 DEF z
  <2>7. g[hi - 1] = f[hi - 1]
    <3> HIDE DEF S
    <3>1. hi - lo \in Nat /\ (lo - 1) + (hi - lo) = hi - 1 /\ (lo - 1) + (hi - lo) <= hi - 1
      OBVIOUS
    <3>2. hi - lo \in S
      BY <2>5, <2>6, <3>1, SetInduction
    <3> QED
      BY <3>1, <3>2 DEF S
  <2> QED
    BY <2>1, <2>3, <2>4, <2>7
<1> QED
  BY <1>2, <1>3, <1>4

(* It may be read in two pieces. *)
LEMMA TextBetweenJoins ==
  ASSUME sql \in Seq(Chars), NEW params, NEW lo \in Nat, NEW mid \in Nat, NEW hi \in Nat,
         0 < lo, lo <= mid, mid <= hi, hi <= EndOf(sql)
  PROVE  TextBetween(params, lo, hi) = TextBetween(params, lo, mid) \o TextBetween(params, mid, hi)
<1> DEFINE TB(a, b) == TextBetween(params, a, b)
           S == {n \in Nat : mid + n <= hi => TB(lo, mid + n) = TB(lo, mid) \o TB(mid, mid + n)}
<1>0. EndOf(sql) \in Nat
  BY LenProperties DEF EndOf
<1>1. \A a, b \in Nat : 0 < a /\ a <= b /\ b <= EndOf(sql) =>
        /\ TB(a, b) \in Seq(Chars)
        /\ TB(a, a) = << >>
        /\ b < EndOf(sql) =>
              TB(a, b + 1) = IF b \in Doubled(params) THEN TB(a, b) ELSE Append(TB(a, b), sql[b])
  BY TextBetweenNext
<1> HIDE DEF TB
<1>2. 0 \in S
  <2>1. mid + 0 = mid /\ 0 < mid /\ mid <= mid /\ mid <= EndOf(sql)
    BY <1>0
  <2>2. TB(lo, mid) \in Seq(Chars) /\ TB(mid, mid) = << >>
    BY <1>1, <2>1
  <2>3. TB(lo, mid) = TB(lo, mid) \o << >>
    BY <2>2, Joins
  <2> QED
    BY <2>1, <2>2, <2>3
<1>3. ASSUME NEW n \in Nat, n \in S
      PROVE  n + 1 \in S
  <2> SUFFICES ASSUME mid + (n + 1) <= hi
               PROVE  TB(lo, mid + (n + 1)) = TB(lo, mid) \o TB(mid, mid + (n + 1))
    BY DEF S
  <2> DEFINE z == mid + n
  <2>1. /\ z \in Nat /\ mid + (n + 1) = z + 1 /\ z < EndOf(sql) /\ z <= EndOf(sql) /\ z <= hi
        /\ 0 < mid /\ mid <= z /\ lo <= z /\ mid <= EndOf(sql)
    BY <1>0
  <2>2. TB(lo, z) = TB(lo, mid) \o TB(mid, z)
    BY <1>3, <2>1
  <2> HIDE DEF z
  <2>3. /\ TB(lo, z + 1) = IF z \in Doubled(params) THEN TB(lo, z) ELSE Append(TB(lo, z), sql[z])
        /\ TB(lo, z) \in Seq(Chars)
    BY <1>1, <2>1
  <2>4. /\ TB(mid, z + 1) = IF z \in Doubled(params) THEN TB(mid, z) ELSE Append(TB(mid, z), sql[z])
        /\ TB(mid, z) \in Seq(Chars)
    BY <1>1, <2>1
  <2>5. TB(lo, mid) \in Seq(Chars)
    BY <1>1, <2>1
  <2>6. sql[z] \in Chars
    <3>1. z \in 1..Len(sql)
      BY <2>1, LenProperties DEF EndOf
    <3> QED
      BY <3>1, ElementOfSeq DEF Chars
  <2>7. Append(TB(lo, mid) \o TB(mid, z), sql[z]) = TB(lo, mid) \o Append(TB(mid, z), sql[z])
    <3>1. <<sql[z]>> \in Seq(Chars) /\ TB(lo, mid) \o TB(mid, z) \in Seq(Chars)
      BY <2>4, <2>5, <2>6, ConcatProperties
    <3>2. Append(TB(lo, mid) \o TB(mid, z), sql[z]) = (TB(lo, mid) \o TB(mid, z)) \o <<sql[z]>>
      BY <2>6, <3>1, AppendIsConcat
    <3>3. Append(TB(mid, z), sql[z]) = TB(mid, z) \o <<sql[z]>>
      BY <2>4, <2>6, AppendIsConcat
    <3>4. \A a, b, c \in Seq(Chars) : (a \o b) \o c = a \o (b \o c)
      BY Associates
    <3>5. TB(mid, z) \in Seq(Chars) /\ <<sql[z]>> \in Seq(Chars)
      BY <2>4, <3>1
    <3>6. (TB(lo, mid) \o TB(mid, z)) \o <<sql[z]>> = TB(lo, mid) \o (TB(mid, z) \o <<sql[z]>>)
      BY <2>5, <3>4, <3>5
    <3> QED
      BY <3>2, <3>3, <3>6
  <2> QED
    BY <2>1, <2>2, <2>3, <2>4, <2>7
<1>4. hi - mid \in Nat /\ mid + (hi - mid) = hi /\ mid + (hi - mid) <= hi
  OBVIOUS
<1>5. hi - mid \in S
  <2> HIDE DEF S
  <2> QED
    BY <1>2, <1>3, <1>4, SetInduction
<1> QED
  BY <1>4, <1>5 DEF TB

(* It is the text as it stands where nothing is doubled. *)
LEMMA TextBetweenIs ==
  ASSUME sql \in Seq(Chars), NEW params, NEW lo \in Nat, NEW hi \in Nat,
         0 < lo, lo <= hi, hi <= EndOf(sql), \A k \in lo..(hi - 1) : k \notin Doubled(params)
  PROVE  TextBetween(params, lo, hi) = SubSeq(sql, lo, hi - 1)
<1> DEFINE TB(b) == TextBetween(params, lo, b)
           S == {n \in Nat : lo + n <= hi => TB(lo + n) = SubSeq(sql, lo, (lo + n) - 1)}
<1>0. EndOf(sql) \in Nat /\ lo <= EndOf(sql)
  BY LenProperties DEF EndOf
<1>1. \A b \in Nat : lo <= b /\ b <= EndOf(sql) =>
        /\ TB(b) \in Seq(Chars)
        /\ TB(lo) = << >>
        /\ b < EndOf(sql) => TB(b + 1) = IF b \in Doubled(params) THEN TB(b) ELSE Append(TB(b), sql[b])
  BY TextBetweenNext
<1> HIDE DEF TB
<1>2. 0 \in S
  <2>1. lo + 0 = lo /\ lo <= lo /\ (lo + 0) - 1 < lo /\ (lo + 0) - 1 \in Int /\ lo \in Int
    OBVIOUS
  <2>2. SubSeq(sql, lo, (lo + 0) - 1) = << >>
    BY <2>1, SubSeqEmpty
  <2> QED
    BY <1>0, <1>1, <2>1, <2>2
<1>3. ASSUME NEW n \in Nat, n \in S
      PROVE  n + 1 \in S
  <2> SUFFICES ASSUME lo + (n + 1) <= hi
               PROVE  TB(lo + (n + 1)) = SubSeq(sql, lo, (lo + (n + 1)) - 1)
    BY DEF S
  <2> DEFINE z == lo + n
  <2>1. /\ z \in Nat /\ lo + (n + 1) = z + 1 /\ z < EndOf(sql) /\ lo <= z /\ z <= EndOf(sql)
        /\ z <= hi /\ z \in lo..(hi - 1) /\ (z + 1) - 1 = z
        /\ lo \in 1..Len(sql) /\ z \in lo..Len(sql)
    BY <1>0, LenProperties DEF EndOf
  <2>2. TB(z) = SubSeq(sql, lo, z - 1)
    BY <1>3, <2>1
  <2> HIDE DEF z
  <2>3. TB(z + 1) = Append(TB(z), sql[z])
    BY <1>1, <2>1
  <2>4. SubSeq(sql, lo, z) = SubSeq(sql, lo, z - 1) \o <<sql[z]>>
    BY <2>1, SubSeqRecursiveSecond
  <2>5. Append(TB(z), sql[z]) = TB(z) \o <<sql[z]>>
    <3>1. TB(z) \in Seq(Chars)
      BY <1>1, <2>1
    <3>2. sql[z] \in Chars
      <4>1. z \in 1..Len(sql)
        BY <2>1
      <4> QED
        BY <4>1, ElementOfSeq DEF Chars
    <3> QED
      BY <3>1, <3>2, AppendIsConcat
  <2> QED
    BY <2>1, <2>2, <2>3, <2>4, <2>5
<1>4. hi - lo \in Nat /\ lo + (hi - lo) = hi /\ lo + (hi - lo) <= hi
  OBVIOUS
<1>5. hi - lo \in S
  <2> HIDE DEF S
  <2> QED
    BY <1>2, <1>3, <1>4, SetInduction
<1> QED
  BY <1>4, <1>5 DEF TB

-----------------------------------------------------------------------------
(* A statement that has been scanned. *)
Scanned ==
  /\ Types
  /\ Chain(toks)
  /\ Covered(toks) = EndOf(sql)
  /\ FoundIn(toks) = ParamsOf(sql)

(* Where the text after m tokens begins. *)
From(m) == IF m = 0 THEN 1 ELSE toks[m].hi

LEMMA Places ==
  ASSUME Scanned
  PROVE  /\ Len(toks) \in Nat /\ DOMAIN toks = 1..Len(toks) /\ EndOf(sql) \in Nat
         /\ \A m \in 1..Len(toks) : toks[m] \in Tokens
         /\ From(Len(toks)) = EndOf(sql)
         /\ \A m \in 0..Len(toks) : From(m) \in Nat /\ 0 < From(m) /\ From(m) <= EndOf(sql)
         /\ \A m \in 1..Len(toks) : toks[m].lo = From(m - 1) /\ toks[m].hi = From(m)
         /\ \A a, b \in 0..Len(toks) : a < b => From(a) < From(b)
<1> DEFINE N == Len(toks)
<1>1. N \in Nat /\ DOMAIN toks = 1..N /\ EndOf(sql) \in Nat /\ toks \in Seq(Tokens)
  BY LenProperties DEF Scanned, Types, EndOf
<1>2. \A m \in 1..N : toks[m] \in Tokens
  BY <1>1, ElementOfSeq
<1>3. From(N) = EndOf(sql)
  <2>1. toks = << >> <=> N = 0
    BY <1>1, EmptySeq
  <2> QED
    BY <2>1 DEF Scanned, Covered, From
<1> HIDE DEF N
<1>4. \A m \in 1..N : toks[m].lo = From(m - 1) /\ toks[m].hi = From(m) /\ From(m - 1) < From(m)
  <2> TAKE m \in 1..N
  <2>1. m # 0 /\ (m - 1 = 0 <=> m = 1)
    BY <1>1
  <2>2. /\ toks[m].lo < toks[m].hi
        /\ toks[m].lo = IF m = 1 THEN 1 ELSE toks[m - 1].hi
    BY <1>1 DEF Scanned, Chain
  <2> QED
    BY <2>1, <2>2 DEF From
<1>5. \A m \in 0..N : From(m) \in Nat
  <2> TAKE m \in 0..N
  <2>1. CASE m = 0
    BY <2>1 DEF From
  <2>2. CASE m # 0
    <3>1. m \in 1..N
      BY <1>1, <2>2
    <3>2. toks[m].hi \in Nat
      BY <1>2, <3>1 DEF Tokens
    <3> QED
      BY <2>2, <3>2 DEF From
  <2> QED
    BY <2>1, <2>2
<1> DEFINE S == {b \in Nat : \A a \in 0..N : b <= N /\ a < b => From(a) < From(b)}
<1>6. 0 \in S
  BY <1>1
<1>7. ASSUME NEW b \in Nat, b \in S
      PROVE  b + 1 \in S
  <2> SUFFICES ASSUME NEW a \in 0..N, b + 1 <= N, a < b + 1
               PROVE  From(a) < From(b + 1)
    BY DEF S
  <2>1. b + 1 \in 1..N /\ (b + 1) - 1 = b /\ b <= N /\ (a = b \/ a < b) /\ b \in 0..N /\ b + 1 \in 0..N
    BY <1>1
  <2>2. From(b) < From(b + 1)
    BY <1>4, <2>1
  <2>3. a < b => From(a) < From(b)
    BY <1>7, <2>1
  <2>4. From(a) \in Nat /\ From(b) \in Nat /\ From(b + 1) \in Nat
    BY <1>5, <2>1
  <2>5. CASE a = b
    BY <2>2, <2>5
  <2>6. CASE a < b
    BY <2>2, <2>3, <2>4, <2>6
  <2> QED
    BY <2>1, <2>5, <2>6
<1>8. \A a, b \in 0..N : a < b => From(a) < From(b)
  <2> HIDE DEF S
  <2>1. Nat \subseteq S
    BY <1>6, <1>7, SetInduction
  <2> TAKE a, b \in 0..N
  <2>2. b \in Nat /\ b <= N
    BY <1>1
  <2>3. b \in S
    BY <2>1, <2>2
  <2> QED
    BY <2>2, <2>3 DEF S
<1>9. \A m \in 0..N : 0 < From(m) /\ From(m) <= EndOf(sql)
  <2> TAKE m \in 0..N
  <2>1. From(0) = 1 /\ 0 \in 0..N /\ N \in 0..N /\ From(m) \in Nat /\ EndOf(sql) \in Nat
    BY <1>1, <1>5 DEF From
  <2>2. m = 0 \/ From(0) < From(m)
    BY <1>1, <1>8, <2>1
  <2>3. m = N \/ From(m) < From(N)
    BY <1>1, <1>8, <2>1
  <2>4. 0 < From(m)
    BY <2>1, <2>2
  <2>5. From(m) <= EndOf(sql)
    BY <1>3, <2>1, <2>3
  <2> QED
    BY <2>4, <2>5
<1> QED
  BY <1>1, <1>2, <1>3, <1>4, <1>5, <1>8, <1>9 DEF N

-----------------------------------------------------------------------------
(* The slots among the first m tokens, and how many they are. *)
SlotsTo(m) == {toks[n] : n \in {n \in 1..m : IsSlot(toks[n])}}
Rank(m) == Cardinality(SlotsTo(m))

LEMMA SlotsGrow ==
  ASSUME Scanned
  PROVE  /\ SlotsTo(0) = {} /\ Rank(0) = 0
         /\ \A m \in 0..Len(toks) : IsFiniteSet(SlotsTo(m)) /\ Rank(m) \in Nat
         /\ \A m \in 1..Len(toks) :
              /\ IsSlot(toks[m]) => /\ SlotsTo(m) = SlotsTo(m - 1) \cup {toks[m]}
                                    /\ toks[m] \notin SlotsTo(m - 1)
                                    /\ Rank(m) = Rank(m - 1) + 1
              /\ ~IsSlot(toks[m]) => SlotsTo(m) = SlotsTo(m - 1) /\ Rank(m) = Rank(m - 1)
         /\ \A a, b \in 0..Len(toks) : a <= b => SlotsTo(a) \subseteq SlotsTo(b) /\ Rank(a) <= Rank(b)
<1> DEFINE N == Len(toks)
<1>1. /\ N \in Nat
      /\ \A m \in 1..N : toks[m].lo = From(m - 1)
      /\ \A m \in 0..N : From(m) \in Nat
      /\ \A a, b \in 0..N : a < b => From(a) < From(b)
  BY Places
<1> HIDE DEF N
<1>2. SlotsTo(0) = {} /\ Rank(0) = 0
  <2>1. SlotsTo(0) = {}
    BY DEF SlotsTo
  <2> QED
    BY <2>1, FS_EmptySet DEF Rank
<1>3. ASSUME NEW m \in 1..N
      PROVE  /\ IsSlot(toks[m]) => SlotsTo(m) = SlotsTo(m - 1) \cup {toks[m]}
             /\ ~IsSlot(toks[m]) => SlotsTo(m) = SlotsTo(m - 1)
             /\ toks[m] \notin SlotsTo(m - 1)
  <2>1. \A n : n \in 1..m <=> n \in 1..(m - 1) \/ n = m
    BY <1>1
  <2>2. \A k : \A x : x \in SlotsTo(k) <=> \E n \in 1..k : IsSlot(toks[n]) /\ x = toks[n]
    BY Zenon DEF SlotsTo
  <2>3. IsSlot(toks[m]) => SlotsTo(m) = SlotsTo(m - 1) \cup {toks[m]}
    BY <2>1, <2>2
  <2>4. ~IsSlot(toks[m]) => SlotsTo(m) = SlotsTo(m - 1)
    BY <2>1, <2>2
  <2>5. ASSUME NEW n \in 1..(m - 1)
        PROVE  toks[n] # toks[m]
    <3>1. n \in 1..N /\ m \in 1..N /\ n - 1 \in 0..N /\ m - 1 \in 0..N /\ n - 1 < m - 1
      BY <1>1
    <3>2. toks[n].lo < toks[m].lo /\ toks[n].lo \in Nat /\ toks[m].lo \in Nat
      BY <1>1, <3>1
    <3> QED
      BY <3>2
  <2> QED
    BY <2>2, <2>3, <2>4, <2>5
<1> DEFINE S == {m \in Nat : m <= N => IsFiniteSet(SlotsTo(m))}
<1>4. 0 \in S
  BY <1>2, FS_EmptySet
<1>5. ASSUME NEW m \in Nat, m \in S
      PROVE  m + 1 \in S
  <2> SUFFICES ASSUME m + 1 <= N
               PROVE  IsFiniteSet(SlotsTo(m + 1))
    BY DEF S
  <2>1. m + 1 \in 1..N /\ (m + 1) - 1 = m /\ m <= N
    BY <1>1
  <2>2. IsFiniteSet(SlotsTo(m))
    BY <1>5, <2>1
  <2>3. SlotsTo(m + 1) = SlotsTo(m) \/ SlotsTo(m + 1) = SlotsTo(m) \cup {toks[m + 1]}
    BY <1>3, <2>1
  <2> QED
    BY <2>2, <2>3, FS_AddElement
<1>6. \A m \in 0..N : IsFiniteSet(SlotsTo(m))
  <2> HIDE DEF S
  <2>1. Nat \subseteq S
    BY <1>4, <1>5, SetInduction
  <2> TAKE m \in 0..N
  <2>2. m \in S /\ m <= N
    BY <1>1, <2>1
  <2> QED
    BY <2>2 DEF S
<1>7. \A m \in 0..N : Rank(m) \in Nat
  BY <1>6, FS_CardinalityType DEF Rank
<1>8. ASSUME NEW m \in 1..N
      PROVE  /\ IsSlot(toks[m]) => Rank(m) = Rank(m - 1) + 1
             /\ ~IsSlot(toks[m]) => Rank(m) = Rank(m - 1)
  <2>1. m - 1 \in 0..N
    BY <1>1
  <2>2. IsFiniteSet(SlotsTo(m - 1))
    BY <1>6, <2>1
  <2>3. Cardinality(SlotsTo(m - 1) \cup {toks[m]}) = Cardinality(SlotsTo(m - 1)) + 1
    BY <1>3, <2>2, FS_AddElement
  <2> QED
    BY <1>3, <2>3 DEF Rank
<1>9. \A a, b \in 0..N : a <= b => SlotsTo(a) \subseteq SlotsTo(b) /\ Rank(a) <= Rank(b)
  <2> SUFFICES ASSUME NEW a \in 0..N, NEW b \in 0..N, a <= b
               PROVE  SlotsTo(a) \subseteq SlotsTo(b) /\ Rank(a) <= Rank(b)
    OBVIOUS
  <2>1. \A n \in 1..a : n \in 1..b
    BY <1>1
  <2>2. \A k : \A x : x \in SlotsTo(k) <=> \E n \in 1..k : IsSlot(toks[n]) /\ x = toks[n]
    BY Zenon DEF SlotsTo
  <2>3. SlotsTo(a) \subseteq SlotsTo(b)
    BY <2>1, <2>2
  <2>4. IsFiniteSet(SlotsTo(b))
    BY <1>6
  <2> QED
    BY <2>3, <2>4, FS_Subset DEF Rank
<1> QED
  BY <1>2, <1>3, <1>6, <1>7, <1>8, <1>9 DEF N

(* They are what a reader calls the slots, in the same order. *)
LEMMA SlotsAre ==
  ASSUME Scanned
  PROVE  /\ SlotsIn(ParamsOf(sql)) \in Seq(Range(SlotsIn(ParamsOf(sql))))
         /\ Len(SlotsIn(ParamsOf(sql))) = Rank(Len(toks))
         /\ DOMAIN SlotsIn(ParamsOf(sql)) = 1..Rank(Len(toks))
         /\ \A m \in 1..Len(toks) :
              IsSlot(toks[m]) => SlotsIn(ParamsOf(sql))[Rank(m - 1) + 1] = toks[m]
<1> DEFINE N == Len(toks)
           S == SlotsTo(N)
           slots == SlotsIn(ParamsOf(sql))
<1>1. /\ N \in Nat /\ DOMAIN toks = 1..N
      /\ \A m \in 1..N : toks[m].lo = From(m - 1)
      /\ \A m \in 0..N : From(m) \in Nat
      /\ \A a, b \in 0..N : a < b => From(a) < From(b)
  BY Places
<1>2. /\ \A m \in 0..N : IsFiniteSet(SlotsTo(m)) /\ Rank(m) \in Nat
      /\ \A m \in 1..N :
              /\ IsSlot(toks[m]) => SlotsTo(m) = SlotsTo(m - 1) \cup {toks[m]}
                                    /\ toks[m] \notin SlotsTo(m - 1)
                                    /\ Rank(m) = Rank(m - 1) + 1
              /\ ~IsSlot(toks[m]) => SlotsTo(m) = SlotsTo(m - 1) /\ Rank(m) = Rank(m - 1)
      /\ \A a, b \in 0..N : a <= b => SlotsTo(a) \subseteq SlotsTo(b) /\ Rank(a) <= Rank(b)
  BY SlotsGrow
<1>3. \A k : \A x : x \in SlotsTo(k) <=> \E n \in 1..k : IsSlot(toks[n]) /\ x = toks[n]
  BY Zenon DEF SlotsTo
<1>4. slots = InOrder(S)
  <2> DEFINE P == ParamsOf(sql)
             names == {t \in P : t.kind = "named"}
             marks == {t \in P : t.kind = "ordinal"}
  <2>1. \A x : x \in P <=> x \in Range(toks) /\ x.kind # "text"
    BY DEF Scanned, FoundIn
  <2>2. \A x : x \in Range(toks) <=> \E n \in 1..N : x = toks[n]
    BY <1>1 DEF Range
  <2>3. slots = InOrder(IF names # {} THEN names ELSE marks)
    BY DEF SlotsIn
  <2>4. \A x : x \in S <=> x \in Range(toks) /\ IsSlot(x)
    BY <1>3, <2>2
  <2>5. \A x : IsSlot(x) <=> x.kind = "named" \/ (x.kind = "ordinal" /\ Style = "ordinal")
    BY DEF IsSlot
  <2>6. \A x : x \in names <=> x \in Range(toks) /\ x.kind = "named"
    BY <2>1
  <2>7. \A x : x \in marks <=> x \in Range(toks) /\ x.kind = "ordinal"
    BY <2>1
  <2>8. Has("named") <=> names # {}
    BY <2>6 DEF Has
  <2>9. Has("ordinal") <=> marks # {}
    BY <2>7 DEF Has
  <2>10. Style = "ordinal" <=> ~Has("named") /\ Has("ordinal")
    BY DEF Style
  <2> HIDE DEF names, marks
  <2>11. CASE names # {}
    <3>1. S = names
      BY <2>4, <2>5, <2>6, <2>8, <2>10, <2>11
    <3> QED
      BY <2>3, <2>11, <3>1
  <2>12. CASE names = {}
    <3>1. S = marks
      BY <2>4, <2>5, <2>6, <2>7, <2>8, <2>9, <2>10, <2>12
    <3> QED
      BY <2>3, <2>12, <3>1
  <2> QED
    BY <2>11, <2>12
<1>5. Cardinality(S) = Rank(N) /\ Rank(N) \in Nat
  BY <1>1, <1>2 DEF Rank
<1> HIDE DEF S, slots, N
<1>6. slots = [n \in 1..Cardinality(S) |-> CHOOSE t \in S : Cardinality({u \in S : u.lo < t.lo}) = n - 1]
  BY <1>4 DEF InOrder
<1>7. slots \in Seq(Range(slots)) /\ DOMAIN slots = 1..Rank(N) /\ Len(slots) = Rank(N)
  <2>1. DOMAIN slots = 1..Rank(N)
    BY <1>5, <1>6
  <2>2. slots \in [1..Rank(N) -> Range(slots)]
    BY <1>6, <2>1 DEF Range
  <2> QED
    BY <1>5, <2>1, <2>2
<1>8. ASSUME NEW m \in 1..N, IsSlot(toks[m])
      PROVE  toks[m] \in S /\ Cardinality({u \in S : u.lo < toks[m].lo}) = Rank(m - 1)
  <2>1. toks[m] \in S
    BY <1>3, <1>8 DEF S
  <2>2. ASSUME NEW n \in 1..N
        PROVE  toks[n].lo < toks[m].lo <=> n \in 1..(m - 1)
    <3>1. /\ n - 1 \in 0..N /\ m - 1 \in 0..N /\ n \in Nat /\ m \in Nat
          /\ (n \in 1..(m - 1) <=> n - 1 < m - 1)
          /\ (n - 1 < m - 1 \/ n - 1 = m - 1 \/ m - 1 < n - 1)
      BY <1>1
    <3>2. /\ toks[n].lo = From(n - 1) /\ toks[m].lo = From(m - 1)
          /\ From(n - 1) \in Nat /\ From(m - 1) \in Nat
      BY <1>1, <3>1
    <3>3. n - 1 < m - 1 => From(n - 1) < From(m - 1)
      BY <1>1, <3>1
    <3>4. m - 1 < n - 1 => From(m - 1) < From(n - 1)
      BY <1>1, <3>1
    <3>5. CASE n - 1 < m - 1
      BY <3>1, <3>2, <3>3, <3>5
    <3>6. CASE n - 1 = m - 1
      <4>1. ~(From(n - 1) < From(m - 1)) /\ ~(n - 1 < m - 1)
        BY <3>1, <3>2, <3>6
      <4> QED
        BY <3>1, <3>2, <4>1
    <3>7. CASE m - 1 < n - 1
      <4>1. ~(From(n - 1) < From(m - 1))
        BY <3>2, <3>4, <3>7
      <4>2. ~(n - 1 < m - 1)
        BY <3>1, <3>7
      <4> QED
        BY <3>1, <3>2, <4>1, <4>2
    <3> QED
      BY <3>1, <3>5, <3>6, <3>7
  <2>3. \A x : x \in S <=> \E n \in 1..N : IsSlot(toks[n]) /\ x = toks[n]
    BY <1>3 DEF S
  <2>4. \A x : x \in SlotsTo(m - 1) <=> \E n \in 1..(m - 1) : IsSlot(toks[n]) /\ x = toks[n]
    BY <1>3
  <2>5. \A n \in 1..(m - 1) : n \in 1..N
    BY <1>1
  <2>6. {u \in S : u.lo < toks[m].lo} = SlotsTo(m - 1)
    <3>1. ASSUME NEW u \in S, u.lo < toks[m].lo
          PROVE  u \in SlotsTo(m - 1)
      BY <2>2, <2>3, <2>4, <3>1
    <3>2. ASSUME NEW u \in SlotsTo(m - 1)
          PROVE  u \in S /\ u.lo < toks[m].lo
      BY <2>2, <2>3, <2>4, <2>5
    <3> QED
      BY <3>1, <3>2
  <2> QED
    BY <2>1, <2>6 DEF Rank
<1>9. ASSUME NEW a \in 1..N, NEW b \in 1..N, IsSlot(toks[a]), IsSlot(toks[b]), Rank(a - 1) = Rank(b - 1)
      PROVE  ~(a < b)
  <2> SUFFICES ASSUME a < b
               PROVE  FALSE
    OBVIOUS
  <2>1. a \in 0..N /\ b - 1 \in 0..N /\ a <= b - 1 /\ a - 1 \in 0..N
    BY <1>1
  <2>2. Rank(a) <= Rank(b - 1) /\ Rank(a) = Rank(a - 1) + 1 /\ Rank(a - 1) \in Nat
    BY <1>2, <1>9, <2>1
  <2> QED
    BY <1>9, <2>2
<1>10. ASSUME NEW m \in 1..N, IsSlot(toks[m])
       PROVE  slots[Rank(m - 1) + 1] = toks[m]
  <2> DEFINE n == Rank(m - 1) + 1
             C(t) == Cardinality({u \in S : u.lo < t.lo})
  <2>1. n \in 1..Cardinality(S) /\ n - 1 = Rank(m - 1)
    <3>1. m - 1 \in 0..N /\ m \in 0..N /\ N \in 0..N /\ m <= N
      BY <1>1
    <3>2. Rank(m) = Rank(m - 1) + 1 /\ Rank(m - 1) \in Nat /\ Rank(m) <= Rank(N)
      BY <1>2, <1>10, <3>1
    <3> QED
      BY <1>5, <3>2
  <2>2. toks[m] \in S /\ C(toks[m]) = n - 1
    BY <1>8, <1>10, <2>1
  <2>3. \A t \in S : C(t) = n - 1 => t = toks[m]
    <3> SUFFICES ASSUME NEW t \in S, C(t) = n - 1
                 PROVE  t = toks[m]
      OBVIOUS
    <3>1. PICK k \in 1..N : IsSlot(toks[k]) /\ t = toks[k]
      BY <1>3 DEF S
    <3>2. Rank(k - 1) = Rank(m - 1)
      BY <1>8, <2>1, <3>1
    <3>3. ~(k < m) /\ ~(m < k)
      BY <1>9, <1>10, <3>1, <3>2
    <3>4. k = m
      BY <1>1, <3>3
    <3> QED
      BY <3>1, <3>4
  <2>4. slots[n] = CHOOSE t \in S : C(t) = n - 1
    BY <1>6, <2>1
  <2> HIDE DEF C, n
  <2>5. slots[n] = toks[m]
    BY <2>2, <2>3, <2>4
  <2> QED
    BY <2>5 DEF n
<1> QED
  BY <1>7, <1>10 DEF slots, N

-----------------------------------------------------------------------------
(* What a token that is no slot adds to the text is what a reader keeps of it. *)
LEMMA DoubledAre ==
  ASSUME Scanned
  PROVE  /\ \A k : k \in Doubled(ParamsOf(sql)) <=>
              \E n \in 1..Len(toks) : toks[n].kind = "escapedQ" /\ k = From(n - 1) + 1
         /\ \A n \in 1..Len(toks) : toks[n].kind = "escapedQ" =>
              From(n) = From(n - 1) + 2 /\ sql[From(n - 1)] = "?"
<1> DEFINE N == Len(toks)
<1>1. /\ N \in Nat /\ DOMAIN toks = 1..N
      /\ \A m \in 1..N : toks[m].lo = From(m - 1) /\ toks[m].hi = From(m)
  BY Places
<1>2. \A t : t \in ParamsOf(sql) <=> (\E n \in 1..N : t = toks[n]) /\ t.kind # "text"
  BY <1>1 DEF Scanned, FoundIn, Range
<1>3. \A k : k \in Doubled(ParamsOf(sql)) <=>
        \E t \in ParamsOf(sql) : t.kind = "escapedQ" /\ k = t.lo + 1
  BY Zenon DEF Doubled
<1> HIDE DEF N
<1>4. ASSUME NEW k
      PROVE  k \in Doubled(ParamsOf(sql)) <=>
              \E n \in 1..N : toks[n].kind = "escapedQ" /\ k = From(n - 1) + 1
  <2>1. \A n \in 1..N : toks[n].kind = "escapedQ" =>
          toks[n] \in ParamsOf(sql) /\ toks[n].lo = From(n - 1)
    BY <1>1, <1>2
  <2>2. \A t \in ParamsOf(sql) : \E n \in 1..N : t = toks[n] /\ t.lo = From(n - 1)
    BY <1>1, <1>2
  <2> QED
    BY <1>3, <2>1, <2>2
<1>5. ASSUME NEW n \in 1..N, toks[n].kind = "escapedQ"
      PROVE  From(n) = From(n - 1) + 2 /\ sql[From(n - 1)] = "?"
  <2>1. toks[n] \in ParamsOf(sql)
    BY <1>2, <1>5
  <2>2. PICK k \in Visible(sql) : toks[n] \in ParamsAt(sql, k)
    BY <2>1, ParamsByPlace
  <2>3. toks[n] = Token("escapedQ", k, k + 2) /\ Is(sql, k, {"?"})
    <3>1. \A j, h : Token("named", j, h).kind = "named" /\ Token("numbered", j, h).kind = "numbered"
                    /\ Token("ordinal", j, h).kind = "ordinal"
      BY DEF Token
    <3> QED
      BY <1>5, <2>2, <3>1 DEF ParamsAt
  <2>4. toks[n].lo = k /\ toks[n].hi = k + 2 /\ sql[k] = "?"
    BY <2>3 DEF Token, Is
  <2> QED
    BY <1>1, <2>4
<1> QED
  BY <1>4, <1>5 DEF N

LEMMA LiteralIs ==
  ASSUME Scanned, NEW m \in 1..Len(toks)
  PROVE  /\ Literal(toks[m]) \in Seq(Chars)
         /\ TextBetween(ParamsOf(sql), From(m - 1), From(m)) = Literal(toks[m])
<1> DEFINE N == Len(toks)
           P == ParamsOf(sql)
           lo == From(m - 1)
           hi == From(m)
<1>1. /\ N \in Nat /\ EndOf(sql) \in Nat
      /\ \A k \in 1..N : toks[k].lo = From(k - 1) /\ toks[k].hi = From(k)
      /\ \A k \in 0..N : From(k) \in Nat /\ 0 < From(k) /\ From(k) <= EndOf(sql)
      /\ \A a, b \in 0..N : a < b => From(a) < From(b)
  BY Places
<1>2. /\ \A k : k \in Doubled(P) <=> \E n \in 1..N : toks[n].kind = "escapedQ" /\ k = From(n - 1) + 1
      /\ \A n \in 1..N : toks[n].kind = "escapedQ" =>
              From(n) = From(n - 1) + 2 /\ sql[From(n - 1)] = "?"
  BY DoubledAre
<1> HIDE DEF N, P
<1>3. m \in 1..N /\ m - 1 \in 0..N /\ m \in 0..N /\ m - 1 < m
  BY <1>1 DEF N
<1>4. lo \in Nat /\ hi \in Nat /\ 0 < lo /\ lo < hi /\ lo <= hi /\ hi <= EndOf(sql)
  BY <1>1, <1>3
<1>5. sql \in Seq(Chars)
  BY DEF Scanned, Types
<1>6. toks[m].lo = lo /\ toks[m].hi = hi
  BY <1>1, <1>3
<1>7. ASSUME NEW n \in 1..N, toks[n].kind = "escapedQ", n # m
      PROVE  From(n - 1) + 1 \notin lo..(hi - 1)
  <2>1. n \in 0..N /\ n - 1 \in 0..N /\ From(n) = From(n - 1) + 2 /\ (n < m \/ m < n)
    <3>1. n \in 0..N /\ n - 1 \in 0..N /\ (n < m \/ m < n)
      BY <1>1, <1>3, <1>7
    <3>2. From(n) = From(n - 1) + 2
      BY <1>2, <1>7
    <3> QED
      BY <3>1, <3>2
  <2>2. From(n) \in Nat /\ From(n - 1) \in Nat
    BY <1>1, <2>1
  <2>3. CASE n < m
    <3>1. n = m - 1 \/ n < m - 1
      BY <1>1, <1>3, <2>3
    <3>2. From(n) <= lo
      BY <1>1, <1>3, <2>1, <2>2, <3>1
    <3> QED
      BY <1>4, <2>1, <2>2, <3>2
  <2>4. CASE m < n
    <3>1. n - 1 = m \/ m < n - 1
      BY <1>1, <1>3, <2>4
    <3>2. hi <= From(n - 1)
      BY <1>1, <1>3, <2>1, <2>2, <3>1
    <3> QED
      BY <1>4, <2>1, <2>2, <3>2
  <2> QED
    BY <2>1, <2>3, <2>4
<1> HIDE DEF lo, hi
<1>8. CASE toks[m].kind # "escapedQ"
  <2>1. \A k \in lo..(hi - 1) : k \notin Doubled(P)
    BY <1>2, <1>7, <1>8
  <2>2. TextBetween(P, lo, hi) = SubSeq(sql, lo, hi - 1)
    BY <1>4, <1>5, <2>1, TextBetweenIs
  <2>3. TextBetween(P, lo, hi) \in Seq(Chars)
    BY <1>4, <1>5, TextBetweenNext
  <2>4. Literal(toks[m]) = SubSeq(sql, lo, hi - 1)
    BY <1>6, <1>8 DEF Literal
  <2> QED
    BY <2>2, <2>3, <2>4 DEF lo, hi, P
<1>9. CASE toks[m].kind = "escapedQ"
  <2>1. hi = lo + 2 /\ sql[lo] = "?"
    BY <1>2, <1>3, <1>9 DEF lo, hi
  <2>2. lo + 1 \in Doubled(P)
    BY <1>2, <1>3, <1>9 DEF lo
  <2>3. lo \notin Doubled(P)
    <3>1. lo \in lo..(hi - 1) /\ lo # lo + 1
      BY <1>4
    <3>2. SUFFICES ASSUME NEW n \in 1..N, toks[n].kind = "escapedQ", lo = From(n - 1) + 1
                   PROVE  FALSE
      BY <1>2
    <3>3. n = m
      BY <1>7, <3>1, <3>2
    <3> QED
      BY <3>1, <3>2, <3>3 DEF lo
  <2>4. /\ lo < EndOf(sql) /\ lo <= EndOf(sql) /\ lo + 1 < EndOf(sql) /\ lo + 1 <= EndOf(sql)
        /\ lo <= lo + 1 /\ lo <= lo /\ lo + 1 \in Nat /\ (lo + 1) + 1 = lo + 2
    BY <1>1, <1>4, <2>1
  <2>5. TextBetween(P, lo, lo + 1) = Append(<< >>, sql[lo])
    <3>1. TextBetween(P, lo, lo) = << >>
      BY <1>4, <1>5, <2>4, TextBetweenNext
    <3>2. TextBetween(P, lo, lo + 1) = IF lo \in Doubled(P) THEN TextBetween(P, lo, lo)
                                       ELSE Append(TextBetween(P, lo, lo), sql[lo])
      BY <1>4, <1>5, <2>4, TextBetweenNext
    <3> QED
      BY <2>3, <3>1, <3>2
  <2>6. TextBetween(P, lo, (lo + 1) + 1) = TextBetween(P, lo, lo + 1)
    <3>1. TextBetween(P, lo, (lo + 1) + 1)
            = IF lo + 1 \in Doubled(P) THEN TextBetween(P, lo, lo + 1)
              ELSE Append(TextBetween(P, lo, lo + 1), sql[lo + 1])
      BY <1>4, <1>5, <2>4, TextBetweenNext
    <3> QED
      BY <2>2, <3>1
  <2>7. TextBetween(P, lo, hi) = <<"?">>
    BY <2>1, <2>4, <2>5, <2>6
  <2>8. Literal(toks[m]) = <<"?">> /\ <<"?">> \in Seq(Chars)
    <3>1. "?" \in Chars
      BY DEF Chars
    <3> QED
      BY <1>9, <3>1 DEF Literal
  <2> QED
    BY <2>7, <2>8 DEF lo, hi, P
<1> QED
  BY <1>8, <1>9

-----------------------------------------------------------------------------
(* What the parts say, up to part p: the values they stand for, and the text. *)
PartsSet == [param : BOOLEAN, text : Seq(Chars), key : Seq(Chars) \cup Nat]

KeysIn(ps, p, K) == \A q \in 1..p : ps[q].param => ps[q].key \in K

PartValues(part, size) ==
  IF ~part.param THEN << >>
  ELSE IF size[part.key] = Whole THEN << <<part.key, 0>> >>
  ELSE [e \in 1..size[part.key] |-> <<part.key, e>>]

SpentBy(ps, size, p) == FlattenSeq([q \in 1..p |-> PartValues(ps[q], size)])

PartText(part, size, before) ==
  IF ~part.param THEN part.text
  ELSE LET n == Len(PartValues(part, size)) IN
       IF n = 0 THEN <<"N">> ELSE SliceText(n, before)

TextAt(ps, size, p) == PartText(ps[p], size, Len(SpentBy(ps, size, p - 1)))

TextOf(ps, size, p) == FlattenSeq([q \in 1..p |-> TextAt(ps, size, q)])

LEMMA PartValuesIn ==
  ASSUME NEW K, NEW size \in [K -> Sizes], NEW part, part.param => part.key \in K
  PROVE  /\ PartValues(part, size) \in Seq(K \X Nat)
         /\ part.param =>
              /\ size[part.key] \in Nat \/ size[part.key] = Whole
              /\ size[part.key] \in Nat => Len(PartValues(part, size)) = size[part.key]
              /\ size[part.key] = Whole => Len(PartValues(part, size)) = 1
<1>1. CASE ~part.param
  BY <1>1 DEF PartValues
<1>2. CASE part.param
  <2>1. size[part.key] \in Nat \/ size[part.key] = Whole
    BY <1>2, LengthsAssumption DEF Sizes
  <2>2. CASE size[part.key] = Whole
    <3>1. ~(size[part.key] \in Nat)
      BY <2>2 DEF Whole
    <3>2. PartValues(part, size) = << <<part.key, 0>> >>
      BY <1>2, <2>2 DEF PartValues
    <3>3. <<part.key, 0>> \in K \X Nat
      BY <1>2
    <3>4. << <<part.key, 0>> >> \in Seq(K \X Nat) /\ Len(<< <<part.key, 0>> >>) = 1
      BY <3>3
    <3> QED
      BY <2>1, <3>1, <3>2, <3>4
  <2>3. CASE size[part.key] \in Nat
    <3>1. size[part.key] # Whole
      BY <2>3 DEF Whole
    <3> DEFINE n == size[part.key]
    <3>2. PartValues(part, size) = [e \in 1..n |-> <<part.key, e>>]
      BY <1>2, <3>1 DEF PartValues
    <3>3. \A e \in 1..n : <<part.key, e>> \in K \X Nat
      BY <1>2, <2>3
    <3> HIDE DEF n
    <3>4. n \in Nat
      BY <2>3 DEF n
    <3>5. [e \in 1..n |-> <<part.key, e>>] \in Seq(K \X Nat) /\ Len([e \in 1..n |-> <<part.key, e>>]) = n
      BY <3>3, <3>4
    <3> QED
      BY <2>1, <3>1, <3>2, <3>5 DEF n
  <2> QED
    BY <2>1, <2>2, <2>3
<1> QED
  BY <1>1, <1>2

LEMMA SpentNext ==
  ASSUME NEW K, NEW size \in [K -> Sizes], NEW ps, NEW p \in Nat, KeysIn(ps, p, K)
  PROVE  /\ SpentBy(ps, size, p) \in Seq(K \X Nat)
         /\ p = 0 => SpentBy(ps, size, p) = << >>
         /\ p > 0 => SpentBy(ps, size, p) = SpentBy(ps, size, p - 1) \o PartValues(ps[p], size)
<1> DEFINE f == [q \in 1..p |-> PartValues(ps[q], size)]
<1>1. \A q \in 1..p : PartValues(ps[q], size) \in Seq(K \X Nat)
  BY PartValuesIn DEF KeysIn
<1>2. f \in [1..p -> Seq(K \X Nat)]
  BY <1>1
<1>3. SpentBy(ps, size, p) = FlattenSeq(f)
  BY DEF SpentBy
<1>4. p > 0 => /\ SpentBy(ps, size, p - 1) = FlattenSeq([k \in 1..(p - 1) |-> f[k]])
               /\ f[p] = PartValues(ps[p], size)
  <2>1. \A k \in 1..(p - 1) : k \in 1..p
    OBVIOUS
  <2>2. [k \in 1..(p - 1) |-> f[k]] = [q \in 1..(p - 1) |-> PartValues(ps[q], size)]
    BY <2>1
  <2>3. p > 0 => p \in 1..p
    OBVIOUS
  <2> QED
    BY <2>2, <2>3 DEF SpentBy
<1> HIDE DEF f
<1>5. /\ FlattenSeq(f) \in Seq(K \X Nat)
      /\ p = 0 => FlattenSeq(f) = << >>
      /\ p > 0 => FlattenSeq(f) = FlattenSeq([k \in 1..(p - 1) |-> f[k]]) \o f[p]
  BY <1>2, FlattenStep
<1> QED
  BY <1>3, <1>4, <1>5

LEMMA PartTextIn ==
  ASSUME NEW K, NEW size \in [K -> Sizes], NEW part \in PartsSet, part.param => part.key \in K,
         NEW b \in Nat
  PROVE  PartText(part, size, b) \in Seq(Chars)
<1>1. CASE ~part.param
  BY <1>1 DEF PartText, PartsSet
<1>2. CASE part.param
  <2> DEFINE n == Len(PartValues(part, size))
  <2>1. PartValues(part, size) \in Seq(K \X Nat)
    BY PartValuesIn
  <2>2. n \in Nat
    BY <2>1, LenProperties
  <2>3. PartText(part, size, b) = IF n = 0 THEN <<"N">> ELSE SliceText(n, b)
    BY <1>2 DEF PartText
  <2> HIDE DEF n
  <2>4. SliceText(n, b) \in Seq(Chars)
    BY <2>2, SliceIs
  <2>5. <<"N">> \in Seq(Chars)
    <3>1. "N" \in Chars
      BY DEF Chars
    <3> QED
      BY <3>1
  <2> QED
    BY <2>3, <2>4, <2>5
<1> QED
  BY <1>1, <1>2

LEMMA TextNext ==
  ASSUME NEW K, NEW size \in [K -> Sizes], NEW ps, NEW p \in Nat, KeysIn(ps, p, K),
         \A q \in 1..p : ps[q] \in PartsSet
  PROVE  /\ TextOf(ps, size, p) \in Seq(Chars)
         /\ p = 0 => TextOf(ps, size, p) = << >>
         /\ p > 0 => TextOf(ps, size, p) = TextOf(ps, size, p - 1) \o TextAt(ps, size, p)
<1> DEFINE f == [q \in 1..p |-> TextAt(ps, size, q)]
<1>1. \A q \in 1..p : TextAt(ps, size, q) \in Seq(Chars)
  <2> TAKE q \in 1..p
  <2>1. q \in Nat \ {0} /\ \A r \in 1..q : r \in 1..p
    OBVIOUS
  <2>2. /\ ps[q].param => ps[q].key \in K
        /\ KeysIn(ps, q - 1, K) /\ q - 1 \in Nat
    BY <2>1 DEF KeysIn
  <2>3. SpentBy(ps, size, q - 1) \in Seq(K \X Nat)
    BY <2>2, SpentNext
  <2>4. Len(SpentBy(ps, size, q - 1)) \in Nat
    BY <2>3, LenProperties
  <2> QED
    BY <2>2, <2>4, PartTextIn DEF TextAt
<1>2. f \in [1..p -> Seq(Chars)]
  BY <1>1
<1>3. TextOf(ps, size, p) = FlattenSeq(f)
  BY DEF TextOf
<1>4. p > 0 => /\ TextOf(ps, size, p - 1) = FlattenSeq([k \in 1..(p - 1) |-> f[k]])
               /\ f[p] = TextAt(ps, size, p)
  <2>1. \A k \in 1..(p - 1) : k \in 1..p
    OBVIOUS
  <2>2. [k \in 1..(p - 1) |-> f[k]] = [q \in 1..(p - 1) |-> TextAt(ps, size, q)]
    BY <2>1
  <2>3. p > 0 => p \in 1..p
    OBVIOUS
  <2> QED
    BY <2>2, <2>3 DEF TextOf
<1> HIDE DEF f
<1>5. /\ FlattenSeq(f) \in Seq(Chars)
      /\ p = 0 => FlattenSeq(f) = << >>
      /\ p > 0 => FlattenSeq(f) = FlattenSeq([k \in 1..(p - 1) |-> f[k]]) \o f[p]
  BY <1>2, FlattenStep
<1> QED
  BY <1>3, <1>4, <1>5

(* Parts that agree say the same. *)
LEMMA PartsAgree ==
  ASSUME NEW ps, NEW qs, NEW size, NEW p \in Nat, \A q \in 1..p : ps[q] = qs[q]
  PROVE  SpentBy(ps, size, p) = SpentBy(qs, size, p) /\ TextOf(ps, size, p) = TextOf(qs, size, p)
<1>1. ASSUME NEW k \in Nat, k <= p
      PROVE  SpentBy(ps, size, k) = SpentBy(qs, size, k)
  <2>1. \A q \in 1..k : q \in 1..p
    BY <1>1
  <2>2. [q \in 1..k |-> PartValues(ps[q], size)] = [q \in 1..k |-> PartValues(qs[q], size)]
    BY <2>1
  <2> QED
    BY <2>2 DEF SpentBy
<1>2. \A q \in 1..p : TextAt(ps, size, q) = TextAt(qs, size, q)
  <2> TAKE q \in 1..p
  <2>1. q - 1 \in Nat /\ q - 1 <= p
    OBVIOUS
  <2>2. SpentBy(ps, size, q - 1) = SpentBy(qs, size, q - 1) /\ ps[q] = qs[q]
    BY <1>1, <2>1
  <2> QED
    BY <2>2 DEF TextAt
<1>3. [q \in 1..p |-> TextAt(ps, size, q)] = [q \in 1..p |-> TextAt(qs, size, q)]
  BY <1>2
<1>4. p <= p
  OBVIOUS
<1> QED
  BY <1>1, <1>3, <1>4 DEF TextOf

-----------------------------------------------------------------------------
(* One more part. *)
LEMMA SlotsCount ==
  ASSUME NEW ps \in Seq(PartsSet)
  PROVE  /\ Slots(ps) \in Nat
         /\ ps = << >> => Slots(ps) = 0
         /\ \A part \in PartsSet :
              Slots(Append(ps, part)) = IF part.param THEN Slots(ps) + 1 ELSE Slots(ps)
<1> DEFINE N == Len(ps)
           C(qs) == {p \in DOMAIN qs : qs[p].param}
<1>1. N \in Nat /\ DOMAIN ps = 1..N
  BY LenProperties
<1>2. IsFiniteSet(C(ps))
  <2>1. IsFiniteSet(1..N)
    BY <1>1, FS_Interval
  <2> QED
    BY <1>1, <2>1, FS_Subset
<1>3. Slots(ps) \in Nat
  BY <1>2, FS_CardinalityType DEF Slots
<1>4. ps = << >> => Slots(ps) = 0
  <2>1. ps = << >> => C(ps) = {}
    OBVIOUS
  <2> QED
    BY <2>1, FS_EmptySet DEF Slots
<1>5. ASSUME NEW part \in PartsSet
      PROVE  Slots(Append(ps, part)) = IF part.param THEN Slots(ps) + 1 ELSE Slots(ps)
  <2> DEFINE qs == Append(ps, part)
  <2>1. /\ qs \in Seq(PartsSet) /\ Len(qs) = N + 1
        /\ \A p \in 1..N : qs[p] = ps[p]
        /\ qs[N + 1] = part
    BY AppendProperties
  <2> HIDE DEF qs
  <2>2. DOMAIN qs = 1..(N + 1)
    BY <2>1, LenProperties
  <2>3. /\ N + 1 \notin C(ps)
        /\ part.param => C(qs) = C(ps) \cup {N + 1}
        /\ ~part.param => C(qs) = C(ps)
    <3>1. \A p : p \in 1..(N + 1) <=> p \in 1..N \/ p = N + 1
      BY <1>1
    <3>2. N + 1 \notin 1..N
      BY <1>1
    <3>3. \A p : p \in C(qs) <=> p \in 1..(N + 1) /\ qs[p].param
      BY <2>2
    <3>4. \A p : p \in C(ps) <=> p \in 1..N /\ ps[p].param
      BY <1>1
    <3> HIDE DEF C
    <3>5. \A p : p \in C(qs) <=> p \in C(ps) \/ (p = N + 1 /\ part.param)
      BY <2>1, <3>1, <3>3, <3>4
    <3> QED
      BY <3>2, <3>4, <3>5
  <2> HIDE DEF C
  <2>4. Cardinality(C(ps) \cup {N + 1}) = Cardinality(C(ps)) + 1
    BY <1>2, <2>3, FS_AddElement
  <2>5. Slots(qs) = Cardinality(C(qs)) /\ Slots(ps) = Cardinality(C(ps))
    BY DEF Slots, C
  <2>6. Slots(qs) = IF part.param THEN Slots(ps) + 1 ELSE Slots(ps)
    BY <2>3, <2>4, <2>5
  <2> QED
    BY <2>6 DEF qs
<1> QED
  BY <1>3, <1>4, <1>5

Keyed(ps, K) == KeysIn(ps, Len(ps), K)
AllSpent(ps, size) == SpentBy(ps, size, Len(ps))
AllText(ps, size) == TextOf(ps, size, Len(ps))

LEMMA AppendSays ==
  ASSUME NEW ps \in Seq(PartsSet), NEW part \in PartsSet, NEW K, NEW size \in [K -> Sizes],
         Keyed(Append(ps, part), K)
  PROVE  /\ Keyed(ps, K) /\ (part.param => part.key \in K)
         /\ AllSpent(ps, size) \in Seq(K \X Nat) /\ AllText(ps, size) \in Seq(Chars)
         /\ AllSpent(Append(ps, part), size) = AllSpent(ps, size) \o PartValues(part, size)
         /\ AllText(Append(ps, part), size)
              = AllText(ps, size) \o PartText(part, size, Len(AllSpent(ps, size)))
<1> DEFINE N == Len(ps)
           qs == Append(ps, part)
<1>1. N \in Nat /\ \A p \in 1..N : ps[p] \in PartsSet
  BY LenProperties, ElementOfSeq
<1>2. /\ Len(qs) = N + 1
      /\ \A p \in 1..N : qs[p] = ps[p]
      /\ qs[N + 1] = part
  BY AppendProperties
<1>3. KeysIn(qs, N + 1, K)
  BY <1>2 DEF Keyed
<1> HIDE DEF qs, N
<1>4. N + 1 \in Nat /\ N + 1 > 0 /\ (N + 1) - 1 = N /\ N + 1 \in 1..(N + 1) /\ \A p \in 1..N : p \in 1..(N + 1)
  BY <1>1
<1>5. KeysIn(ps, N, K) /\ KeysIn(qs, N, K) /\ (part.param => part.key \in K)
  BY <1>2, <1>3, <1>4 DEF KeysIn
<1>6. /\ SpentBy(ps, size, N) \in Seq(K \X Nat) /\ TextOf(ps, size, N) \in Seq(Chars)
  BY <1>1, <1>5, SpentNext, TextNext
<1>7. SpentBy(qs, size, N) = SpentBy(ps, size, N) /\ TextOf(qs, size, N) = TextOf(ps, size, N)
  BY <1>1, <1>2, PartsAgree
<1>8. SpentBy(qs, size, N + 1) = SpentBy(qs, size, N) \o PartValues(part, size)
  BY <1>2, <1>3, <1>4, SpentNext
<1>9. TextOf(qs, size, N + 1) = TextOf(qs, size, N) \o PartText(part, size, Len(SpentBy(qs, size, N)))
  <2>1. \A p \in 1..(N + 1) : qs[p] \in PartsSet
    <3>1. \A p \in 1..(N + 1) : p \in 1..N \/ p = N + 1
      BY <1>1
    <3> QED
      BY <1>1, <1>2, <3>1
  <2>2. TextOf(qs, size, N + 1) = TextOf(qs, size, (N + 1) - 1) \o TextAt(qs, size, N + 1)
    BY <1>3, <1>4, <2>1, TextNext
  <2> QED
    BY <1>2, <1>4, <2>2 DEF TextAt
<1> QED
  BY <1>2, <1>5, <1>6, <1>7, <1>8, <1>9 DEF Keyed, AllSpent, AllText, N, qs

(* Literal text, as a part of its own or added to the one before. *)
LEMMA LiteralSays ==
  ASSUME NEW ps \in Seq(PartsSet), NEW text \in Seq(Chars)
  PROVE  /\ AddLiteral(ps, text) \in Seq(PartsSet)
         /\ Slots(AddLiteral(ps, text)) = Slots(ps)
         /\ \A K : \A size \in [K -> Sizes] : Keyed(AddLiteral(ps, text), K) =>
              /\ Keyed(ps, K)
              /\ AllSpent(AddLiteral(ps, text), size) = AllSpent(ps, size)
              /\ AllText(AddLiteral(ps, text), size) = AllText(ps, size) \o text
<1>0. \A t \in Seq(Chars) : TextPart(t) \in PartsSet /\ TextPart(t).text = t /\ ~TextPart(t).param
  BY DEF TextPart, PartsSet
<1>1. CASE ps # << >> /\ ~Last(ps).param
  <2> DEFINE N == Len(ps)
             front == Front(ps)
             last == Last(ps)
             part == TextPart(last.text \o text)
  <2>1. AddLiteral(ps, text) = Append(front, part)
    BY <1>1 DEF AddLiteral
  <2>2. N \in Nat \ {0} /\ last \in PartsSet
    <3>1. N \in Nat \ {0}
      BY <1>1, EmptySeq
    <3>2. N \in 1..N
      BY <3>1
    <3> QED
      BY <3>1, <3>2, ElementOfSeq DEF Last
  <2>3. front \in Seq(PartsSet) /\ ps = Append(front, last)
    <3>1. \A p \in 1..(N - 1) : ps[p] \in PartsSet
      <4>1. \A p \in 1..(N - 1) : p \in 1..N
        BY <2>2
      <4> QED
        BY <4>1, ElementOfSeq
    <3>2. /\ front \in Seq(PartsSet)
          /\ Len(front) = IF 1 <= N - 1 THEN (N - 1) - 1 + 1 ELSE 0
          /\ \A p \in 1..((N - 1) - 1 + 1) : front[p] = ps[1 + p - 1]
      BY <2>2, <3>1, SubSeqProperties DEF Front
    <3> HIDE DEF front
    <3>3. Len(front) = N - 1 /\ \A p \in 1..(N - 1) : front[p] = ps[p]
      <4>1. /\ (N - 1) - 1 + 1 = N - 1 /\ (1 <= N - 1 \/ N - 1 = 0)
            /\ \A p \in 1..(N - 1) : 1 + p - 1 = p
        <5>1. N \in Nat \ {0}
          BY <2>2
        <5> HIDE DEF N, last
        <5> QED
          BY <5>1
      <4> QED
        BY <3>2, <4>1
    <3>4. /\ Append(front, last) \in Seq(PartsSet)
          /\ Len(Append(front, last)) = Len(front) + 1
          /\ \A p \in 1..Len(front) : Append(front, last)[p] = front[p]
          /\ Append(front, last)[Len(front) + 1] = last
      BY <2>2, <3>2, AppendProperties
    <3>5. \A p \in 1..N : p \in 1..(N - 1) \/ p = N
      BY <2>2
    <3>6. (N - 1) + 1 = N /\ last = ps[N]
      BY <2>2 DEF Last
    <3>7. \A p \in 1..N : ps[p] = Append(front, last)[p]
      BY <3>3, <3>4, <3>5, <3>6
    <3>8. Len(ps) = Len(Append(front, last))
      BY <3>3, <3>4, <3>6
    <3> QED
      BY <3>2, <3>4, <3>7, <3>8, SeqEqual
  <2>4. last.text \in Seq(Chars) /\ ~last.param
    BY <1>1, <2>2 DEF PartsSet
  <2>5. part \in PartsSet /\ part.text = last.text \o text /\ ~part.param
    <3>1. last.text \o text \in Seq(Chars)
      BY <2>4, ConcatProperties
    <3> QED
      BY <1>0, <3>1
  <2> HIDE DEF front, last, part
  <2>6. Append(front, part) \in Seq(PartsSet)
    BY <2>3, <2>5, AppendProperties
  <2>7. Slots(Append(front, part)) = Slots(Append(front, last))
    BY <2>2, <2>3, <2>4, <2>5, SlotsCount
  <2>8. ASSUME NEW K, NEW size \in [K -> Sizes], Keyed(Append(front, part), K)
        PROVE  /\ Keyed(ps, K)
               /\ AllSpent(Append(front, part), size) = AllSpent(ps, size)
               /\ AllText(Append(front, part), size) = AllText(ps, size) \o text
    <3>1. Keyed(ps, K)
      <4>1. /\ Len(Append(front, part)) = Len(ps)
            /\ \A p \in 1..Len(ps) : ps[p].param => ps[p] = Append(front, part)[p]
        <5>1. /\ Len(Append(front, part)) = Len(front) + 1 /\ Len(ps) = Len(front) + 1
              /\ \A p \in 1..Len(front) : Append(front, part)[p] = front[p] /\ ps[p] = front[p]
              /\ ps[Len(front) + 1] = last /\ Len(front) \in Nat
          BY <2>2, <2>3, <2>5, AppendProperties, LenProperties
        <5>2. \A p \in 1..Len(ps) : p \in 1..Len(front) \/ p = Len(front) + 1
          BY <5>1
        <5> QED
          BY <2>4, <5>1, <5>2
      <4> QED
        BY <2>8, <4>1 DEF Keyed, KeysIn
    <3>2. /\ AllSpent(front, size) \in Seq(K \X Nat) /\ AllText(front, size) \in Seq(Chars)
          /\ AllSpent(Append(front, part), size) = AllSpent(front, size) \o PartValues(part, size)
          /\ AllText(Append(front, part), size)
              = AllText(front, size) \o PartText(part, size, Len(AllSpent(front, size)))
      <4>1. front \in Seq(PartsSet) /\ part \in PartsSet /\ Keyed(Append(front, part), K)
        BY <2>3, <2>5, <2>8
      <4> QED
        BY <4>1, AppendSays
    <3>3. /\ AllSpent(ps, size) = AllSpent(front, size) \o PartValues(last, size)
          /\ AllText(ps, size)
              = AllText(front, size) \o PartText(last, size, Len(AllSpent(front, size)))
      <4>1. Keyed(Append(front, last), K)
        BY <2>3, <3>1
      <4>2. /\ AllSpent(Append(front, last), size) = AllSpent(front, size) \o PartValues(last, size)
            /\ AllText(Append(front, last), size)
                 = AllText(front, size) \o PartText(last, size, Len(AllSpent(front, size)))
        <5>1. front \in Seq(PartsSet) /\ last \in PartsSet
          BY <2>2, <2>3
        <5> QED
          BY <4>1, <5>1, AppendSays
      <4> QED
        BY <2>3, <4>2
    <3>4. PartValues(part, size) = << >> /\ PartValues(last, size) = << >>
      BY <2>4, <2>5 DEF PartValues
    <3>5. \A b : PartText(part, size, b) = last.text \o text /\ PartText(last, size, b) = last.text
      BY <2>4, <2>5 DEF PartText
    <3>6. \A a, b, c \in Seq(Chars) : (a \o b) \o c = a \o (b \o c)
      BY Associates
    <3>7. AllText(front, size) \in Seq(Chars)
      BY <3>2
    <3>8. (AllText(front, size) \o last.text) \o text = AllText(front, size) \o (last.text \o text)
      BY <2>4, <3>6, <3>7
    <3>9. AllText(Append(front, part), size) = AllText(front, size) \o (last.text \o text)
      BY <3>2, <3>5
    <3>10. AllText(ps, size) = AllText(front, size) \o last.text
      BY <3>3, <3>5
    <3> QED
      BY <3>1, <3>2, <3>3, <3>4, <3>8, <3>9, <3>10
  <2> QED
    BY <2>1, <2>3, <2>6, <2>7, <2>8
<1>2. CASE ~(ps # << >> /\ ~Last(ps).param)
  <2> DEFINE part == TextPart(text)
  <2>1. AddLiteral(ps, text) = Append(ps, part)
    BY <1>2 DEF AddLiteral
  <2>2. part \in PartsSet /\ part.text = text /\ ~part.param
    BY <1>0
  <2> HIDE DEF part
  <2>3. Append(ps, part) \in Seq(PartsSet) /\ Slots(Append(ps, part)) = Slots(ps)
    BY <2>2, AppendProperties, SlotsCount
  <2>4. ASSUME NEW K, NEW size \in [K -> Sizes], Keyed(Append(ps, part), K)
        PROVE  /\ Keyed(ps, K)
               /\ AllSpent(Append(ps, part), size) = AllSpent(ps, size)
               /\ AllText(Append(ps, part), size) = AllText(ps, size) \o text
    <3>1. /\ Keyed(ps, K) /\ AllSpent(ps, size) \in Seq(K \X Nat)
          /\ AllSpent(Append(ps, part), size) = AllSpent(ps, size) \o PartValues(part, size)
          /\ AllText(Append(ps, part), size)
              = AllText(ps, size) \o PartText(part, size, Len(AllSpent(ps, size)))
      BY <2>2, <2>4, AppendSays
    <3>2. PartValues(part, size) = << >> /\ \A b : PartText(part, size, b) = text
      BY <2>2 DEF PartValues, PartText
    <3>3. AllSpent(ps, size) \o << >> = AllSpent(ps, size)
      BY <3>1, ConcatEmptySeq
    <3> QED
      BY <3>1, <3>2, <3>3
  <2> QED
    BY <2>1, <2>3, <2>4
<1> QED
  BY <1>1, <1>2

-----------------------------------------------------------------------------
(* The parts of a statement that has been scanned. *)
LEMMA SlotPartIs ==
  ASSUME Scanned, NEW m \in 1..Len(toks), NEW ps \in Seq(PartsSet)
  PROVE  SlotPart(toks[m], ps) \in PartsSet /\ SlotPart(toks[m], ps).param
<1>1. Slots(ps) + 1 \in Nat
  BY SlotsCount
<1>2. SubSeq(sql, toks[m].lo + 1, toks[m].hi - 1) \in Seq(Chars)
  <2> DEFINE lo == toks[m].lo
             hi == toks[m].hi
  <2>0. sql \in Seq(Chars) /\ Len(sql) \in Nat /\ EndOf(sql) = Len(sql) + 1
    BY LenProperties DEF Scanned, Types, EndOf
  <2>1. lo \in Nat /\ hi \in Nat /\ 0 < lo /\ hi <= EndOf(sql)
    <3>1. /\ lo = From(m - 1) /\ hi = From(m)
          /\ \A k \in 0..Len(toks) : From(k) \in Nat /\ 0 < From(k) /\ From(k) <= EndOf(sql)
      BY Places
    <3>2. m - 1 \in 0..Len(toks) /\ m \in 0..Len(toks)
      BY Places
    <3> QED
      BY <3>1, <3>2
  <2> HIDE DEF lo, hi
  <2>2. \A k \in (lo + 1)..(hi - 1) : k \in 1..Len(sql)
    BY <2>0, <2>1
  <2>3. \A k \in (lo + 1)..(hi - 1) : sql[k] \in Chars
    BY <2>0, <2>2, ElementOfSeq
  <2>4. lo + 1 \in Int /\ hi - 1 \in Int
    BY <2>1
  <2>5. SubSeq(sql, lo + 1, hi - 1) \in Seq(Chars)
    BY <2>3, <2>4, SubSeqProperties
  <2> QED
    BY <2>5 DEF lo, hi
<1>3. << >> \in Seq(Chars)
  BY EmptySeq
<1> QED
  BY <1>1, <1>2, <1>3 DEF SlotPart, PartsSet

LEMMA AddTokenIn ==
  ASSUME Scanned, NEW m \in 1..Len(toks), NEW ps \in Seq(PartsSet)
  PROVE  AddToken(ps, toks[m]) \in Seq(PartsSet)
<1>1. CASE IsSlot(toks[m])
  <2>1. SlotPart(toks[m], ps) \in PartsSet
    BY SlotPartIs
  <2>2. Append(ps, SlotPart(toks[m], ps)) \in Seq(PartsSet)
    BY <2>1, AppendProperties
  <2> QED
    BY <1>1, <2>2 DEF AddToken
<1>2. CASE ~IsSlot(toks[m])
  <2>1. Literal(toks[m]) \in Seq(Chars)
    BY LiteralIs
  <2>2. AddLiteral(ps, Literal(toks[m])) \in Seq(PartsSet)
    BY <2>1, LiteralSays
  <2> QED
    BY <1>2, <2>2 DEF AddToken
<1> QED
  BY <1>1, <1>2

FoldsTo(of) ==
  /\ of[0] = << >>
  /\ \A n \in 1..Len(toks) : of[n] = AddToken(of[n - 1], toks[n])
  /\ Parts = of[Len(toks)]

LEMMA PartsDefined ==
  ASSUME Scanned
  PROVE  \E of \in [0..Len(toks) -> Seq(PartsSet)] : FoldsTo(of)
<1> DEFINE V == Seq(PartsSet)
           N == Len(toks)
           G(f) == [n \in 0..N |-> IF n = 0 THEN << >> ELSE AddToken(f[n - 1], toks[n])]
           step == [n \in (0 + 1)..N |-> [ps \in V |-> AddToken(ps, toks[n])]]
           of == CHOOSE f : f = G(f)
<1>1. Parts = of[N]
  BY DEF Parts
<1>2. N \in Nat
  BY Places
<1>3. \A n \in 1..N : \A ps \in V : AddToken(ps, toks[n]) \in V
  BY AddTokenIn
<1>4. << >> \in V
  BY EmptySeq
<1> HIDE DEF V, N
<1>5. step \in [(0 + 1)..N -> [V -> V]]
  <2>1. \A n \in (0 + 1)..N : n \in 1..N
    BY <1>2
  <2> QED
    BY <1>3, <2>1
<1>6. PICK f \in [0..N -> V] : StepsTo(f, 0, N, << >>, step)
  <2> HIDE DEF step
  <2>1. 0 \in Nat /\ 0 <= N
    BY <1>2
  <2> QED
    BY <1>2, <1>4, <1>5, <2>1, StepsDefine
<1>7. f = G(f)
  <2>1. ASSUME NEW n \in 0..N
        PROVE  f[n] = IF n = 0 THEN << >> ELSE AddToken(f[n - 1], toks[n])
    <3>1. f[n] = IF n = 0 THEN << >> ELSE step[n][f[n - 1]]
      BY <1>6 DEF StepsTo
    <3>2. CASE n # 0
      <4>1. n \in (0 + 1)..N /\ n - 1 \in 0..N
        BY <1>2, <3>2
      <4>2. f[n - 1] \in V
        BY <1>6, <4>1
      <4> QED
        BY <3>1, <3>2, <4>1, <4>2
    <3> QED
      BY <3>1, <3>2
  <2>2. f = [n \in 0..N |-> f[n]]
    BY <1>6
  <2> QED
    BY <2>1, <2>2
<1> HIDE DEF G
<1>8. of = G(of)
  BY <1>7
<1> HIDE DEF of
<1>9. of = [n \in 0..N |-> IF n = 0 THEN << >> ELSE AddToken(of[n - 1], toks[n])]
  BY <1>8 DEF G
<1>10. \A n \in 0..N : of[n] = IF n = 0 THEN << >> ELSE AddToken(of[n - 1], toks[n])
  BY <1>9, Zenon
<1>11. of = [n \in 0..N |-> of[n]]
  BY <1>9, <1>10, Zenon
<1> DEFINE S == {n \in Nat : n <= N => of[n] \in V}
<1>12. 0 \in S
  <2>1. 0 \in 0..N
    BY <1>2
  <2> QED
    BY <1>4, <1>10, <2>1
<1>13. ASSUME NEW n \in Nat, n \in S
       PROVE  n + 1 \in S
  <2> SUFFICES ASSUME n + 1 <= N
               PROVE  of[n + 1] \in V
    BY DEF S
  <2>1. n + 1 \in 0..N /\ n + 1 \in 1..N /\ n + 1 # 0 /\ (n + 1) - 1 = n /\ n <= N
    BY <1>2
  <2>2. of[n] \in V
    BY <1>13, <2>1
  <2>3. of[n + 1] = AddToken(of[(n + 1) - 1], toks[n + 1])
    BY <1>10, <2>1
  <2>4. of[n + 1] = AddToken(of[n], toks[n + 1])
    BY <2>1, <2>3
  <2> QED
    BY <1>3, <2>1, <2>2, <2>4
<1>14. \A n \in 0..N : of[n] \in V
  <2> HIDE DEF S
  <2>1. Nat \subseteq S
    BY <1>12, <1>13, SetInduction
  <2> TAKE n \in 0..N
  <2>2. n \in S /\ n <= N
    BY <1>2, <2>1
  <2> QED
    BY <2>2 DEF S
<1>15. of \in [0..N -> V]
  BY <1>11, <1>14
<1>16. of[0] = << >> /\ \A n \in 1..N : of[n] = AddToken(of[n - 1], toks[n])
  <2>1. 0 \in 0..N /\ \A n \in 1..N : n \in 0..N /\ n # 0
    BY <1>2
  <2> QED
    BY <1>10, <2>1
<1> QED
  BY <1>1, <1>15, <1>16 DEF FoldsTo, N, V

-----------------------------------------------------------------------------
(* The parts after n tokens say what a reader makes of the text up to there. *)
TheSlots == SlotsIn(ParamsOf(sql))

Sized == args.size \in [DOMAIN args.size -> Sizes]

TextsTo(k) == FlattenSeq([s \in 1..k |-> UpToSlot(ParamsOf(sql), TheSlots, s)])

Since(n) == TextBetween(ParamsOf(sql), EndAt(TheSlots, Rank(n)), From(n))

SlotsSay(k) ==
  \A s \in 1..k : /\ ValuesOf(TheSlots, s) \in Seq((DOMAIN args.size) \X Nat)
                  /\ UpToSlot(ParamsOf(sql), TheSlots, s) \in Seq(Chars)

Says(ps, n) ==
  /\ Slots(ps) = Rank(n)
  /\ /\ EndAt(TheSlots, Rank(n)) \in Nat
     /\ 0 < EndAt(TheSlots, Rank(n)) /\ EndAt(TheSlots, Rank(n)) <= From(n)
  /\ Keyed(ps, DOMAIN args.size) =>
       /\ SlotsSay(Rank(n))
       /\ AllSpent(ps, args.size) = ValuesBefore(TheSlots, Rank(n) + 1)
       /\ AllText(ps, args.size) = TextsTo(Rank(n)) \o Since(n)

LEMMA SaysFirst ==
  ASSUME Scanned, Sized
  PROVE  Says(<< >>, 0)
<1> DEFINE K == DOMAIN args.size
           size == args.size
<1>0. << >> \in Seq(PartsSet) /\ Len(<< >>) = 0
  BY EmptySeq
<1>1. Rank(0) = 0 /\ Slots(<< >>) = 0
  BY <1>0, SlotsGrow, SlotsCount
<1>2. EndAt(TheSlots, Rank(0)) = 1 /\ From(0) = 1
  BY <1>1 DEF EndAt, From
<1>3. KeysIn(<< >>, 0, K)
  BY DEF KeysIn
<1>4. size \in [K -> Sizes]
  BY DEF Sized
<1>5. AllSpent(<< >>, size) = << >>
  <2>1. SpentBy(<< >>, size, 0) = << >>
    <3> DEFINE f == [q \in 1..0 |-> PartValues(<< >>[q], size)]
    <3>1. f \in [1..0 -> Seq(K)] /\ 0 \in Nat /\ SpentBy(<< >>, size, 0) = FlattenSeq(f)
      BY DEF SpentBy
    <3> HIDE DEF f
    <3> QED
      BY <3>1, FlattenStep
  <2> QED
    BY <1>0, <2>1 DEF AllSpent
<1>6. AllText(<< >>, size) = << >>
  <2> HIDE DEF K, size
  <2>1. TextOf(<< >>, size, 0) = << >>
    BY <1>3, <1>4, TextNext
  <2> QED
    BY <1>0, <2>1 DEF AllText
<1>7. ValuesBefore(TheSlots, 0 + 1) = << >>
  <2> DEFINE f == [r \in 1..((0 + 1) - 1) |-> ValuesOf(TheSlots, r)]
  <2>1. f \in [1..0 -> Seq(K \X Nat)] /\ 0 \in Nat
    OBVIOUS
  <2>2. ValuesBefore(TheSlots, 0 + 1) = FlattenSeq(f)
    BY DEF ValuesBefore
  <2> HIDE DEF f
  <2> QED
    BY <2>1, <2>2, FlattenStep
<1>8. TextsTo(0) = << >>
  <2> DEFINE f == [s \in 1..0 |-> UpToSlot(ParamsOf(sql), TheSlots, s)]
  <2>1. f \in [1..0 -> Seq(Chars)] /\ 0 \in Nat
    OBVIOUS
  <2>2. TextsTo(0) = FlattenSeq(f)
    BY DEF TextsTo
  <2> HIDE DEF f
  <2> QED
    BY <2>1, <2>2, FlattenStep
<1>9. Since(0) = << >>
  <2>1. sql \in Seq(Chars) /\ 1 \in Nat /\ 0 < 1 /\ 1 <= 1 /\ 1 <= EndOf(sql)
    BY LenProperties DEF Scanned, Types, EndOf
  <2>2. TextBetween(ParamsOf(sql), 1, 1) = << >>
    BY <2>1, TextBetweenNext
  <2> QED
    BY <1>2, <2>2 DEF Since
<1>10. << >> \o << >> = << >>
  <2>1. << >> \in Seq(Chars)
    BY EmptySeq
  <2> QED
    BY <2>1, ConcatEmptySeq
<1>11. SlotsSay(0)
  BY DEF SlotsSay
<1>12. 1 \in Nat /\ 0 < 1 /\ 1 <= 1
  OBVIOUS
<1> QED
  BY <1>1, <1>2, <1>5, <1>6, <1>7, <1>8, <1>9, <1>10, <1>11, <1>12 DEF Says

(* What is typed so far. *)
LEMMA SaysTyped ==
  ASSUME Scanned, NEW n \in 0..Len(toks), SlotsSay(Rank(n)),
         EndAt(TheSlots, Rank(n)) \in Nat, 0 < EndAt(TheSlots, Rank(n)),
         EndAt(TheSlots, Rank(n)) <= From(n)
  PROVE  /\ TextsTo(Rank(n)) \in Seq(Chars) /\ Since(n) \in Seq(Chars)
         /\ ValuesBefore(TheSlots, Rank(n) + 1) \in Seq((DOMAIN args.size) \X Nat)
<1> DEFINE W == (DOMAIN args.size) \X Nat
           f == [s \in 1..Rank(n) |-> UpToSlot(ParamsOf(sql), TheSlots, s)]
           g == [r \in 1..((Rank(n) + 1) - 1) |-> ValuesOf(TheSlots, r)]
<1>1. Rank(n) \in Nat /\ (Rank(n) + 1) - 1 = Rank(n)
  BY SlotsGrow
<1>2. f \in [1..Rank(n) -> Seq(Chars)]
  BY DEF SlotsSay
<1>3. g \in [1..Rank(n) -> Seq(W)]
  BY <1>1 DEF SlotsSay
<1>4. TextsTo(Rank(n)) = FlattenSeq(f) /\ ValuesBefore(TheSlots, Rank(n) + 1) = FlattenSeq(g)
  BY DEF TextsTo, ValuesBefore
<1> HIDE DEF f, g, W
<1>5. FlattenSeq(f) \in Seq(Chars) /\ FlattenSeq(g) \in Seq(W)
  BY <1>1, <1>2, <1>3, FlattenStep
<1>6. Since(n) \in Seq(Chars)
  <2>1. sql \in Seq(Chars) /\ From(n) \in Nat /\ From(n) <= EndOf(sql)
    BY Places DEF Scanned, Types
  <2>2. TextBetween(ParamsOf(sql), EndAt(TheSlots, Rank(n)), From(n)) \in Seq(Chars)
    BY <2>1, TextBetweenNext
  <2> QED
    BY <2>2 DEF Since
<1> QED
  BY <1>4, <1>5, <1>6 DEF W

LEMMA SaysLiteral ==
  ASSUME Scanned, Sized, NEW m \in 1..Len(toks), ~IsSlot(toks[m]),
         NEW ps \in Seq(PartsSet), Says(ps, m - 1)
  PROVE  Says(AddToken(ps, toks[m]), m)
<1> DEFINE n == m - 1
           text == Literal(toks[m])
           P == ParamsOf(sql)
           qs == AddToken(ps, toks[m])
           E == EndAt(TheSlots, Rank(n))
           K == DOMAIN args.size
<1>1. /\ n \in 0..Len(toks) /\ m \in 0..Len(toks)
      /\ From(n) \in Nat /\ From(m) \in Nat /\ 0 < From(n) /\ From(n) < From(m) /\ From(m) <= EndOf(sql)
  <2>1. /\ Len(toks) \in Nat
        /\ \A k \in 0..Len(toks) : From(k) \in Nat /\ 0 < From(k) /\ From(k) <= EndOf(sql)
        /\ \A a, b \in 0..Len(toks) : a < b => From(a) < From(b)
    BY Places
  <2>2. n \in 0..Len(toks) /\ m \in 0..Len(toks) /\ n < m
    BY <2>1
  <2> QED
    BY <2>1, <2>2
<1>2. Rank(m) = Rank(n)
  BY SlotsGrow
<1>3. text \in Seq(Chars) /\ TextBetween(P, From(n), From(m)) = text
  BY LiteralIs
<1>4. qs = AddLiteral(ps, text)
  BY DEF AddToken
<1> HIDE DEF text, qs, n, P
<1>5. /\ Slots(qs) = Slots(ps)
      /\ \A KK : \A size \in [KK -> Sizes] : Keyed(qs, KK) =>
              /\ Keyed(ps, KK)
              /\ AllSpent(qs, size) = AllSpent(ps, size)
              /\ AllText(qs, size) = AllText(ps, size) \o text
  <2>1. text \in Seq(Chars) /\ ps \in Seq(PartsSet)
    BY <1>3
  <2>2. /\ Slots(AddLiteral(ps, text)) = Slots(ps)
        /\ \A KK : \A size \in [KK -> Sizes] : Keyed(AddLiteral(ps, text), KK) =>
              /\ Keyed(ps, KK)
              /\ AllSpent(AddLiteral(ps, text), size) = AllSpent(ps, size)
              /\ AllText(AddLiteral(ps, text), size) = AllText(ps, size) \o text
    BY <2>1, LiteralSays
  <2> QED
    BY <1>4, <2>2
<1>6. /\ Slots(ps) = Rank(n)
      /\ E \in Nat /\ 0 < E /\ E <= From(n)
      /\ Keyed(ps, K) =>
         /\ SlotsSay(Rank(n))
         /\ AllSpent(ps, args.size) = ValuesBefore(TheSlots, Rank(n) + 1)
         /\ AllText(ps, args.size) = TextsTo(Rank(n)) \o Since(n)
  BY DEF Says, n
<1>7. Slots(qs) = Rank(m)
  BY <1>2, <1>5, <1>6
<1>8. EndAt(TheSlots, Rank(m)) = E
  BY <1>2
<1> HIDE DEF E
<1>9. E \in Nat /\ 0 < E /\ E <= From(m)
  BY <1>1, <1>6
<1>10. Since(m) = Since(n) \o text
  <2>1. sql \in Seq(Chars)
    BY DEF Scanned, Types
  <2>2. From(n) <= From(m)
    BY <1>1
  <2>3. TextBetween(P, E, From(m)) = TextBetween(P, E, From(n)) \o TextBetween(P, From(n), From(m))
    BY <1>1, <1>6, <2>1, <2>2, TextBetweenJoins
  <2> QED
    BY <1>2, <1>3, <2>3 DEF Since, E, P
<1>11. ASSUME Keyed(qs, K)
       PROVE  /\ SlotsSay(Rank(m))
              /\ AllSpent(qs, args.size) = ValuesBefore(TheSlots, Rank(m) + 1)
              /\ AllText(qs, args.size) = TextsTo(Rank(m)) \o Since(m)
  <2>1. args.size \in [K -> Sizes]
    BY DEF Sized
  <2>2. /\ Keyed(ps, K)
        /\ AllSpent(qs, args.size) = AllSpent(ps, args.size)
        /\ AllText(qs, args.size) = AllText(ps, args.size) \o text
    BY <1>5, <1>11, <2>1
  <2>3. /\ SlotsSay(Rank(n))
        /\ AllSpent(ps, args.size) = ValuesBefore(TheSlots, Rank(n) + 1)
        /\ AllText(ps, args.size) = TextsTo(Rank(n)) \o Since(n)
    BY <1>6, <2>2
  <2>4. TextsTo(Rank(n)) \in Seq(Chars) /\ Since(n) \in Seq(Chars)
    BY <1>1, <1>6, <2>3, SaysTyped DEF E
  <2>6. (TextsTo(Rank(n)) \o Since(n)) \o text = TextsTo(Rank(n)) \o (Since(n) \o text)
    BY <1>3, <2>4, Associates
  <2> QED
    BY <1>2, <1>10, <2>2, <2>3, <2>6
<1>12. Says(qs, m)
  BY <1>7, <1>8, <1>9, <1>11 DEF Says
<1> QED
  BY <1>12 DEF qs

LEMMA SaysSlot ==
  ASSUME Scanned, Sized, NEW m \in 1..Len(toks), IsSlot(toks[m]),
         NEW ps \in Seq(PartsSet), Says(ps, m - 1)
  PROVE  Says(AddToken(ps, toks[m]), m)
<1> DEFINE n == m - 1
           part == SlotPart(toks[m], ps)
           P == ParamsOf(sql)
           qs == AddToken(ps, toks[m])
           k == Rank(n)
           E == EndAt(TheSlots, k)
           K == DOMAIN args.size
           size == args.size
<1>1. /\ n \in 0..Len(toks) /\ m \in 0..Len(toks)
      /\ From(n) \in Nat /\ From(m) \in Nat /\ 0 < From(n) /\ From(n) < From(m) /\ From(m) <= EndOf(sql)
      /\ toks[m].lo = From(n) /\ toks[m].hi = From(m)
  <2>1. /\ Len(toks) \in Nat
        /\ \A j \in 0..Len(toks) : From(j) \in Nat /\ 0 < From(j) /\ From(j) <= EndOf(sql)
        /\ \A a, b \in 0..Len(toks) : a < b => From(a) < From(b)
        /\ \A j \in 1..Len(toks) : toks[j].lo = From(j - 1) /\ toks[j].hi = From(j)
    BY Places
  <2>2. n \in 0..Len(toks) /\ m \in 0..Len(toks) /\ n < m
    BY <2>1
  <2> QED
    BY <2>1, <2>2
<1>2. /\ k \in Nat /\ Rank(m) = k + 1 /\ (k + 1) - 1 = k /\ k + 1 # 0 /\ k + 1 \in Nat
      /\ \A s \in 1..(k + 1) : s \in 1..k \/ s = k + 1
      /\ k + 1 \in 1..(k + 1)
  <2>1. k \in Nat /\ Rank(m) = k + 1
    BY <1>1, SlotsGrow
  <2> HIDE DEF k
  <2> QED
    BY <2>1
<1>3. TheSlots[k + 1] = toks[m]
  BY SlotsAre DEF TheSlots
<1>4. qs = Append(ps, part)
  BY DEF AddToken
<1>5. part \in PartsSet /\ part.param
  BY SlotPartIs
<1>6. part.key = IF toks[m].kind = "named" THEN SubSeq(sql, toks[m].lo + 1, toks[m].hi - 1) ELSE Slots(ps) + 1
  BY DEF SlotPart
<1> HIDE DEF part, qs, n, k, P, E
<1>7. /\ Slots(ps) = k
      /\ E \in Nat /\ 0 < E /\ E <= From(n)
      /\ Keyed(ps, K) =>
         /\ SlotsSay(k)
         /\ AllSpent(ps, size) = ValuesBefore(TheSlots, k + 1)
         /\ AllText(ps, size) = TextsTo(k) \o Since(n)
  BY DEF Says, n, k, E
<1>8. Slots(qs) = k + 1
  BY <1>4, <1>5, <1>7, SlotsCount
<1>9. EndAt(TheSlots, k + 1) = From(m)
  BY <1>1, <1>2, <1>3 DEF EndAt
<1>10. Since(m) = << >>
  <2>1. sql \in Seq(Chars) /\ From(m) <= From(m) /\ 0 < From(m)
    BY <1>1 DEF Scanned, Types
  <2>2. TextBetween(P, From(m), From(m)) = << >>
    BY <1>1, <2>1, TextBetweenNext
  <2> QED
    BY <1>2, <1>9, <2>2 DEF Since, P
<1>11. KeyOf(TheSlots, k + 1) = part.key
  BY <1>3, <1>6, <1>7 DEF KeyOf
<1>12. ValuesOf(TheSlots, k + 1) = PartValues(part, size)
  BY <1>5, <1>11 DEF ValuesOf, PartValues
<1>13. ASSUME Keyed(qs, K)
       PROVE  /\ SlotsSay(Rank(m))
              /\ AllSpent(qs, size) = ValuesBefore(TheSlots, Rank(m) + 1)
              /\ AllText(qs, size) = TextsTo(Rank(m)) \o Since(m)
  <2>0. size \in [K -> Sizes]
    BY DEF Sized
  <2>1. /\ Keyed(ps, K) /\ part.key \in K
        /\ AllSpent(ps, size) \in Seq(K \X Nat) /\ AllText(ps, size) \in Seq(Chars)
        /\ AllSpent(qs, size) = AllSpent(ps, size) \o PartValues(part, size)
        /\ AllText(qs, size) = AllText(ps, size) \o PartText(part, size, Len(AllSpent(ps, size)))
    BY <1>4, <1>5, <1>13, <2>0, AppendSays
  <2>2. /\ SlotsSay(k)
        /\ AllSpent(ps, size) = ValuesBefore(TheSlots, k + 1)
        /\ AllText(ps, size) = TextsTo(k) \o Since(n)
    BY <1>7, <2>1
  <2> DEFINE b == Len(AllSpent(ps, size))
             c == Len(PartValues(part, size))
             pt == PartText(part, size, b)
  <2>3. PartValues(part, size) \in Seq(K \X Nat)
    BY <2>0, <2>1, PartValuesIn
  <2>4. b \in Nat /\ c \in Nat
    BY <2>1, <2>3, LenProperties
  <2>5. pt \in Seq(Chars)
    BY <1>5, <2>0, <2>1, <2>4, PartTextIn
  <2>6. PlaceholdersOf(TheSlots, k + 1) = pt
    <3>1. b = Len(ValuesBefore(TheSlots, k + 1)) /\ c = Len(ValuesOf(TheSlots, k + 1))
      BY <1>12, <2>2
    <3>2. PlaceholdersOf(TheSlots, k + 1)
            = IF c = 0 THEN <<"N">>
              ELSE Tail(FlattenSeq([e \in 1..c |-> <<",">> \o Placeholder(b + e)]))
      BY <3>1 DEF PlaceholdersOf
    <3>3. pt = IF c = 0 THEN <<"N">> ELSE SliceText(c, b)
      BY <1>5 DEF PartText
    <3> HIDE DEF pt, b, c
    <3>4. c # 0 => c > 0
      BY <2>4
    <3>5. c > 0 => Tail(FlattenSeq([e \in 1..c |-> <<",">> \o Placeholder(b + e)])) = SliceText(c, b)
      BY <2>4, SliceIs
    <3> QED
      BY <3>2, <3>3, <3>4, <3>5
  <2> HIDE DEF pt, b, c
  <2>7. UpToSlot(P, TheSlots, k + 1) = Since(n) \o pt
    <3>1. UpToSlot(P, TheSlots, k + 1)
            = TextBetween(P, EndAt(TheSlots, (k + 1) - 1), TheSlots[k + 1].lo) \o PlaceholdersOf(TheSlots, k + 1)
      BY DEF UpToSlot
    <3>2. TextBetween(P, EndAt(TheSlots, (k + 1) - 1), TheSlots[k + 1].lo) = Since(n)
      BY <1>1, <1>2, <1>3 DEF Since, P, k
    <3> QED
      BY <2>6, <3>1, <3>2
  <2>8. TextsTo(k) \in Seq(Chars) /\ Since(n) \in Seq(Chars) /\ ValuesBefore(TheSlots, k + 1) \in Seq(K \X Nat)
    BY <1>1, <1>7, <2>2, SaysTyped DEF E, k
  <2>9. UpToSlot(P, TheSlots, k + 1) \in Seq(Chars)
    <3>1. Since(n) \o pt \in Seq(Chars)
      BY <2>5, <2>8, ConcatProperties
    <3> QED
      BY <2>7, <3>1
  <2>10. SlotsSay(k + 1)
    <3>1. \A s \in 1..k : /\ ValuesOf(TheSlots, s) \in Seq(K \X Nat)
                          /\ UpToSlot(P, TheSlots, s) \in Seq(Chars)
      BY <2>2 DEF SlotsSay, P
    <3>2. ASSUME NEW s \in 1..(k + 1)
          PROVE  ValuesOf(TheSlots, s) \in Seq(K \X Nat) /\ UpToSlot(P, TheSlots, s) \in Seq(Chars)
      <4>1. CASE s \in 1..k
        BY <3>1, <4>1
      <4>2. CASE s = k + 1
        BY <1>12, <2>3, <2>9, <4>2
      <4> QED
        BY <1>2, <4>1, <4>2
    <3> QED
      BY <3>2 DEF SlotsSay, P
  <2>11. TextsTo(k + 1) = TextsTo(k) \o UpToSlot(P, TheSlots, k + 1)
    <3> DEFINE f == [s \in 1..k |-> UpToSlot(P, TheSlots, s)]
               g == [s \in 1..(k + 1) |-> UpToSlot(P, TheSlots, s)]
    <3>0. \A s \in 1..k : s \in 1..(k + 1)
      BY <1>2
    <3>1. f \in [1..k -> Seq(Chars)] /\ g \in [1..(k + 1) -> Seq(Chars)] /\ \A s \in 1..k : g[s] = f[s]
      BY <2>10, <3>0 DEF SlotsSay, P
    <3>2. g[k + 1] = UpToSlot(P, TheSlots, k + 1) /\ TextsTo(k) = FlattenSeq(f) /\ TextsTo(k + 1) = FlattenSeq(g)
      BY <1>2 DEF TextsTo, P
    <3> HIDE DEF f, g
    <3>3. FlattenSeq(g) = FlattenSeq(f) \o g[k + 1]
      BY <1>2, <3>1, FlattenNext
    <3> QED
      BY <3>2, <3>3
  <2>12. ValuesBefore(TheSlots, (k + 1) + 1) = ValuesBefore(TheSlots, k + 1) \o ValuesOf(TheSlots, k + 1)
    <3> DEFINE f == [r \in 1..((k + 1) - 1) |-> ValuesOf(TheSlots, r)]
               g == [r \in 1..(((k + 1) + 1) - 1) |-> ValuesOf(TheSlots, r)]
               W == K \X Nat
    <3>0. (\A s \in 1..k : s \in 1..(k + 1)) /\ ((k + 1) + 1) - 1 = k + 1
      BY <1>2
    <3>1. f \in [1..k -> Seq(W)] /\ g \in [1..(k + 1) -> Seq(W)] /\ \A s \in 1..k : g[s] = f[s]
      BY <1>2, <2>10, <3>0 DEF SlotsSay
    <3>2. /\ g[k + 1] = ValuesOf(TheSlots, k + 1)
          /\ ValuesBefore(TheSlots, k + 1) = FlattenSeq(f) /\ ValuesBefore(TheSlots, (k + 1) + 1) = FlattenSeq(g)
      BY <1>2, <3>0 DEF ValuesBefore
    <3> HIDE DEF f, g, W
    <3>3. FlattenSeq(g) = FlattenSeq(f) \o g[k + 1]
      BY <1>2, <3>1, FlattenNext
    <3> QED
      BY <3>2, <3>3
  <2>13. AllSpent(qs, size) = ValuesBefore(TheSlots, (k + 1) + 1)
    BY <1>12, <2>1, <2>2, <2>12
  <2>14. AllText(qs, size) = TextsTo(k + 1) \o << >>
    <3>2. (TextsTo(k) \o Since(n)) \o pt = TextsTo(k) \o (Since(n) \o pt)
      BY <2>5, <2>8, Associates
    <3>3. AllText(qs, size) = TextsTo(k + 1)
      BY <2>1, <2>2, <2>7, <2>11, <3>2 DEF pt, b
    <3>4. TextsTo(k) \o UpToSlot(P, TheSlots, k + 1) \in Seq(Chars)
      BY <2>8, <2>9, ConcatProperties
    <3>5. TextsTo(k + 1) \in Seq(Chars)
      BY <2>11, <3>4
    <3>6. TextsTo(k + 1) \o << >> = TextsTo(k + 1)
      BY <3>5, ConcatEmptySeq
    <3> QED
      BY <3>3, <3>6
  <2> QED
    BY <1>2, <1>10, <2>10, <2>13, <2>14
<1>14. From(m) <= From(m) /\ 0 < From(m)
  BY <1>1
<1>15. Says(qs, m)
  BY <1>1, <1>2, <1>8, <1>9, <1>13, <1>14 DEF Says
<1> QED
  BY <1>15 DEF qs

(* So do all the parts. *)
LEMMA PartsSay ==
  ASSUME Scanned, Sized
  PROVE  Parts \in Seq(PartsSet) /\ Says(Parts, Len(toks))
<1> DEFINE N == Len(toks)
<1>1. N \in Nat
  BY Places
<1>2. PICK of \in [0..N -> Seq(PartsSet)] : FoldsTo(of)
  BY PartsDefined
<1> DEFINE S == {n \in Nat : n <= N => Says(of[n], n)}
<1>3. 0 \in S
  BY <1>2, SaysFirst DEF FoldsTo
<1>4. ASSUME NEW n \in Nat, n \in S
      PROVE  n + 1 \in S
  <2> SUFFICES ASSUME n + 1 <= N
               PROVE  Says(of[n + 1], n + 1)
    BY DEF S
  <2>1. n + 1 \in 1..N /\ (n + 1) - 1 = n /\ n \in 0..N /\ n <= N
    BY <1>1
  <2>2. of[n + 1] = AddToken(of[n], toks[n + 1]) /\ of[n] \in Seq(PartsSet)
    BY <1>2, <2>1 DEF FoldsTo
  <2>3. Says(of[n], (n + 1) - 1)
    BY <1>4, <2>1
  <2>4. Says(AddToken(of[n], toks[n + 1]), n + 1)
    BY <2>1, <2>2, <2>3, SaysLiteral, SaysSlot
  <2> QED
    BY <2>2, <2>4
<1>5. N \in S
  <2> HIDE DEF S
  <2> QED
    BY <1>1, <1>3, <1>4, SetInduction
<1>6. Says(of[N], N)
  BY <1>1, <1>5
<1>7. N \in 0..N
  BY <1>1
<1> QED
  BY <1>2, <1>6, <1>7 DEF FoldsTo

-----------------------------------------------------------------------------
(* What has been rendered is what the parts before at say. *)
RenderInv ==
  /\ pc \in {"lex", "compile", "bind"} => at = 1 /\ buf = << >> /\ out = << >>
  /\ pc # "done" => result = "none"
  /\ pc \in {"bind", "render"} \/ result = "ok" => style = Style /\ parts = Parts /\ ~Mixed
  /\ pc = "render" =>
       /\ Sized
       /\ at \in 1..(Len(parts) + 1)
       /\ KeysIn(parts, at - 1, DOMAIN args.size)
       /\ buf = TextOf(parts, args.size, at - 1)
       /\ out = SpentBy(parts, args.size, at - 1)
  /\ result = "ok" =>
       /\ Sized
       /\ IF style \in {"named", "ordinal"}
          THEN /\ Keyed(parts, DOMAIN args.size)
               /\ buf = AllText(parts, args.size)
               /\ out = AllSpent(parts, args.size)
          ELSE /\ buf = FlattenSeq([p \in DOMAIN parts |-> parts[p].text])
               /\ out = [p \in DOMAIN args.size |-> <<p, 0>>]

(* A statement without slots is its text. *)
LEMMA NoSlots ==
  ASSUME Scanned, Sized, Style \notin {"named", "ordinal"}
  PROVE  /\ Rank(Len(toks)) = 0
         /\ Keyed(Parts, DOMAIN args.size)
         /\ AllText(Parts, args.size) = FlattenSeq([p \in DOMAIN Parts |-> Parts[p].text])
<1> DEFINE N == Len(toks)
<1>1. N \in Nat /\ DOMAIN toks = 1..N
  BY Places
<1>2. ~Has("named") /\ ~Has("ordinal")
  BY DEF Style
<1>3. \A m \in 1..N : ~IsSlot(toks[m])
  BY <1>1, <1>2 DEF IsSlot, Has, Range
<1>4. SlotsTo(N) = {}
  BY <1>3 DEF SlotsTo
<1>5. Rank(N) = 0
  BY <1>4, FS_EmptySet DEF Rank
<1>6. Parts \in Seq(PartsSet) /\ Slots(Parts) = 0
  BY <1>5, PartsSay DEF Says
<1>7. Len(Parts) \in Nat /\ DOMAIN Parts = 1..Len(Parts)
  BY <1>6, LenProperties
<1>8. {p \in DOMAIN Parts : Parts[p].param} = {}
  <2>1. IsFiniteSet(1..Len(Parts))
    BY <1>7, FS_Interval
  <2>2. IsFiniteSet({p \in DOMAIN Parts : Parts[p].param})
    BY <1>7, <2>1, FS_Subset
  <2> QED
    BY <1>6, <2>2, FS_EmptySet DEF Slots
<1>9. \A p \in 1..Len(Parts) : ~Parts[p].param
  BY <1>7, <1>8
<1>10. \A p \in 1..Len(Parts) : TextAt(Parts, args.size, p) = Parts[p].text
  BY <1>9 DEF TextAt, PartText
<1>11. [p \in 1..Len(Parts) |-> TextAt(Parts, args.size, p)] = [p \in 1..Len(Parts) |-> Parts[p].text]
  BY <1>10
<1>12. AllText(Parts, args.size) = FlattenSeq([p \in DOMAIN Parts |-> Parts[p].text])
  BY <1>7, <1>11 DEF AllText, TextOf
<1>13. Keyed(Parts, DOMAIN args.size)
  BY <1>9 DEF Keyed, KeysIn
<1> QED
  BY <1>5, <1>12, <1>13

LEMMA InvRenders ==
  ASSUME Scanned, RenderInv
  PROVE  RendersStatement
<1> SUFFICES ASSUME result = "ok"
             PROVE  /\ buf = FlattenSeq([s \in DOMAIN TheSlots |-> UpToSlot(ParamsOf(sql), TheSlots, s)])
                              \o TextBetween(ParamsOf(sql), EndAt(TheSlots, Len(TheSlots)), EndOf(sql))
                    /\ out = IF TheSlots # << >> THEN ValuesBefore(TheSlots, Len(TheSlots) + 1)
                             ELSE [p \in DOMAIN args.size |-> <<p, 0>>]
  BY DEF RendersStatement, TheSlots
<1> DEFINE N == Len(toks)
           K == DOMAIN args.size
<1>1. Sized /\ style = Style /\ parts = Parts
  BY DEF RenderInv
<1>2. /\ TheSlots \in Seq(Range(TheSlots)) /\ Len(TheSlots) = Rank(N) /\ DOMAIN TheSlots = 1..Rank(N)
  BY SlotsAre DEF TheSlots
<1>3. From(N) = EndOf(sql) /\ N \in Nat /\ N \in 0..N /\ DOMAIN toks = 1..N
  BY Places
<1>4. Keyed(Parts, K) =>
        /\ AllSpent(Parts, args.size) = ValuesBefore(TheSlots, Rank(N) + 1)
        /\ AllText(Parts, args.size) = TextsTo(Rank(N)) \o Since(N)
  BY <1>1, PartsSay DEF Says
<1>5. TextsTo(Rank(N)) \o Since(N)
        = FlattenSeq([s \in DOMAIN TheSlots |-> UpToSlot(ParamsOf(sql), TheSlots, s)])
            \o TextBetween(ParamsOf(sql), EndAt(TheSlots, Len(TheSlots)), EndOf(sql))
  BY <1>2, <1>3 DEF TextsTo, Since
<1>6. CASE style \in {"named", "ordinal"}
  <2>1. Keyed(Parts, K) /\ buf = AllText(Parts, args.size) /\ out = AllSpent(Parts, args.size)
    BY <1>1, <1>6 DEF RenderInv
  <2>2. TheSlots # << >>
    <3>1. Has("named") \/ (Has("ordinal") /\ Style = "ordinal")
      BY <1>1, <1>6 DEF Style
    <3>2. PICK m \in 1..N : IsSlot(toks[m])
      BY <1>3, <3>1 DEF Has, Range, IsSlot
    <3>3. TheSlots[Rank(m - 1) + 1] = toks[m] /\ m - 1 \in 0..N /\ m \in 0..N /\ m <= N
      BY <1>3, <3>2, SlotsAre DEF TheSlots
    <3>4. Rank(m) = Rank(m - 1) + 1 /\ Rank(m) <= Rank(N) /\ Rank(m - 1) \in Nat /\ Rank(N) \in Nat
      BY <1>3, <3>2, <3>3, SlotsGrow
    <3>5. Len(TheSlots) # 0
      BY <1>2, <3>4
    <3> QED
      BY <3>5, EmptySeq
  <2> QED
    BY <1>2, <1>4, <1>5, <2>1, <2>2
<1>7. CASE style \notin {"named", "ordinal"}
  <2>1. /\ buf = FlattenSeq([p \in DOMAIN parts |-> parts[p].text])
        /\ out = [p \in DOMAIN args.size |-> <<p, 0>>]
    BY <1>7 DEF RenderInv
  <2>2. /\ Rank(N) = 0
        /\ Keyed(Parts, K)
        /\ AllText(Parts, args.size) = FlattenSeq([p \in DOMAIN Parts |-> Parts[p].text])
    BY <1>1, <1>7, NoSlots
  <2>3. TheSlots = << >>
    BY <1>2, <2>2, EmptySeq
  <2>4. buf = TextsTo(Rank(N)) \o Since(N)
    BY <1>1, <1>4, <2>1, <2>2
  <2> QED
    BY <1>5, <2>1, <2>3, <2>4
<1> QED
  BY <1>6, <1>7

(* One part more is rendered. *)
LEMMA RenderedStep ==
  ASSUME Scanned, RenderInv, pc = "render", at <= Len(parts), NEW text, NEW values,
         parts[at].param => parts[at].key \in DOMAIN args.size,
         text = TextAt(parts, args.size, at), values = PartValues(parts[at], args.size)
  PROVE  /\ at + 1 \in 1..(Len(parts) + 1)
         /\ KeysIn(parts, (at + 1) - 1, DOMAIN args.size)
         /\ buf \o text = TextOf(parts, args.size, (at + 1) - 1)
         /\ out \o values = SpentBy(parts, args.size, (at + 1) - 1)
<1> DEFINE K == DOMAIN args.size
           size == args.size
           L == Len(parts)
<1>1. /\ size \in [K -> Sizes] /\ parts \in Seq(PartsSet)
      /\ at \in 1..(L + 1) /\ KeysIn(parts, at - 1, K)
      /\ buf = TextOf(parts, size, at - 1) /\ out = SpentBy(parts, size, at - 1)
  BY PartsSay DEF RenderInv, Sized
<1>2. L \in Nat /\ \A q \in 1..L : parts[q] \in PartsSet
  BY <1>1, LenProperties, ElementOfSeq
<1> HIDE DEF K, size, L
<1>3. /\ at \in Nat /\ at > 0 /\ at \in 1..L /\ (at + 1) - 1 = at /\ at + 1 \in 1..(L + 1)
      /\ \A q \in 1..at : q \in 1..L /\ (q \in 1..(at - 1) \/ q = at)
  BY <1>1, <1>2 DEF L
<1>4. KeysIn(parts, at, K)
  BY <1>1, <1>3 DEF KeysIn, K
<1>5. SpentBy(parts, size, at) = SpentBy(parts, size, at - 1) \o PartValues(parts[at], size)
  BY <1>1, <1>3, <1>4, SpentNext
<1>6. TextOf(parts, size, at) = TextOf(parts, size, at - 1) \o TextAt(parts, size, at)
  BY <1>1, <1>2, <1>3, <1>4, TextNext
<1> QED
  BY <1>1, <1>3, <1>4, <1>5, <1>6 DEF K, size, L

-----------------------------------------------------------------------------
LEMMA SameParts ==
  ASSUME UNCHANGED <<sql, toks>>
  PROVE  Style' = Style /\ Parts' = Parts /\ Mixed' = Mixed
BY DEF Style, Mixed, Has, Parts, AddToken, IsSlot, Literal, SlotPart

(* While the statement is scanned nothing is rendered. *)
LEMMA IdleStep ==
  ASSUME RenderInv, UNCHANGED <<style, parts, args, at, buf, out, result>>,
         pc \in {"lex", "compile"}, pc' \in {"lex", "compile"}
  PROVE  RenderInv'
<1>1. /\ at = 1 /\ buf = << >> /\ out = << >> /\ result = "none"
      /\ pc' # "done" /\ pc' # "render" /\ pc' # "bind" /\ result # "ok"
  BY DEF RenderInv
<1>2. at' = 1 /\ buf' = << >> /\ out' = << >> /\ result' = "none" /\ result' # "ok"
  BY <1>1
<1> QED
  BY <1>1, <1>2 DEF RenderInv

(* A call that ends with an error promises nothing. *)
LEMMA StopStep ==
  ASSUME pc' = "done", result' # "ok"
  PROVE  RenderInv'
BY DEF RenderInv

LEMMA SameStep ==
  ASSUME RenderInv, UNCHANGED vars
  PROVE  RenderInv'
<1>1. UNCHANGED <<sql, toks, pc, style, parts, args, at, buf, out, result>>
  BY DEF vars, lexVars, planVars, renderVars
<1>2. Style' = Style /\ Parts' = Parts /\ Mixed' = Mixed
  BY <1>1, SameParts
<1> QED
  BY <1>1, <1>2 DEF RenderInv, Sized

LEMMA PartsIn ==
  ASSUME Scanned
  PROVE  Parts \in Seq(PartsSet)
<1>1. PICK of \in [0..Len(toks) -> Seq(PartsSet)] : FoldsTo(of)
  BY PartsDefined
<1>2. Len(toks) \in 0..Len(toks)
  BY Places
<1> QED
  BY <1>1, <1>2 DEF FoldsTo

LEMMA ScannedThen ==
  ASSUME IInv, ScanInv, pc # "lex"
  PROVE  Scanned
BY TilesInParts DEF IInv, ScanInv, Scanned

LEMMA NothingSaid ==
  ASSUME NEW ps, NEW size
  PROVE  TextOf(ps, size, 0) = << >> /\ SpentBy(ps, size, 0) = << >>
<1> DEFINE f == [q \in 1..0 |-> PartValues(ps[q], size)]
           g == [q \in 1..0 |-> TextAt(ps, size, q)]
<1>1. f \in [1..0 -> Seq({})] /\ g \in [1..0 -> Seq({})] /\ 0 \in Nat
  OBVIOUS
<1>2. SpentBy(ps, size, 0) = FlattenSeq(f) /\ TextOf(ps, size, 0) = FlattenSeq(g)
  BY DEF SpentBy, TextOf
<1> HIDE DEF f, g
<1>3. FlattenSeq(f) = << >> /\ FlattenSeq(g) = << >>
  BY <1>1, FlattenStep
<1> QED
  BY <1>2, <1>3

LEMMA OutLen ==
  ASSUME RenderInv, pc = "render"
  PROVE  Len(out) \in Nat
<1>1. /\ Sized /\ at \in 1..(Len(parts) + 1) /\ KeysIn(parts, at - 1, DOMAIN args.size)
      /\ out = SpentBy(parts, args.size, at - 1)
  BY DEF RenderInv
<1> DEFINE W == (DOMAIN args.size) \X Nat
<1>2. at - 1 \in Nat
  BY <1>1
<1>3. out \in Seq(W)
  BY <1>1, <1>2, SpentNext DEF Sized
<1> HIDE DEF W
<1> QED
  BY <1>3, LenProperties

LEMMA CompileStep ==
  ASSUME RenderInv, Compile
  PROVE  RenderInv'
<1>1. /\ pc = "compile" /\ pc' = "bind" /\ ~Mixed /\ style' = Style /\ parts' = Parts
      /\ UNCHANGED <<sql, toks, args, at, buf, out, result>>
  BY DEF Compile, GoTo, renderVars
<1>2. Style' = Style /\ Parts' = Parts /\ Mixed' = Mixed
  BY <1>1, SameParts
<1>3. at = 1 /\ buf = << >> /\ out = << >> /\ result = "none"
  BY <1>1 DEF RenderInv
<1>4. /\ at' = 1 /\ buf' = << >> /\ out' = << >> /\ result' = "none" /\ result' # "ok"
      /\ pc' # "render"
  BY <1>1, <1>3
<1> QED
  BY <1>1, <1>2, <1>4 DEF RenderInv

LEMMA ChoicesSized ==
  ASSUME NEW a \in ArgChoices
  PROVE  a.size \in [DOMAIN a.size -> Sizes]
<1> DEFINE names == IF style = "named" THEN Keys ELSE {}
           given == {names} \cup {names \ {x} : x \in names}
           count == Slots(parts)
<1>1. Whole \in Sizes
  BY DEF Sizes
<1>2. a \in UNION {[named : {TRUE}, size : [g -> Sizes]] : g \in given}
      \/ a \in [named : {FALSE}, size : [1..count -> Sizes]]
      \/ a \in {[named |-> FALSE, size |-> [k \in 1..n |-> Whole]] : n \in {count - 1, count + 1} \cap Nat}
  BY DEF ArgChoices
<1> HIDE DEF given, count
<1>3. CASE a \in UNION {[named : {TRUE}, size : [g -> Sizes]] : g \in given}
  <2>1. PICK g \in given : a \in [named : {TRUE}, size : [g -> Sizes]]
    BY <1>3
  <2> QED
    BY <2>1
<1>4. CASE a \in [named : {FALSE}, size : [1..count -> Sizes]]
  BY <1>4
<1>5. CASE a \in {[named |-> FALSE, size |-> [k \in 1..n |-> Whole]] : n \in {count - 1, count + 1} \cap Nat}
  <2>1. PICK n \in {count - 1, count + 1} \cap Nat : a = [named |-> FALSE, size |-> [k \in 1..n |-> Whole]]
    BY <1>5
  <2> QED
    BY <1>1, <2>1
<1> QED
  BY <1>2, <1>3, <1>4, <1>5

LEMMA BindStep ==
  ASSUME Scanned, RenderInv, Bind
  PROVE  RenderInv'
<1>1. PICK a \in ArgChoices :
        /\ args' = a
        /\ IF Accepted(a) THEN GoTo("render") ELSE Stop("arguments")
  BY DEF Bind
<1>2. pc = "bind" /\ UNCHANGED <<style, parts, at, buf, out>>
  BY DEF Bind, planVars
<1>3. CASE Accepted(a)
  <2>1. pc' = "render" /\ UNCHANGED <<sql, toks, result>>
    BY <1>1, <1>3 DEF GoTo
  <2>2. Style' = Style /\ Parts' = Parts /\ Mixed' = Mixed
    BY <2>1, SameParts
  <2>3. /\ at = 1 /\ buf = << >> /\ out = << >> /\ result = "none"
        /\ style = Style /\ parts = Parts /\ ~Mixed
    BY <1>2 DEF RenderInv
  <2>4. Sized'
    BY <1>1, ChoicesSized DEF Sized
  <2> DEFINE K == DOMAIN args'.size
             size == args'.size
  <2>5. Len(parts) \in Nat /\ 1 \in 1..(Len(parts) + 1)
    <3>1. parts \in Seq(PartsSet)
      BY <2>3, PartsIn
    <3> QED
      BY <3>1, LenProperties
  <2>6. size \in [K -> Sizes] /\ KeysIn(parts, 0, K) /\ 0 \in Nat
    BY <2>4 DEF Sized, KeysIn
  <2> HIDE DEF K, size
  <2>7. TextOf(parts, size, 0) = << >> /\ SpentBy(parts, size, 0) = << >>
    BY <2>6, NothingSaid
  <2>8. /\ at' = 1 /\ at' - 1 = 0 /\ buf' = << >> /\ out' = << >> /\ result' = "none"
        /\ pc' # "done" /\ pc' # "bind" /\ result' # "ok"
        /\ style' = Style /\ parts' = Parts /\ parts' = parts /\ ~Mixed'
    BY <1>2, <2>1, <2>2, <2>3
  <2> QED
    BY <2>1, <2>2, <2>4, <2>5, <2>6, <2>7, <2>8 DEF RenderInv, K, size
<1>4. CASE ~Accepted(a)
  <2>1. pc' = "done" /\ result' = "arguments"
    BY <1>1, <1>4 DEF Stop
  <2> QED
    BY <2>1, StopStep
<1> QED
  BY <1>3, <1>4

(* Text, a whole value, an empty slice or a slice. *)
LEMMA PartStep ==
  ASSUME Scanned, RenderInv, RenderText \/ RenderWhole \/ RenderEmpty \/ RenderSlice
  PROVE  RenderInv'
<1> DEFINE part == parts[at]
           size == args.size
           b == Len(out)
<1>1. /\ pc = "render" /\ style \in {"named", "ordinal"} /\ at <= Len(parts)
      /\ part.param => part.key \in DOMAIN size
      /\ pc' = "render" /\ at' = at + 1
      /\ UNCHANGED <<sql, toks, style, parts, args, result>>
  BY DEF RenderText, RenderWhole, RenderEmpty, RenderSlice, Rendering, Rendered, Found, Key, GoTo, planVars
<1>2. /\ Sized /\ out = SpentBy(parts, size, at - 1) /\ style = Style /\ parts = Parts /\ ~Mixed /\ result = "none"
  BY <1>1 DEF RenderInv
<1>3. TextAt(parts, size, at) = PartText(part, size, b)
  BY <1>2 DEF TextAt
<1>4. PartValues(part, size) \in Seq((DOMAIN size) \X Nat)
      /\ (part.param =>
              /\ size[part.key] \in Nat \/ size[part.key] = Whole
              /\ size[part.key] \in Nat => Len(PartValues(part, size)) = size[part.key]
              /\ size[part.key] = Whole => Len(PartValues(part, size)) = 1)
  BY <1>1, <1>2, PartValuesIn DEF Sized
<1>5. b \in Nat
  BY <1>1, <1>2, OutLen
<1> HIDE DEF part, size, b
<1>6. /\ buf' = buf \o PartText(part, size, b)
      /\ out' = out \o PartValues(part, size)
  <2>1. CASE RenderText
    <3>1. ~part.param /\ buf' = buf \o part.text /\ out' = out \o << >>
      BY <2>1 DEF RenderText, Rendered, part
    <3> QED
      BY <3>1 DEF PartText, PartValues
  <2>2. CASE RenderWhole
    <3>1. /\ part.param /\ size[part.key] = Whole
          /\ buf' = buf \o Placeholder(b + 1) /\ out' = out \o << <<part.key, 0>> >>
      BY <2>2 DEF RenderWhole, Rendered, Found, Key, part, size, b
    <3>2. PartValues(part, size) = << <<part.key, 0>> >>
      BY <3>1 DEF PartValues
    <3>3. PartText(part, size, b) = SliceText(1, b)
      <4>1. Len(PartValues(part, size)) = 1
        BY <1>4, <3>1
      <4> QED
        BY <3>1, <4>1 DEF PartText
    <3>4. SliceText(1, b) = Placeholder(b + 1)
      BY <1>5, SliceIs
    <3> QED
      BY <3>1, <3>2, <3>3, <3>4
  <2>3. CASE RenderEmpty
    <3>1. /\ part.param /\ size[part.key] = 0
          /\ buf' = buf \o <<"N">> /\ out' = out \o << >>
      BY <2>3 DEF RenderEmpty, Rendered, Found, Key, part, size, b
    <3>2. Len(PartValues(part, size)) = 0
      BY <1>4, <3>1
    <3>3. PartValues(part, size) = << >>
      BY <1>4, <3>2, EmptySeq
    <3>4. PartText(part, size, b) = <<"N">>
      BY <3>1, <3>2 DEF PartText
    <3> QED
      BY <3>1, <3>3, <3>4
  <2>4. CASE RenderSlice
    <3>1. /\ part.param /\ size[part.key] > 0
          /\ buf' = buf \o SliceText(size[part.key], b)
          /\ out' = out \o [e \in 1..size[part.key] |-> <<part.key, e>>]
      BY <2>4 DEF RenderSlice, Rendered, Found, Key, part, size, b
    <3>2. size[part.key] # Whole /\ size[part.key] \in Nat /\ size[part.key] # 0
      BY <1>4, <3>1 DEF Whole
    <3>3. PartValues(part, size) = [e \in 1..size[part.key] |-> <<part.key, e>>]
      BY <3>1, <3>2 DEF PartValues
    <3>4. PartText(part, size, b) = SliceText(size[part.key], b)
      BY <1>4, <3>1, <3>2 DEF PartText
    <3> QED
      BY <3>1, <3>3, <3>4
  <2> QED
    BY <2>1, <2>2, <2>3, <2>4
<1>7. /\ at + 1 \in 1..(Len(parts) + 1)
      /\ KeysIn(parts, (at + 1) - 1, DOMAIN size)
      /\ buf \o PartText(part, size, b) = TextOf(parts, size, (at + 1) - 1)
      /\ out \o PartValues(part, size) = SpentBy(parts, size, (at + 1) - 1)
  BY <1>1, <1>3, RenderedStep DEF part, size
<1>8. Style' = Style /\ Parts' = Parts /\ Mixed' = Mixed
  BY <1>1, SameParts
<1>9. Sized'
  BY <1>1, <1>2 DEF Sized
<1>10. /\ pc' # "bind" /\ pc' # "done" /\ result' = "none" /\ result' # "ok"
       /\ style' = Style' /\ parts' = Parts' /\ ~Mixed'
  BY <1>1, <1>2, <1>8
<1>11. /\ at' \in 1..(Len(parts') + 1)
       /\ KeysIn(parts', at' - 1, DOMAIN args'.size)
       /\ buf' = TextOf(parts', args'.size, at' - 1)
       /\ out' = SpentBy(parts', args'.size, at' - 1)
  BY <1>1, <1>6, <1>7 DEF size
<1> QED
  BY <1>1, <1>9, <1>10, <1>11 DEF RenderInv

LEMMA EndStep ==
  ASSUME Scanned, RenderInv, RenderEnds \/ RenderVerbatim
  PROVE  RenderInv'
<1>1. /\ pc = "render" /\ pc' = "done" /\ result' = "ok"
      /\ UNCHANGED <<sql, toks, style, parts, args>>
  BY DEF RenderEnds, RenderVerbatim, Stop, planVars, renderVars
<1>2. /\ Sized /\ style = Style /\ parts = Parts /\ ~Mixed
      /\ at \in 1..(Len(parts) + 1)
      /\ KeysIn(parts, at - 1, DOMAIN args.size)
      /\ buf = TextOf(parts, args.size, at - 1)
      /\ out = SpentBy(parts, args.size, at - 1)
  BY <1>1 DEF RenderInv
<1>3. Style' = Style /\ Parts' = Parts /\ Mixed' = Mixed
  BY <1>1, SameParts
<1>4. Sized'
  BY <1>1, <1>2 DEF Sized
<1>5. CASE RenderEnds
  <2>1. style \in {"named", "ordinal"} /\ at > Len(parts) /\ UNCHANGED <<buf, out>>
    BY <1>5 DEF RenderEnds, planVars, renderVars
  <2>2. at - 1 = Len(parts)
    <3>1. Len(parts) \in Nat
      BY <1>2, PartsSay, LenProperties
    <3> QED
      BY <1>2, <2>1, <3>1
  <2>3. /\ Keyed(parts, DOMAIN args.size)
        /\ buf = AllText(parts, args.size)
        /\ out = AllSpent(parts, args.size)
    BY <1>2, <2>2 DEF Keyed, AllText, AllSpent
  <2> QED
    BY <1>1, <1>2, <1>3, <1>4, <2>1, <2>3 DEF RenderInv
<1>6. CASE RenderVerbatim
  <2>1. /\ style \notin {"named", "ordinal"}
        /\ buf' = FlattenSeq([p \in DOMAIN parts |-> parts[p].text])
        /\ out' = [p \in DOMAIN args.size |-> <<p, 0>>]
    BY <1>6 DEF RenderVerbatim
  <2> QED
    BY <1>1, <1>2, <1>3, <1>4, <2>1 DEF RenderInv
<1> QED
  BY <1>5, <1>6

LEMMA RenderStarts ==
  ASSUME Init
  PROVE  IInv /\ ScanInv /\ RenderInv
<1>1. RenderInv
  BY DEF Init, LexInit, RenderInv
<1> QED
  BY <1>1, ScanStarts

LEMMA RenderStep ==
  ASSUME IInv, ScanInv, RenderInv, [Next]_vars
  PROVE  IInv' /\ ScanInv' /\ RenderInv'
<1>1. IInv' /\ ScanInv'
  BY ScanStep
<1>2. pc # "lex" => Scanned
  BY ScannedThen
<1>3. CASE Lex
  <2>1. pc \in {"lex", "compile"} /\ pc' \in {"lex", "compile"}
    BY <1>3 DEF Lex, LexNext, LineComment, BlockComment, EscapeString, Quoted, Numbered,
                DollarQuoted, LoneDollar, Cast, Named, LoneColon, JsonOperator, EscapedQ,
                Ordinal, Identifier, Other, LexEnds, Scanning, SkipTo, Emit
  <2>2. UNCHANGED <<style, parts, args, at, buf, out, result>>
    BY <1>3 DEF Lex, planVars, renderVars
  <2> QED
    BY <1>1, <2>1, <2>2, IdleStep
<1>4. CASE CompileFails \/ LookupFails
  <2>1. pc' = "done" /\ result' # "ok"
    BY <1>4 DEF CompileFails, LookupFails, Stop
  <2> QED
    BY <1>1, <2>1, StopStep
<1>5. CASE Compile
  BY <1>1, <1>5, CompileStep
<1>6. CASE Bind
  <2>1. pc # "lex"
    BY <1>6 DEF Bind
  <2> QED
    BY <1>1, <1>2, <1>6, <2>1, BindStep
<1>7. CASE RenderText \/ RenderWhole \/ RenderEmpty \/ RenderSlice
  <2>1. pc # "lex"
    BY <1>7 DEF RenderText, RenderWhole, RenderEmpty, RenderSlice, Rendering
  <2> QED
    BY <1>1, <1>2, <1>7, <2>1, PartStep
<1>8. CASE RenderEnds \/ RenderVerbatim
  <2>1. pc # "lex"
    BY <1>8 DEF RenderEnds, RenderVerbatim
  <2> QED
    BY <1>1, <1>2, <1>8, <2>1, EndStep
<1>9. CASE UNCHANGED vars
  BY <1>1, <1>9, SameStep
<1> QED
  BY <1>3, <1>4, <1>5, <1>6, <1>7, <1>8, <1>9 DEF Next, Finished

(* RendersStatement: whatever text and arguments a call brings, when bind   *)
(* returns without an error the text for the driver is the statement with  *)
(* each parameter replaced by the placeholders of its value, numbered on   *)
(* from those before, and all other text kept but for ?? read as ?; its    *)
(* arguments are the values in that order.  A statement without parameters *)
(* of row's keeps its text and its arguments (bind.go, compile, render).   *)
THEOREM StatementIsRendered == Spec => []RendersStatement
<1>1. Init => IInv /\ ScanInv /\ RenderInv
  BY RenderStarts
<1>2. IInv /\ ScanInv /\ RenderInv /\ [Next]_vars => IInv' /\ ScanInv' /\ RenderInv'
  BY RenderStep
<1>3. IInv /\ ScanInv /\ RenderInv => RendersStatement
  <2> SUFFICES ASSUME IInv, ScanInv, RenderInv, result = "ok"
               PROVE  RendersStatement
    BY DEF RendersStatement
  <2>1. pc # "lex"
    BY DEF RenderInv
  <2>2. Scanned
    BY <2>1, ScannedThen
  <2> QED
    BY <2>2, InvRenders
<1> QED
  BY <1>1, <1>2, <1>3, PTL DEF Spec

-----------------------------------------------------------------------------
(* x stands in the text behind its first b characters. *)
Holds(text, b, x) ==
  /\ b \in Nat /\ b + Len(x) <= Len(text)
  /\ \A j \in 1..Len(x) : text[b + j] = x[j]

(* No region that begins in the first b characters goes on behind them. *)
Shut(text, b) == ~(HiddenTo(text)[b] > b + 1)

LEMMA HoldsJoin ==
  ASSUME NEW text \in Seq(Chars), NEW b, NEW x \in Seq(Chars), NEW y \in Seq(Chars),
         Holds(text, b, x \o y)
  PROVE  /\ Holds(text, b, x) /\ Holds(text, b + Len(x), y)
         /\ b + Len(x \o y) = (b + Len(x)) + Len(y)
<1>1. /\ Len(x) \in Nat /\ Len(y) \in Nat /\ Len(text) \in Nat
  BY LenProperties
<1>2. /\ Len(x \o y) = Len(x) + Len(y)
      /\ \A j \in 1..(Len(x) + Len(y)) : (x \o y)[j] = IF j <= Len(x) THEN x[j] ELSE y[j - Len(x)]
  BY ConcatProperties
<1>3. /\ b \in Nat /\ b + (Len(x) + Len(y)) <= Len(text)
      /\ \A j \in 1..(Len(x) + Len(y)) : text[b + j] = (x \o y)[j]
  BY <1>2 DEF Holds
<1>4. Holds(text, b, x)
  <2>1. \A j \in 1..Len(x) : j \in 1..(Len(x) + Len(y)) /\ j <= Len(x)
    BY <1>1
  <2>2. \A j \in 1..Len(x) : text[b + j] = x[j]
    BY <1>2, <1>3, <2>1
  <2>3. b + Len(x) <= Len(text)
    BY <1>1, <1>3
  <2> QED
    BY <1>3, <2>2, <2>3 DEF Holds
<1>5. Holds(text, b + Len(x), y)
  <2>1. ASSUME NEW j \in 1..Len(y)
        PROVE  text[(b + Len(x)) + j] = y[j]
    <3>1. /\ Len(x) + j \in 1..(Len(x) + Len(y)) /\ ~(Len(x) + j <= Len(x)) /\ (Len(x) + j) - Len(x) = j
          /\ b + (Len(x) + j) = (b + Len(x)) + j
      BY <1>1, <1>3
    <3>2. text[b + (Len(x) + j)] = (x \o y)[Len(x) + j]
      BY <1>3, <3>1
    <3>3. (x \o y)[Len(x) + j] = y[(Len(x) + j) - Len(x)]
      BY <1>2, <3>1
    <3> QED
      BY <3>1, <3>2, <3>3
  <2>2. b + Len(x) \in Nat /\ (b + Len(x)) + Len(y) <= Len(text)
    BY <1>1, <1>3
  <2> QED
    BY <2>1, <2>2 DEF Holds
<1>6. b + Len(x \o y) = (b + Len(x)) + Len(y)
  BY <1>1, <1>2, <1>3
<1> QED
  BY <1>4, <1>5, <1>6

(* Of two texts that stand behind the first b characters, up to e. *)
Adjoin(text, b, x, y, e) ==
  /\ x \in Seq(Chars) /\ y \in Seq(Chars)
  /\ Holds(text, b, x \o y) /\ e = b + Len(x \o y)

LEMMA AdjoinApart ==
  ASSUME NEW text \in Seq(Chars), NEW b, NEW x, NEW y, NEW e, Adjoin(text, b, x, y, e)
  PROVE  /\ Holds(text, b, x) /\ Holds(text, b + Len(x), y)
         /\ e = (b + Len(x)) + Len(y)
<1>1. x \in Seq(Chars) /\ y \in Seq(Chars) /\ Holds(text, b, x \o y) /\ e = b + Len(x \o y)
  BY DEF Adjoin
<1> QED
  BY <1>1, HoldsJoin

(* A $ and the digits v stand behind the first b characters, up to c. *)
Numeral(text, b, v, c) ==
  /\ v \in Seq(Digits) /\ v # << >>
  /\ Holds(text, b, <<"$">> \o v)
  /\ c = b + Len(<<"$">> \o v)
  /\ ~Is(text, c + 1, Digits)

LEMMA NumeralRead ==
  ASSUME NEW text \in Seq(Chars), NEW b, NEW v, NEW c, Numeral(text, b, v, c), Shut(text, b)
  PROVE  /\ c \in Nat /\ Shut(text, c)
         /\ NumbersTo(text, c + 1) = Append(NumbersTo(text, b + 1), v)
         /\ SpanEnd(text, (b + 1) + 1, Digits) = c + 1
<1> SUFFICES ASSUME v \in Seq(Digits), v # << >>, Holds(text, b, <<"$">> \o v),
                    c = b + Len(<<"$">> \o v), ~Is(text, c + 1, Digits)
             PROVE  /\ c \in Nat /\ Shut(text, c)
                    /\ NumbersTo(text, c + 1) = Append(NumbersTo(text, b + 1), v)
                    /\ SpanEnd(text, (b + 1) + 1, Digits) = c + 1
  BY DEF Numeral
<1> DEFINE L == Len(v)
           k == b + 1
<1>0. <<"$">> \in Seq(Chars) /\ v \in Seq(Chars) /\ Len(<<"$">>) = 1 /\ <<"$">>[1] = "$"
  <2>1. Digits \subseteq Chars /\ "$" \in Chars
    BY DEF Chars
  <2> QED
    BY <2>1, SeqMonotonic
<1>1. L \in Nat /\ L # 0 /\ Len(text) \in Nat /\ EndOf(text) = Len(text) + 1
  BY LenProperties, EmptySeq DEF EndOf
<1>2. /\ Holds(text, b, <<"$">>) /\ Holds(text, b + 1, v) /\ c = (b + 1) + L
  <2> DEFINE one == <<"$">>
  <2>1. one \in Seq(Chars) /\ v \in Seq(Chars) /\ Holds(text, b, one \o v)
    BY <1>0
  <2>2. Len(one) = 1 /\ c = b + Len(one \o v)
    BY <1>0
  <2> HIDE DEF one, L, k
  <2>3. /\ Holds(text, b, one) /\ Holds(text, b + Len(one), v)
        /\ b + Len(one \o v) = (b + Len(one)) + Len(v)
    BY <2>1, HoldsJoin
  <2> QED
    BY <2>2, <2>3 DEF one, L
<1>3. /\ b \in Nat /\ k \in Nat /\ text[k] = "$"
      /\ k + L <= Len(text)
      /\ \A j \in 1..L : text[k + j] = v[j]
  BY <1>0, <1>2 DEF Holds
<1>4. c \in Nat /\ c = k + L /\ k < c /\ k < c + 1 /\ k + 1 <= c
  BY <1>1, <1>2, <1>3
<1> HIDE DEF k, L
<1>5. \A m \in (k + 1)..c : text[m] \in Digits /\ m \in 1..Len(text)
  <2> TAKE m \in (k + 1)..c
  <2>1. m - k \in 1..L /\ k + (m - k) = m /\ m \in 1..Len(text)
    BY <1>1, <1>3, <1>4
  <2>2. text[m] = v[m - k]
    BY <1>3, <2>1
  <2>3. v[m - k] \in Digits
    BY <2>1, ElementOfSeq DEF L
  <2> QED
    BY <2>1, <2>2, <2>3
<1>6. Is(text, k, {"$"}) /\ Is(text, k + 1, Digits)
  <2>1. k + 1 \in (k + 1)..c /\ k < EndOf(text)
    BY <1>1, <1>3, <1>4
  <2>2. k + 1 < EndOf(text)
    BY <1>1, <1>5, <2>1
  <2> QED
    BY <1>3, <1>5, <2>1, <2>2 DEF Is
<1>7. RegionTo(text, k) = k
  <2>1. ~Pair(text, k, "-", "-") /\ ~Pair(text, k, "/", "*") /\ ~EscapeAt(text, k)
        /\ ~Is(text, k, Quotes) /\ ~TagAt(text, k)
    BY <1>3, <1>6 DEF Pair, EscapeAt, Is, Quotes, TagAt
  <2> QED
    BY <2>1, NoRegion
<1>8. \A m \in (k + 1)..c : RegionTo(text, m) = m
  BY <1>5, PlainAt
<1>9. \A m \in k..c : RegionTo(text, m) = m
  <2> TAKE m \in k..c
  <2>1. m = k \/ m \in (k + 1)..c
    BY <1>3, <1>4
  <2> QED
    BY <1>7, <1>8, <2>1
<1> DEFINE hi == c + 1
<1>10. /\ \A m \in k..(hi - 1) : m \in Visible(text)
       /\ ~(HiddenTo(text)[hi - 1] > hi)
  <2>1. hi - 1 = c /\ hi \in (k + 1)..EndOf(text) /\ k \in 1..Len(text) /\ k - 1 = b
    BY <1>1, <1>3, <1>4 DEF k
  <2>2. ~(HiddenTo(text)[k - 1] > k)
    BY <2>1 DEF Shut, k
  <2> HIDE DEF hi
  <2>3. \A m \in k..(hi - 1) : RegionTo(text, m) = m
    BY <1>9, <2>1
  <2> QED
    BY <2>1, <2>2, <2>3, SeenThrough
<1>11. Shut(text, c) /\ k \in Visible(text)
  <2>1. hi - 1 = c /\ k \in k..(hi - 1)
    BY <1>3, <1>4
  <2> QED
    BY <1>10, <2>1 DEF Shut
<1>12. SpanEnd(text, k + 1, Digits) = hi
  <2> DEFINE e == SpanEnd(text, k + 1, Digits)
  <2>1. k + 1 \in 1..EndOf(text)
    BY <1>1, <1>3, <1>4
  <2>2. /\ e \in (k + 1)..EndOf(text) /\ ~Is(text, e, Digits)
        /\ \A m \in (k + 1)..(e - 1) : Is(text, m, Digits)
    BY <2>1, SpanIs
  <2> HIDE DEF e
  <2>3. ~(e <= c)
    <3> SUFFICES ASSUME e <= c
                 PROVE  FALSE
      OBVIOUS
    <3>1. e \in (k + 1)..c
      BY <1>1, <1>3, <1>4, <2>2
    <3>2. e < EndOf(text) /\ text[e] \in Digits
      BY <1>1, <1>5, <3>1
    <3> QED
      BY <2>2, <3>2 DEF Is
  <2>4. ~(e > c + 1)
    <3> SUFFICES ASSUME e > c + 1
                 PROVE  FALSE
      OBVIOUS
    <3>1. c + 1 \in (k + 1)..(e - 1)
      BY <1>1, <1>3, <1>4, <2>2
    <3> QED
      BY <2>2, <3>1
  <2>6. e \in Int /\ c \in Int
    BY <1>1, <1>3, <1>4, <2>2
  <2>5. e = c + 1
    BY <2>3, <2>4, <2>6
  <2> QED
    BY <2>5 DEF e
<1>13. SubSeq(text, k + 1, hi - 1) = v
  <2> DEFINE w == SubSeq(text, k + 1, c)
  <2>0. k \in Nat /\ L \in Nat /\ c = k + L /\ k + 1 <= c
    BY <1>1, <1>3, <1>4
  <2>1. k + 1 \in Int /\ c \in Int /\ k + 1 <= c /\ c - (k + 1) + 1 = L /\ (c + 1) - 1 = c
    BY <2>0
  <2>2. /\ w \in Seq(Digits) /\ Len(w) = L
        /\ \A j \in 1..L : w[j] = text[(k + 1) + j - 1]
    <3> DEFINE first == k + 1
    <3>1. first \in Int /\ c \in Int /\ first <= c /\ c - first + 1 = L
          /\ \A m \in first..c : text[m] \in Digits
      BY <1>5, <2>1
    <3> HIDE DEF first
    <3>2. /\ SubSeq(text, first, c) \in Seq(Digits) /\ Len(SubSeq(text, first, c)) = L
          /\ \A j \in 1..L : SubSeq(text, first, c)[j] = text[first + j - 1]
      BY <3>1, SubSeqProperties
    <3> QED
      BY <3>2 DEF first
  <2>3. \A j \in 1..L : (k + 1) + j - 1 = k + j
    BY <2>0
  <2>4. \A j \in 1..Len(w) : w[j] = v[j]
    BY <1>3, <2>2, <2>3
  <2> HIDE DEF w
  <2>5. w = v
    BY <2>2, <2>4, SeqEqual DEF L
  <2> QED
    BY <2>1, <2>5 DEF w
<1>14. \A m \in (k + 1)..(hi - 1) : ~NumberAt(text, m)
  <2>1. hi - 1 = c
    BY <1>4
  <2> QED
    BY <1>5, <2>1, CharFacts DEF NumberAt, Is
<1>15. NumbersTo(text, hi) = Append(NumbersTo(text, k), v)
  <2>1. hi \in Nat /\ k < hi /\ NumberAt(text, k)
    BY <1>3, <1>4, <1>6 DEF NumberAt
  <2> HIDE DEF hi
  <2>2. NumbersTo(text, hi) = Append(NumbersTo(text, k), SubSeq(text, k + 1, SpanEnd(text, k + 1, Digits) - 1))
    BY <1>3, <1>11, <1>14, <2>1, NumbersNext
  <2> QED
    BY <1>12, <1>13, <2>2
<1> QED
  BY <1>4, <1>11, <1>12, <1>15 DEF k

(* A character of an image that is no part of a number. *)
Plain == {",", "?", "N"}

LEMMA PlainFacts ==
  \A c \in Plain : c # "-" /\ c # "/" /\ c # "E" /\ c # "$" /\ c \notin Quotes
BY Zenon DEF Plain, Quotes

LEMMA CharRead ==
  ASSUME NEW text \in Seq(Chars), NEW b, NEW x, Len(x) = 1, x[1] \in Plain,
         Holds(text, b, x), Shut(text, b)
  PROVE  Shut(text, b + 1) /\ NumbersTo(text, (b + 1) + 1) = NumbersTo(text, b + 1)
<1> DEFINE k == b + 1
           hi == k + 1
<1>1. /\ b \in Nat /\ k \in Nat /\ k <= Len(text) /\ text[k] = x[1] /\ Len(text) \in Nat
      /\ EndOf(text) = Len(text) + 1
  <2>1. b \in Nat /\ b + 1 <= Len(text) /\ \A j \in 1..1 : text[b + j] = x[j]
    BY DEF Holds
  <2>2. Len(text) \in Nat /\ EndOf(text) = Len(text) + 1
    BY LenProperties DEF EndOf
  <2> QED
    BY <2>1, <2>2
<1>2. RegionTo(text, k) = k
  <2>1. ~Pair(text, k, "-", "-") /\ ~Pair(text, k, "/", "*") /\ ~EscapeAt(text, k)
        /\ ~Is(text, k, Quotes) /\ ~TagAt(text, k)
    BY <1>1, PlainFacts DEF Pair, EscapeAt, Is, TagAt
  <2> QED
    BY <2>1, NoRegion
<1>3. ~NumberAt(text, k)
  BY <1>1, PlainFacts DEF NumberAt, Is
<1>4. /\ hi \in (k + 1)..EndOf(text) /\ k \in 1..Len(text) /\ k - 1 = b /\ hi - 1 = k
      /\ hi \in Nat /\ k <= hi /\ \A m \in k..(hi - 1) : m = k
  <2>1. b \in Nat /\ k = b + 1 /\ k <= Len(text) /\ Len(text) \in Nat /\ EndOf(text) = Len(text) + 1
    BY <1>1
  <2> HIDE DEF k
  <2>2. k \in Nat /\ 1 <= k /\ k - 1 = b /\ k + 1 \in Nat /\ (k + 1) - 1 = k
    BY <2>1
  <2>3. k + 1 \in (k + 1)..EndOf(text) /\ k \in 1..Len(text) /\ k <= k + 1
    BY <2>1, <2>2
  <2>4. \A m \in k..k : m = k
    BY <2>2
  <2> QED
    BY <2>2, <2>3, <2>4
<1>5. ~(HiddenTo(text)[k - 1] > k)
  BY <1>4 DEF Shut
<1> HIDE DEF k, hi
<1>6. ~(HiddenTo(text)[hi - 1] > hi)
  BY <1>2, <1>4, <1>5, SeenThrough
<1>7. NumbersTo(text, hi) = NumbersTo(text, k)
  BY <1>1, <1>3, <1>4, NumbersSame
<1> QED
  BY <1>4, <1>6, <1>7 DEF k, hi, Shut

Comma == <<",">>
Item(e, before) == (IF e > 1 THEN Comma ELSE << >>) \o Placeholder(before + e)

PlaceChars == Digits \cup {"$", ","}

LEMMA CommaIs ==
  /\ Comma \in Seq(PlaceChars) /\ Len(Comma) = 1 /\ Comma[1] \in Plain
  /\ PlaceChars \subseteq Chars /\ Digits \subseteq PlaceChars /\ "$" \in PlaceChars
  /\ \A c \in PlaceChars : c # ":"
<1>1. "," \in PlaceChars /\ Digits \subseteq PlaceChars /\ "$" \in PlaceChars
  BY Zenon DEF PlaceChars
<1>2. PlaceChars \subseteq Chars
  BY Zenon DEF PlaceChars, Chars
<1>3. \A c \in PlaceChars : c # ":"
  <2>1. \A c \in Digits : c # ":"
    BY CharFacts
  <2> QED
    BY <2>1, Zenon DEF PlaceChars
<1>4. \A x : x \in PlaceChars => <<x>> \in Seq(PlaceChars) /\ Len(<<x>>) = 1 /\ <<x>>[1] = x
  OBVIOUS
<1>5. Comma \in Seq(PlaceChars) /\ Len(Comma) = 1 /\ Comma[1] = ","
  BY <1>1, <1>4, Zenon DEF Comma
<1>6. Comma[1] \in Plain
  BY <1>5, Zenon DEF Plain
<1> QED
  BY <1>1, <1>2, <1>3, <1>5, <1>6

LEMMA PlaceholderIs ==
  ASSUME NEW n \in Nat
  PROVE  /\ Placeholder(n) = <<"$">> \o Decimal(n)
         /\ Placeholder(n) \in Seq(PlaceChars) /\ Placeholder(n) # << >> /\ Placeholder(n)[1] = "$"
<1> DEFINE one == <<"$">>
           v == Decimal(n)
<1>1. one \in Seq(PlaceChars) /\ Len(one) = 1 /\ one[1] = "$"
  <2>1. "$" \in PlaceChars
    BY CommaIs
  <2> QED
    BY <2>1
<1>2. v \in Seq(PlaceChars)
  <2>1. v \in Seq(Digits)
    BY DecimalText
  <2> HIDE DEF v
  <2> QED
    BY <2>1, CommaIs, SeqMonotonic
<1>3. Placeholder(n) = one \o v
  BY DEF Placeholder
<1> HIDE DEF one, v
<1>4. /\ one \o v \in Seq(PlaceChars) /\ Len(one \o v) = 1 + Len(v)
      /\ \A j \in 1..(1 + Len(v)) : (one \o v)[j] = IF j <= 1 THEN one[j] ELSE v[j - 1]
  <2>1. /\ one \o v \in Seq(PlaceChars) /\ Len(one \o v) = Len(one) + Len(v)
        /\ \A j \in 1..(Len(one) + Len(v)) :
             (one \o v)[j] = IF j <= Len(one) THEN one[j] ELSE v[j - Len(one)]
    BY <1>1, <1>2, ConcatProperties
  <2>2. Len(one) = 1
    BY <1>1
  <2> QED
    BY <2>1, <2>2
<1>5. Len(v) \in Nat
  BY <1>2, LenProperties
<1>6. 1 \in 1..(1 + Len(v)) /\ Len(one \o v) # 0
  BY <1>4, <1>5
<1>7. (one \o v)[1] = "$" /\ one \o v # << >>
  BY <1>1, <1>4, <1>6, EmptySeq
<1> QED
  BY <1>3, <1>4, <1>7 DEF one, v

LEMMA ItemIs ==
  ASSUME NEW e \in Nat, NEW before \in Nat
  PROVE  /\ Item(e, before) \in Seq(PlaceChars)
         /\ e > 1 => Item(e, before) = Comma \o Placeholder(before + e)
         /\ ~(e > 1) => Item(e, before) = Placeholder(before + e)
<1> DEFINE p == Placeholder(before + e)
<1>1. p \in Seq(PlaceChars)
  <2>1. before + e \in Nat
    OBVIOUS
  <2> QED
    BY <2>1, PlaceholderIs
<1> HIDE DEF p
<1>2. << >> \o p = p
  BY <1>1, ConcatEmptySeq
<1>3. Comma \o p \in Seq(PlaceChars)
  BY <1>1, CommaIs, ConcatProperties
<1>4. Item(e, before) = (IF e > 1 THEN Comma ELSE << >>) \o p
  BY DEF Item, p
<1> QED
  BY <1>1, <1>2, <1>3, <1>4 DEF p

LEMMA SliceGrows ==
  ASSUME NEW before \in Nat
  PROVE  /\ SliceText(0, before) = << >>
         /\ \A n \in Nat : SliceText(n + 1, before) = SliceText(n, before) \o Item(n + 1, before)
<1> DEFINE f(n) == [e \in 1..n |-> Item(e, before)]
<1>1. \A n : SliceText(n, before) = FlattenSeq(f(n))
  BY Zenon DEF SliceText, Item, Comma
<1>2. ASSUME NEW n \in Nat
      PROVE  f(n) \in [1..n -> Seq(PlaceChars)]
  <2>1. \A e \in 1..n : e \in Nat
    OBVIOUS
  <2>2. \A e \in 1..n : Item(e, before) \in Seq(PlaceChars)
    BY <2>1, ItemIs
  <2> QED
    BY <2>2
<1>3. ASSUME NEW n \in Nat
      PROVE  FlattenSeq(f(n + 1)) = FlattenSeq(f(n)) \o Item(n + 1, before)
  <2>1. n + 1 \in Nat /\ n + 1 \in 1..(n + 1) /\ \A e \in 1..n : e \in 1..(n + 1)
    OBVIOUS
  <2>2. f(n) \in [1..n -> Seq(PlaceChars)] /\ f(n + 1) \in [1..(n + 1) -> Seq(PlaceChars)]
    BY <1>2, <2>1
  <2>3. f(n + 1)[n + 1] = Item(n + 1, before) /\ \A e \in 1..n : f(n + 1)[e] = f(n)[e]
    BY <2>1
  <2> HIDE DEF f
  <2>4. FlattenSeq(f(n + 1)) = FlattenSeq(f(n)) \o f(n + 1)[n + 1]
    BY <2>2, <2>3, FlattenNext
  <2> QED
    BY <2>3, <2>4
<1>4. FlattenSeq(f(0)) = << >>
  <2>1. 0 \in Nat /\ f(0) \in [1..0 -> Seq(PlaceChars)]
    BY <1>2
  <2> HIDE DEF f
  <2> QED
    BY <2>1, FlattenStep
<1> HIDE DEF f
<1> QED
  BY <1>1, <1>3, <1>4

(* The placeholders of a slice begin with a $ and hold no colon. *)
LEMMA SliceFacts ==
  ASSUME NEW size \in Nat, NEW before \in Nat
  PROVE  /\ SliceText(size, before) \in Seq(PlaceChars)
         /\ size > 0 => SliceText(size, before) # << >> /\ SliceText(size, before)[1] = "$"
<1> DEFINE t(n) == SliceText(n, before)
           S == {n \in Nat : t(n) \in Seq(PlaceChars) /\ (n > 0 => Len(t(n)) > 0 /\ t(n)[1] = "$")}
<1>1. t(0) = << >> /\ \A n \in Nat : t(n + 1) = t(n) \o Item(n + 1, before)
  BY SliceGrows
<1> HIDE DEF t
<1>2. 0 \in S
  <2>1. << >> \in Seq(PlaceChars)
    BY EmptySeq
  <2>2. t(0) \in Seq(PlaceChars)
    BY <1>1, <2>1
  <2>3. 0 \in Nat /\ ~(0 > 0)
    OBVIOUS
  <2> QED
    BY <2>2, <2>3
<1>3. ASSUME NEW n \in Nat, n \in S
      PROVE  n + 1 \in S
  <2> DEFINE x == t(n)
             m == n + 1
             y == Item(m, before)
  <2>0. t(n + 1) = t(n) \o Item(n + 1, before)
    BY <1>1
  <2>10. n + 1 \in Nat
    OBVIOUS
  <2>1. m \in Nat /\ t(m) = x \o y
    BY <2>0, <2>10
  <2>2. x \in Seq(PlaceChars) /\ (n > 0 => Len(x) > 0 /\ x[1] = "$")
    BY <1>3
  <2>3. n = 0 => m = 1 /\ ~(m > 1) /\ x = << >>
    BY <1>1
  <2> HIDE DEF x, m
  <2>4. y \in Seq(PlaceChars)
    BY <2>1, ItemIs
  <2>5. n = 0 => y = Placeholder(before + m) /\ before + m \in Nat
    BY <2>1, <2>3, ItemIs
  <2> HIDE DEF y
  <2>6. Len(x) \in Nat /\ Len(y) \in Nat
    BY <2>2, <2>4, LenProperties
  <2>7. /\ x \o y \in Seq(PlaceChars) /\ Len(x \o y) = Len(x) + Len(y)
        /\ \A k \in 1..(Len(x) + Len(y)) : (x \o y)[k] = IF k <= Len(x) THEN x[k] ELSE y[k - Len(x)]
    BY <2>2, <2>4, ConcatProperties
  <2>8. Len(t(m)) > 0 /\ t(m)[1] = "$"
    <3>1. CASE n = 0
      <4>1. t(m) = y
        BY <2>1, <2>3, <2>4, <3>1, ConcatEmptySeq
      <4>2. y # << >> /\ y[1] = "$"
        BY <2>5, <3>1, PlaceholderIs
      <4>3. Len(y) \in Nat \ {0}
        BY <2>4, <4>2, EmptySeq
      <4> QED
        BY <4>1, <4>2, <4>3
    <3>2. CASE n > 0
      <4>1. Len(x) > 0 /\ x[1] = "$" /\ 1 \in 1..(Len(x) + Len(y)) /\ 1 <= Len(x)
        BY <2>2, <2>6, <3>2
      <4>2. (x \o y)[1] = x[1] /\ Len(x) + Len(y) > 0
        BY <2>6, <2>7, <4>1
      <4> QED
        BY <2>1, <2>7, <4>1, <4>2
    <3> QED
      BY <3>1, <3>2
  <2>9. m \in S
    BY <2>1, <2>7, <2>8
  <2> QED
    BY <2>9 DEF m
<1>4. size \in S
  <2> HIDE DEF S
  <2> QED
    BY <1>2, <1>3, SetInduction
<1>5. t(size) \in Seq(PlaceChars) /\ (size > 0 => t(size) # << >> /\ t(size)[1] = "$")
  <2>1. Len(<< >>) = 0 /\ ~(0 > 0)
    BY EmptySeq
  <2> QED
    BY <1>4, <2>1
<1> QED
  BY <1>5 DEF t

(* The numbers from one to n. *)
Counted(n) == [k \in 1..n |-> Decimal(k)]

LEMMA CountedNext ==
  ASSUME NEW n \in Nat
  PROVE  /\ Counted(n) \in Seq(Seq(Digits)) /\ Len(Counted(n)) = n
         /\ Counted(n + 1) = Append(Counted(n), Decimal(n + 1))
<1> DEFINE V == Seq(Digits)
           m == n + 1
           f == Counted(n)
           g == Counted(m)
           v == Decimal(m)
<1>1. m \in Nat /\ m \in 1..m /\ m - 1 = n /\ (\A k \in 1..n : k \in 1..m) /\ \A k \in 1..m : k = m \/ k \in 1..n
  OBVIOUS
<1>2. \A k \in 1..m : Decimal(k) \in V
  <2>1. \A k \in 1..m : k \in Nat
    OBVIOUS
  <2> QED
    BY <2>1, DecimalText
<1> HIDE DEF V, m
<1>3. f \in [1..n -> V] /\ g \in [1..m -> V]
  BY <1>1, <1>2 DEF Counted
<1>4. g[m] = v /\ \A k \in 1..n : g[k] = f[k]
  BY <1>1 DEF Counted
<1>5. v \in V
  BY <1>1, <1>2
<1> HIDE DEF f, g, v
<1>6. f \in Seq(V) /\ Len(f) = n /\ g \in Seq(V) /\ Len(g) = m
  BY <1>1, <1>3
<1>7. /\ Append(f, v) \in Seq(V) /\ Len(Append(f, v)) = n + 1
      /\ \A k \in 1..n : Append(f, v)[k] = f[k]
      /\ Append(f, v)[n + 1] = v
  BY <1>5, <1>6, AppendProperties
<1>8. Len(Append(f, v)) = m /\ Append(f, v)[m] = v
  BY <1>7 DEF m
<1>9. \A k \in 1..Len(g) : g[k] = Append(f, v)[k]
  BY <1>1, <1>4, <1>6, <1>7, <1>8
<1>10. g = Append(f, v)
  BY <1>6, <1>7, <1>8, <1>9, SeqEqual
<1> QED
  BY <1>6, <1>10 DEF f, g, v, m, V

LEMMA PlainNoDigit ==
  \A c \in Plain : c \notin Digits
<1>1. Digits \subseteq {"0", "1", "2", "3", "4", "5", "6", "7", "8", "9"}
  BY DEF Digits, Numerals
<1>2. "," \notin Digits
  BY <1>1, Zenon
<1>3. "?" \notin Digits /\ "N" \notin Digits
  BY <1>1, Zenon
<1> QED
  BY <1>2, <1>3, Zenon DEF Plain

(* The placeholders of a slice, read one after another. *)
LEMMA SliceRead ==
  ASSUME NEW text \in Seq(Chars), NEW b \in Nat, NEW before \in Nat, NEW size \in Nat,
         Holds(text, b, SliceText(size, before)), Shut(text, b),
         NumbersTo(text, b + 1) = Counted(before),
         NEW c, c = b + Len(SliceText(size, before)), size > 0 => ~Is(text, c + 1, Digits)
  PROVE  c \in Nat /\ Shut(text, c) /\ NumbersTo(text, c + 1) = Counted(before + size)
<1> DEFINE t(n) == SliceText(n, before)
           at_(n) == b + Len(t(n))
           Good(n) == Holds(text, b, t(n)) /\ (n > 0 => ~Is(text, at_(n) + 1, Digits))
           Done(n) == Shut(text, at_(n)) /\ NumbersTo(text, at_(n) + 1) = Counted(before + n)
           S == {n \in Nat : Good(n) => Done(n)}
<1>1. t(0) = << >> /\ \A n \in Nat : t(n + 1) = t(n) \o Item(n + 1, before)
  BY SliceGrows
<1>2. \A n \in Nat : t(n) \in Seq(Chars) /\ Len(t(n)) \in Nat
  <2> TAKE n \in Nat
  <2>1. t(n) \in Seq(PlaceChars)
    BY SliceFacts
  <2> HIDE DEF t
  <2>2. t(n) \in Seq(Chars)
    BY <2>1, CommaIs, SeqMonotonic
  <2> QED
    BY <2>2, LenProperties
<1> HIDE DEF t
<1>3. at_(0) = b /\ \A n \in Nat : at_(n) \in Nat
  <2>1. Len(t(0)) = 0
    BY <1>1, EmptySeq
  <2>2. b + 0 = b /\ \A k \in Nat : b + k \in Nat
    OBVIOUS
  <2> QED
    BY <1>2, <2>1, <2>2
<1>4. 0 \in S
  <2>1. Done(0)
    <3>1. before + 0 = before
      OBVIOUS
    <3> HIDE DEF at_
    <3> QED
      BY <1>3, <3>1
  <2> HIDE DEF Done, Good
  <2> QED
    BY <2>1
<1>5. ASSUME NEW n \in Nat, n \in S
      PROVE  n + 1 \in S
  <2> DEFINE m == n + 1
             y == Item(m, before)
             P == Placeholder(before + m)
             v == Decimal(before + m)
             k == at_(n)
             e == at_(m)
  <2>0. /\ m \in Nat /\ before + m \in Nat /\ before + n \in Nat /\ before + m = (before + n) + 1
        /\ m > 0 /\ (n > 0 <=> m > 1) /\ (~(n > 0) => n = 0)
    OBVIOUS
  <2>1. t(m) = t(n) \o y
    BY <1>1
  <2>2. k \in Nat /\ e \in Nat
    BY <1>3, <2>0
  <2>3. SUFFICES ASSUME Good(m)
                 PROVE  Done(m)
    <3> HIDE DEF Good, Done, m
    <3>1. (Good(m) => Done(m)) => m \in S
      BY <2>0
    <3> QED
      BY <3>1 DEF m
  <2>4. Holds(text, b, t(m)) /\ ~Is(text, e + 1, Digits)
    <3> HIDE DEF e, at_, m
    <3>1. Holds(text, b, t(m)) /\ (m > 0 => ~Is(text, at_(m) + 1, Digits))
      BY <2>3
    <3> QED
      BY <2>0, <3>1 DEF e
  <2>5. k = b + Len(t(n)) /\ e = b + Len(t(m))
    OBVIOUS
  <2>6. /\ P = <<"$">> \o v /\ P \in Seq(PlaceChars) /\ v \in Seq(Digits) /\ v # << >>
    <3> HIDE DEF m
    <3> QED
      BY <2>0, PlaceholderIs, DecimalText
  <2>7. /\ y \in Seq(PlaceChars)
        /\ n > 0 => y = Comma \o P
        /\ ~(n > 0) => y = P
    <3> HIDE DEF m
    <3> QED
      BY <2>0, ItemIs
  <2>8. Good(n) => Done(n)
    BY <1>5
  <2>9. Done(n) <=> Shut(text, k) /\ NumbersTo(text, k + 1) = Counted(before + n)
    OBVIOUS
  <2>10. Done(m) <=> Shut(text, e) /\ NumbersTo(text, e + 1) = Counted(before + m)
    OBVIOUS
  <2>11. Good(n) <=> Holds(text, b, t(n)) /\ (n > 0 => ~Is(text, k + 1, Digits))
    OBVIOUS
  <2>12. n = 0 => k = b
    BY <1>3
  <2>13. n = 0 => Done(n)
    BY <1>4, <2>8, <1>3
  <2> HIDE DEF Good, Done, k, e, at_, y, P, v, S
  <2>14. y \in Seq(Chars) /\ P \in Seq(Chars) /\ Comma \in Seq(Chars)
    BY <2>6, <2>7, CommaIs, SeqMonotonic
  <2>15. /\ Holds(text, b, t(n)) /\ Holds(text, k, y) /\ e = k + Len(y)
    <3> DEFINE x == t(n)
    <3>1. Adjoin(text, b, x, y, e)
      BY <1>2, <2>1, <2>4, <2>5, <2>14 DEF Adjoin
    <3>2. k = b + Len(x)
      BY <2>5
    <3> HIDE DEF x, m
    <3>3. Holds(text, b, x) /\ Holds(text, b + Len(x), y) /\ e = (b + Len(x)) + Len(y)
      BY <3>1, AdjoinApart
    <3> QED
      BY <3>2, <3>3 DEF x
  <2>16. \E a \in Nat : /\ Holds(text, a, P) /\ Shut(text, a) /\ e = a + Len(P)
                        /\ NumbersTo(text, a + 1) = Counted(before + n)
    <3>1. CASE ~(n > 0)
      <4>1. y = P /\ Done(n)
        BY <2>0, <2>7, <2>13, <3>1
      <4> QED
        BY <2>2, <2>9, <2>15, <4>1
    <3>2. CASE n > 0
      <4>1. Holds(text, k, Comma \o P)
        BY <2>7, <2>15, <3>2
      <4>2. /\ Holds(text, k, Comma) /\ Holds(text, k + Len(Comma), P)
            /\ k + Len(Comma \o P) = (k + Len(Comma)) + Len(P)
        BY <2>14, <4>1, HoldsJoin
      <4>3. Len(Comma) = 1 /\ Comma[1] \in Plain
        BY CommaIs
      <4>4. text[k + 1] = Comma[1]
        <5>1. \A j \in 1..1 : text[k + j] = Comma[j]
          BY <4>2, <4>3 DEF Holds
        <5>2. 1 \in 1..1
          OBVIOUS
        <5> QED
          BY <5>1, <5>2
      <4>5. ~Is(text, k + 1, Digits)
        BY <4>3, <4>4, PlainNoDigit DEF Is
      <4>6. Shut(text, k) /\ NumbersTo(text, k + 1) = Counted(before + n)
        BY <2>8, <2>9, <2>11, <2>15, <4>5
      <4>7. Shut(text, k + 1) /\ NumbersTo(text, (k + 1) + 1) = NumbersTo(text, k + 1)
        BY <4>2, <4>3, <4>6, CharRead
      <4>8. k + 1 \in Nat /\ e = (k + 1) + Len(P)
        <5>1. y = Comma \o P
          BY <2>7, <3>2
        <5>2. e = k + Len(Comma \o P)
          BY <2>15, <5>1
        <5> QED
          BY <2>2, <4>2, <4>3, <5>2
      <4> QED
        BY <4>2, <4>3, <4>6, <4>7, <4>8
    <3> QED
      BY <3>1, <3>2
  <2>17. PICK a \in Nat : /\ Holds(text, a, P) /\ Shut(text, a) /\ e = a + Len(P)
                          /\ NumbersTo(text, a + 1) = Counted(before + n)
    BY <2>16
  <2>18. Shut(text, e) /\ NumbersTo(text, e + 1) = Append(NumbersTo(text, a + 1), v)
    <3>1. Holds(text, a, <<"$">> \o v) /\ e = a + Len(<<"$">> \o v)
      BY <2>6, <2>17
    <3>2. v \in Seq(Digits) /\ v # << >> /\ Shut(text, a) /\ ~Is(text, e + 1, Digits)
      BY <2>4, <2>6, <2>17
    <3>3. Numeral(text, a, v, e)
      BY <3>1, <3>2 DEF Numeral
    <3> HIDE DEF m
    <3> QED
      BY <3>2, <3>3, NumeralRead
  <2>19. Counted(before + m) = Append(Counted(before + n), v)
    <3> DEFINE z == before + n
    <3>1. z \in Nat /\ before + m = z + 1
      BY <2>0
    <3> HIDE DEF z
    <3>2. Counted(z + 1) = Append(Counted(z), Decimal(z + 1))
      BY <3>1, CountedNext
    <3> QED
      BY <3>1, <3>2 DEF z, v
  <2> QED
    BY <2>10, <2>17, <2>18, <2>19
<1>6. size \in S
  <2> HIDE DEF S
  <2> QED
    BY <1>4, <1>5, SetInduction
<1>7. c = at_(size)
  BY DEF t
<1>8. Good(size)
  <2>1. Holds(text, b, t(size))
    BY DEF t
  <2> QED
    BY <1>7, <2>1
<1>9. Done(size)
  <2> HIDE DEF Good, Done
  <2> QED
    BY <1>6, <1>8
<1>10. c \in Nat
  BY <1>3, <1>7
<1> HIDE DEF at_
<1> QED
  BY <1>7, <1>9, <1>10

LEMMA SlotNext ==
  ASSUME NEW k \in Nat, SlotsSay(k + 1)
  PROVE  /\ TextsTo(k) \in Seq(Chars)
         /\ TextsTo(k + 1) = TextsTo(k) \o UpToSlot(ParamsOf(sql), TheSlots, k + 1)
         /\ ValuesBefore(TheSlots, k + 1) \in Seq((DOMAIN args.size) \X Nat)
         /\ ValuesBefore(TheSlots, (k + 1) + 1)
              = ValuesBefore(TheSlots, k + 1) \o ValuesOf(TheSlots, k + 1)
<1> DEFINE P == ParamsOf(sql)
           W == (DOMAIN args.size) \X Nat
           n == k + 1
           f == [s \in 1..k |-> UpToSlot(P, TheSlots, s)]
           g == [s \in 1..n |-> UpToSlot(P, TheSlots, s)]
           u == [r \in 1..(n - 1) |-> ValuesOf(TheSlots, r)]
           v == [r \in 1..((n + 1) - 1) |-> ValuesOf(TheSlots, r)]
<1>1. n \in Nat /\ n - 1 = k /\ (n + 1) - 1 = n /\ n \in 1..n /\ \A s \in 1..k : s \in 1..n
  OBVIOUS
<1> HIDE DEF n
<1>2. \A s \in 1..n : UpToSlot(P, TheSlots, s) \in Seq(Chars) /\ ValuesOf(TheSlots, s) \in Seq(W)
  BY DEF SlotsSay, n
<1>3. f \in [1..k -> Seq(Chars)] /\ g \in [1..n -> Seq(Chars)] /\ \A s \in 1..k : g[s] = f[s]
  BY <1>1, <1>2
<1>4. u \in [1..k -> Seq(W)] /\ v \in [1..n -> Seq(W)] /\ \A s \in 1..k : v[s] = u[s]
  BY <1>1, <1>2
<1>5. g[n] = UpToSlot(P, TheSlots, n) /\ TextsTo(k) = FlattenSeq(f) /\ TextsTo(n) = FlattenSeq(g)
  BY <1>1 DEF TextsTo
<1>6. /\ v[n] = ValuesOf(TheSlots, n)
      /\ ValuesBefore(TheSlots, n) = FlattenSeq(u) /\ ValuesBefore(TheSlots, n + 1) = FlattenSeq(v)
  BY <1>1 DEF ValuesBefore
<1> HIDE DEF f, g, u, v, W
<1>7. FlattenSeq(g) = FlattenSeq(f) \o g[n] /\ FlattenSeq(f) \in Seq(Chars)
  <2>1. g \in [1..(k + 1) -> Seq(Chars)] /\ \A s \in 1..k : g[s] = f[s]
    BY <1>3 DEF n
  <2>2. FlattenSeq(g) = FlattenSeq(f) \o g[k + 1]
    BY <1>3, <2>1, FlattenNext
  <2>3. FlattenSeq(f) \in Seq(Chars)
    BY <1>3, FlattenStep
  <2> QED
    BY <2>2, <2>3 DEF n
<1>8. FlattenSeq(v) = FlattenSeq(u) \o v[n] /\ FlattenSeq(u) \in Seq(W)
  <2>1. v \in [1..(k + 1) -> Seq(W)] /\ \A s \in 1..k : v[s] = u[s]
    BY <1>4 DEF n
  <2>2. FlattenSeq(v) = FlattenSeq(u) \o v[k + 1]
    BY <1>4, <2>1, FlattenNext
  <2>3. FlattenSeq(u) \in Seq(W)
    BY <1>4, FlattenStep
  <2> QED
    BY <2>2, <2>3 DEF n
<1> QED
  BY <1>5, <1>6, <1>7, <1>8 DEF n, W

LEMMA EndsBefore ==
  ASSUME Scanned
  PROVE  \A n \in 0..Len(toks) : /\ EndAt(TheSlots, Rank(n)) \in Nat
                                 /\ 0 < EndAt(TheSlots, Rank(n))
                                 /\ EndAt(TheSlots, Rank(n)) <= From(n)
<1> DEFINE N == Len(toks)
           E(n) == EndAt(TheSlots, Rank(n))
           Good(n) == E(n) \in Nat /\ 0 < E(n) /\ E(n) <= From(n)
           S == {n \in Nat : n <= N => Good(n)}
<1>1. /\ N \in Nat
      /\ \A m \in 0..N : From(m) \in Nat /\ 0 < From(m)
      /\ \A m \in 1..N : toks[m].hi = From(m)
      /\ \A a, b \in 0..N : a < b => From(a) < From(b)
  BY Places
<1>2. 0 \in S
  <2>1. Rank(0) = 0
    BY SlotsGrow
  <2>2. E(0) = 1 /\ From(0) = 1
    BY <2>1 DEF EndAt, From
  <2> QED
    BY <2>2
<1>3. ASSUME NEW n \in Nat, n \in S
      PROVE  n + 1 \in S
  <2> SUFFICES ASSUME n + 1 <= N
               PROVE  Good(n + 1)
    OBVIOUS
  <2> DEFINE m == n + 1
  <2>1. m \in 1..N /\ m - 1 = n /\ m \in 0..N /\ n \in 0..N /\ n < m /\ n <= N
    BY <1>1
  <2>2. Good(n)
    BY <1>3, <2>1
  <2> HIDE DEF m
  <2>3. From(n) < From(m) /\ From(m) \in Nat /\ From(n) \in Nat
    BY <1>1, <2>1
  <2>4. CASE IsSlot(toks[m])
    <3>1. TheSlots[Rank(n) + 1] = toks[m] /\ Rank(m) = Rank(n) + 1 /\ Rank(n) \in Nat
      BY <2>1, <2>4, SlotsAre, SlotsGrow DEF TheSlots
    <3>2. Rank(m) # 0
      BY <3>1
    <3>3. E(m) = From(m)
      BY <1>1, <2>1, <3>1, <3>2 DEF EndAt
    <3>4. Good(m)
      BY <1>1, <2>1, <3>3
    <3> QED
      BY <3>4 DEF m
  <2>5. CASE ~IsSlot(toks[m])
    <3>1. Rank(m) = Rank(n)
      BY <2>1, <2>5, SlotsGrow
    <3>2. E(m) = E(n)
      BY <3>1
    <3> HIDE DEF E
    <3>3. Good(m)
      BY <2>2, <2>3, <3>2
    <3> QED
      BY <3>3 DEF m
  <2> QED
    BY <2>4, <2>5
<1>4. Nat \subseteq S
  <2> HIDE DEF S
  <2> QED
    BY <1>2, <1>3, SetInduction
<1>5. \A n \in 0..N : n \in Nat /\ n <= N
  BY <1>1
<1> QED
  BY <1>4, <1>5

(* What stands for token m, and for the first m tokens. *)
Image(m) == IF IsSlot(toks[m]) THEN PlaceholdersOf(TheSlots, Rank(m)) ELSE Literal(toks[m])

Written(m) == TextsTo(Rank(m)) \o Since(m)

(* The arguments that these use up. *)
Spent(m) == Len(ValuesBefore(TheSlots, Rank(m) + 1))

LEMMA WrittenFirst ==
  ASSUME Scanned
  PROVE  Written(0) = << >> /\ Spent(0) = 0
<1>1. Rank(0) = 0
  BY SlotsGrow
<1>2. EndAt(TheSlots, 0) = 1 /\ From(0) = 1
  BY DEF EndAt, From
<1>3. TextsTo(0) = << >> /\ ValuesBefore(TheSlots, 0 + 1) = << >>
  <2> DEFINE f == [s \in 1..0 |-> UpToSlot(ParamsOf(sql), TheSlots, s)]
             u == [r \in 1..((0 + 1) - 1) |-> ValuesOf(TheSlots, r)]
  <2>1. f \in [1..0 -> Seq(Chars)] /\ u \in [1..0 -> Seq(Chars)] /\ 0 \in Nat
    OBVIOUS
  <2>2. TextsTo(0) = FlattenSeq(f) /\ ValuesBefore(TheSlots, 0 + 1) = FlattenSeq(u)
    BY DEF TextsTo, ValuesBefore
  <2> HIDE DEF f, u
  <2> QED
    BY <2>1, <2>2, FlattenStep
<1>4. Since(0) = << >>
  <2>1. sql \in Seq(Chars) /\ 1 \in Nat /\ 0 < 1 /\ 1 <= 1 /\ 1 <= EndOf(sql)
    BY LenProperties DEF Scanned, Types, EndOf
  <2>2. TextBetween(ParamsOf(sql), 1, 1) = << >>
    BY <2>1, TextBetweenNext
  <2> QED
    BY <1>1, <1>2, <2>2 DEF Since
<1>5. << >> \o << >> = << >> /\ Len(<< >>) = 0
  <2>1. << >> \in Seq(Chars)
    BY EmptySeq
  <2> QED
    BY <2>1, ConcatEmptySeq, EmptySeq
<1> QED
  BY <1>1, <1>3, <1>4, <1>5 DEF Written, Spent

PlaceText(size, before) == IF size = 0 THEN <<"N">> ELSE SliceText(size, before)

LEMMA PlaceTextIs ==
  ASSUME NEW slots, NEW s,
         NEW n, n = Len(ValuesBefore(slots, s)), n \in Nat,
         NEW size, size = Len(ValuesOf(slots, s)), size \in Nat
  PROVE  PlaceholdersOf(slots, s) = PlaceText(size, n) /\ PlaceText(size, n) \in Seq(Chars)
<1>1. PlaceholdersOf(slots, s)
        = IF size = 0 THEN <<"N">>
          ELSE Tail(FlattenSeq([e \in 1..size |-> <<",">> \o Placeholder(n + e)]))
  BY Zenon DEF PlaceholdersOf
<1>2. size > 0 =>
        /\ Tail(FlattenSeq([e \in 1..size |-> <<",">> \o Placeholder(n + e)])) = SliceText(size, n)
        /\ SliceText(size, n) \in Seq(Chars)
  BY SliceIs
<1>3. <<"N">> \in Seq(Chars)
  <2>1. "N" \in Chars
    BY DEF Chars
  <2> QED
    BY <2>1
<1>4. size # 0 => size > 0
  OBVIOUS
<1> DEFINE null == <<"N">>
           tail == Tail(FlattenSeq([e \in 1..size |-> <<",">> \o Placeholder(n + e)]))
<1> HIDE DEF null, tail
<1>5. PlaceholdersOf(slots, s) = IF size = 0 THEN null ELSE tail
  BY <1>1, Zenon DEF null, tail
<1>6. size > 0 => tail = SliceText(size, n) /\ SliceText(size, n) \in Seq(Chars)
  BY <1>2, Zenon DEF tail
<1>7. PlaceText(size, n) = IF size = 0 THEN null ELSE SliceText(size, n)
  BY DEF PlaceText, null
<1>8. null \in Seq(Chars)
  BY <1>3 DEF null
<1> QED
  BY <1>4, <1>5, <1>6, <1>7, <1>8

LEMMA WrittenNext ==
  ASSUME Scanned, SlotsSay(Rank(Len(toks))), NEW m \in 1..Len(toks)
  PROVE  /\ Written(m - 1) \in Seq(Chars) /\ Image(m) \in Seq(Chars)
         /\ Written(m) = Written(m - 1) \o Image(m)
         /\ Spent(m - 1) \in Nat
         /\ ~IsSlot(toks[m]) => Spent(m) = Spent(m - 1)
         /\ IsSlot(toks[m]) =>
              \E size \in Nat : Image(m) = PlaceText(size, Spent(m - 1)) /\ Spent(m) = Spent(m - 1) + size
<1> DEFINE n == m - 1
           N == Len(toks)
           P == ParamsOf(sql)
           k == Rank(n)
           K == DOMAIN args.size
           image == Image(m)
<1>1. /\ N \in Nat
      /\ \A j \in 0..N : From(j) \in Nat /\ 0 < From(j) /\ From(j) <= EndOf(sql)
      /\ \A a, b \in 0..N : a < b => From(a) < From(b)
      /\ \A j \in 1..N : toks[j].lo = From(j - 1) /\ toks[j].hi = From(j)
  BY Places
<1>2. n \in 0..N /\ m \in 0..N /\ n < m /\ N \in 0..N /\ m <= N /\ n <= N
  BY <1>1
<1>3. /\ From(n) \in Nat /\ 0 < From(n) /\ From(m) \in Nat /\ 0 < From(m) /\ From(m) <= EndOf(sql)
      /\ From(n) <= From(m) /\ From(n) <= EndOf(sql)
      /\ toks[m].lo = From(n) /\ toks[m].hi = From(m)
  BY <1>1, <1>2
<1>4. /\ k \in Nat /\ Rank(m) \in Nat /\ Rank(N) \in Nat
      /\ Rank(m) <= Rank(N) /\ k <= Rank(N)
      /\ ~IsSlot(toks[m]) => Rank(m) = k
      /\ IsSlot(toks[m]) => Rank(m) = k + 1
  BY <1>2, SlotsGrow
<1>5. /\ EndAt(TheSlots, k) \in Nat /\ 0 < EndAt(TheSlots, k) /\ EndAt(TheSlots, k) <= From(n)
  BY <1>2, EndsBefore
<1>6. sql \in Seq(Chars)
  BY DEF Scanned, Types
<1> HIDE DEF n, N, k, P
<1>7. SlotsSay(k) /\ SlotsSay(Rank(m))
  <2>1. \A s : (s \in 1..k => s \in 1..Rank(N)) /\ (s \in 1..Rank(m) => s \in 1..Rank(N))
    BY <1>4
  <2> QED
    BY <2>1 DEF SlotsSay, N
<1>8. /\ TextsTo(k) \in Seq(Chars) /\ Since(n) \in Seq(Chars)
      /\ ValuesBefore(TheSlots, k + 1) \in Seq(K \X Nat)
  BY <1>2, <1>5, <1>7, SaysTyped DEF k, N
<1>9. Written(n) \in Seq(Chars) /\ Written(n) = TextsTo(k) \o Since(n)
  <2>1. TextsTo(k) \o Since(n) \in Seq(Chars)
    BY <1>8, ConcatProperties
  <2> QED
    BY <2>1 DEF Written, k
<1>10. Spent(n) \in Nat /\ Spent(n) = Len(ValuesBefore(TheSlots, k + 1))
  BY <1>8, LenProperties DEF Spent, k
<1>11. CASE ~IsSlot(toks[m])
  <2>1. image = Literal(toks[m]) /\ Rank(m) = k
    BY <1>4, <1>11 DEF Image
  <2>2. image \in Seq(Chars) /\ TextBetween(P, From(n), From(m)) = image
    BY <2>1, LiteralIs DEF n, P
  <2>3. Since(m) = Since(n) \o image
    <3> DEFINE E == EndAt(TheSlots, k)
    <3>1. E \in Nat /\ 0 < E /\ E <= From(n)
      BY <1>5
    <3>2. Since(m) = TextBetween(P, E, From(m)) /\ Since(n) = TextBetween(P, E, From(n))
      BY <2>1 DEF Since, P, k
    <3> HIDE DEF E, image
    <3>3. TextBetween(P, E, From(m)) = TextBetween(P, E, From(n)) \o TextBetween(P, From(n), From(m))
      BY <1>3, <1>6, <3>1, TextBetweenJoins
    <3> QED
      BY <2>2, <3>2, <3>3
  <2> HIDE DEF image
  <2>4. (TextsTo(k) \o Since(n)) \o image = TextsTo(k) \o (Since(n) \o image)
    BY <1>8, <2>2, Associates
  <2>5. Written(m) = Written(n) \o image
    BY <1>9, <2>1, <2>3, <2>4 DEF Written
  <2>6. Spent(m) = Spent(n)
    BY <2>1 DEF Spent, k
  <2> QED
    BY <1>9, <1>10, <1>11, <2>2, <2>5, <2>6 DEF n, image
<1>12. CASE IsSlot(toks[m])
  <2> DEFINE z == k + 1
             place == PlaceholdersOf(TheSlots, z)
             size == Len(ValuesOf(TheSlots, z))
  <2>1. Rank(m) = z /\ z \in Nat /\ z - 1 = k /\ z # 0 /\ z \in 1..z
    BY <1>4, <1>12
  <2>2. image = place
    BY <1>12, <2>1 DEF Image
  <2>3. TheSlots[z] = toks[m]
    BY <1>12, SlotsAre DEF TheSlots, n, k
  <2>4. /\ TextsTo(z) = TextsTo(k) \o UpToSlot(P, TheSlots, z)
        /\ ValuesBefore(TheSlots, z + 1) = ValuesBefore(TheSlots, z) \o ValuesOf(TheSlots, z)
    BY <1>4, <1>7, <2>1, SlotNext DEF P
  <2>5. ValuesOf(TheSlots, z) \in Seq(K \X Nat)
    <3> HIDE DEF z
    <3> QED
      BY <1>7, <2>1 DEF SlotsSay
  <2>6. EndAt(TheSlots, z) = From(m)
    BY <1>3, <2>1, <2>3 DEF EndAt
  <2>7. ValuesBefore(TheSlots, z) \in Seq(K \X Nat) /\ Spent(n) = Len(ValuesBefore(TheSlots, z))
    BY <1>8, <1>10
  <2> HIDE DEF z
  <2>8. size \in Nat
    BY <2>5, LenProperties
  <2> HIDE DEF K, size
  <2>9. place = PlaceText(size, Spent(n)) /\ PlaceText(size, Spent(n)) \in Seq(Chars)
    BY <1>10, <2>7, <2>8, PlaceTextIs DEF size
  <2> HIDE DEF place, image
  <2>10. image \in Seq(Chars)
    BY <2>2, <2>9
  <2>11. UpToSlot(P, TheSlots, z) = Since(n) \o image
    <3>1. UpToSlot(P, TheSlots, z) = TextBetween(P, EndAt(TheSlots, z - 1), TheSlots[z].lo) \o place
      BY DEF UpToSlot, place
    <3>2. TextBetween(P, EndAt(TheSlots, z - 1), TheSlots[z].lo) = Since(n)
      BY <1>3, <2>1, <2>3 DEF Since, P, k
    <3> QED
      BY <2>2, <3>1, <3>2
  <2>12. Since(m) = << >>
    <3>1. TextBetween(P, From(m), From(m)) = << >>
      BY <1>3, <1>6, TextBetweenNext
    <3> QED
      BY <2>1, <2>6, <3>1 DEF Since, P
  <2>13. (TextsTo(k) \o Since(n)) \o image = TextsTo(k) \o (Since(n) \o image)
    BY <1>8, <2>10, Associates
  <2>14. Written(m) = TextsTo(z) \o << >>
    BY <2>1, <2>12 DEF Written
  <2>15. TextsTo(z) = Written(n) \o image
    BY <1>9, <2>4, <2>11, <2>13
  <2>16. Written(n) \o image \in Seq(Chars)
    BY <1>9, <2>10, ConcatProperties
  <2>17. Written(m) = Written(n) \o image
    BY <2>14, <2>15, <2>16, ConcatEmptySeq
  <2>18. Spent(m) = Spent(n) + size
    <3>1. Len(ValuesBefore(TheSlots, z) \o ValuesOf(TheSlots, z))
            = Len(ValuesBefore(TheSlots, z)) + Len(ValuesOf(TheSlots, z))
      BY <2>5, <2>7, ConcatProperties
    <3> QED
      BY <2>1, <2>4, <2>7, <3>1 DEF Spent, size
  <2> QED
    BY <1>9, <1>10, <1>12, <2>2, <2>8, <2>9, <2>10, <2>17, <2>18 DEF n, image
<1> QED
  BY <1>11, <1>12

(* The images of the tokens stand one behind the other in what is written. *)
LEMMA ImagesHold ==
  ASSUME Scanned, SlotsSay(Rank(Len(toks))), buf = Written(Len(toks))
  PROVE  /\ buf \in Seq(Chars)
         /\ Len(Written(Len(toks))) = Len(buf)
         /\ \A m \in 0..Len(toks) : Len(Written(m)) \in Nat
         /\ \A m \in 1..Len(toks) : /\ Holds(buf, Len(Written(m - 1)), Image(m))
                                    /\ Len(Written(m)) = Len(Written(m - 1)) + Len(Image(m))
<1> DEFINE N == Len(toks)
           S == {j \in Nat : j <= N => Holds(buf, 0, Written(N - j))}
<1>1. N \in Nat
  BY Places
<1>2. \A m \in 0..N : Written(m) \in Seq(Chars)
  <2> TAKE m \in 0..N
  <2>1. CASE m = 0
    BY <2>1, WrittenFirst, EmptySeq
  <2>2. CASE m # 0
    <3>1. m \in 1..N
      BY <2>2
    <3>2. Written(m - 1) \in Seq(Chars) /\ Image(m) \in Seq(Chars) /\ Written(m) = Written(m - 1) \o Image(m)
      BY <3>1, WrittenNext
    <3>3. Written(m - 1) \o Image(m) \in Seq(Chars)
      BY <3>2, ConcatProperties
    <3> QED
      BY <3>2, <3>3
  <2> QED
    BY <2>1, <2>2
<1>3. buf \in Seq(Chars) /\ buf = Written(N)
  <2>1. N \in 0..N
    BY <1>1
  <2> QED
    BY <1>2, <2>1
<1>4. buf \in Seq(Chars)
  BY <1>3
<1>5. Len(buf) \in Nat
  BY <1>4, LenProperties
<1> HIDE DEF N
<1>6. 0 \in S
  <2>1. Holds(buf, 0, buf)
    <3>1. 0 \in Nat /\ 0 + Len(buf) <= Len(buf) /\ \A j \in 1..Len(buf) : 0 + j = j
      BY <1>5
    <3> QED
      BY <3>1 DEF Holds
  <2>2. N - 0 = N
    BY <1>1
  <2> QED
    BY <1>3, <2>1, <2>2
<1>7. ASSUME NEW j \in Nat, j \in S
      PROVE  j + 1 \in S
  <2> SUFFICES ASSUME j + 1 <= N
               PROVE  Holds(buf, 0, Written(N - (j + 1)))
    OBVIOUS
  <2> DEFINE m == N - j
  <2>1. m \in 1..N /\ N - (j + 1) = m - 1 /\ j <= N
    BY <1>1
  <2>2. Holds(buf, 0, Written(m))
    BY <1>7, <2>1
  <2> HIDE DEF m
  <2>3. Written(m - 1) \in Seq(Chars) /\ Image(m) \in Seq(Chars) /\ Written(m) = Written(m - 1) \o Image(m)
    BY <2>1, WrittenNext DEF N
  <2>4. Holds(buf, 0, Written(m - 1))
    BY <1>4, <2>2, <2>3, HoldsJoin
  <2> QED
    BY <2>1, <2>4
<1>8. Nat \subseteq S
  <2> HIDE DEF S
  <2> QED
    BY <1>6, <1>7, SetInduction
<1>9. \A m \in 0..N : Holds(buf, 0, Written(m))
  <2> TAKE m \in 0..N
  <2>1. N - m \in Nat /\ N - m <= N /\ N - (N - m) = m
    BY <1>1
  <2>2. N - m \in S
    BY <1>8, <2>1
  <2> QED
    BY <2>1, <2>2
<1>10. ASSUME NEW m \in 1..N
       PROVE  /\ Holds(buf, Len(Written(m - 1)), Image(m))
              /\ Len(Written(m)) = Len(Written(m - 1)) + Len(Image(m))
  <2> DEFINE x == Written(m - 1)
             y == Image(m)
  <2>1. x \in Seq(Chars) /\ y \in Seq(Chars) /\ Written(m) = x \o y
    BY WrittenNext DEF N
  <2>2. Holds(buf, 0, x \o y)
    <3>1. m \in 0..N
      BY <1>1
    <3> QED
      BY <1>9, <2>1, <3>1
  <2> HIDE DEF x, y
  <2>3. Holds(buf, 0 + Len(x), y)
    BY <1>4, <2>1, <2>2, HoldsJoin
  <2>4. Len(x) \in Nat /\ Len(x \o y) = Len(x) + Len(y)
    BY <2>1, LenProperties, ConcatProperties
  <2>5. 0 + Len(x) = Len(x)
    BY <2>4
  <2> QED
    BY <2>1, <2>3, <2>4, <2>5 DEF x, y
<1>11. \A m \in 0..N : Len(Written(m)) \in Nat
  BY <1>2, LenProperties
<1> QED
  BY <1>3, <1>4, <1>10, <1>11 DEF N

(* No region or name of the statement goes on past k. *)
Outside(k) == ~(HiddenTo(sql)[k - 1] > k) /\ Fresh(sql, k)

Seamed(ts) == \A n \in DOMAIN ts : Outside(ts[n].hi)

(* A token ends where the scan has been, outside every region. *)
SeamInv == Seamed(toks)

LEMMA SeamedMore ==
  ASSUME NEW ts \in Seq(Tokens), NEW t \in Tokens, Seamed(ts), Outside(t.hi)
  PROVE  Seamed(Append(ts, t))
<1> DEFINE more == Append(ts, t)
<1>1. /\ DOMAIN more = 1..(Len(ts) + 1) /\ DOMAIN ts = 1..Len(ts) /\ Len(ts) \in Nat
      /\ \A n \in 1..Len(ts) : more[n] = ts[n]
      /\ more[Len(ts) + 1] = t
  BY AppendProperties, LenProperties
<1> HIDE DEF more
<1>2. \A n \in 1..(Len(ts) + 1) : n \in 1..Len(ts) \/ n = Len(ts) + 1
  BY <1>1
<1> QED
  BY <1>1, <1>2 DEF Seamed, more

LEMMA SeamedFlushed ==
  ASSUME IInv, pc = "lex", SeamInv, Outside(i)
  PROVE  Flushed(i) \in Seq(Tokens) /\ Seamed(Flushed(i))
<1>1. i \in Nat /\ textStart \in Nat /\ toks \in Seq(Tokens) /\ textStart <= i
  BY TilesInParts DEF IInv, Types
<1>2. Flushed(i) \in Seq(Tokens)
  BY <1>1, FlushedFact
<1>3. CASE i > textStart
  <2> DEFINE t == Token("text", textStart, i)
  <2>1. t \in Tokens /\ t.hi = i
    BY <1>1 DEF Token, Tokens, Kinds
  <2>2. Flushed(i) = Append(toks, t)
    BY <1>3 DEF Flushed
  <2> HIDE DEF t
  <2> QED
    BY <1>1, <1>2, <2>1, <2>2, SeamedMore DEF SeamInv
<1>4. CASE ~(i > textStart)
  BY <1>2, <1>4 DEF Flushed, SeamInv
<1> QED
  BY <1>3, <1>4

LEMMA SeamEmit ==
  ASSUME IInv, ScanInv, ScanInv', SeamInv, Scanning,
         NEW kind \in Kinds, NEW hi \in Nat, Emit(kind, hi)
  PROVE  SeamInv'
<1>1. /\ pc = "lex" /\ pc' = "lex" /\ sql' = sql /\ i' = hi
      /\ toks' = Append(Flushed(i), Token(kind, i, hi))
  BY DEF Scanning, Emit
<1>2. Outside(i)
  BY <1>1 DEF ScanInv, Outside
<1>3. Outside(hi)
  BY <1>1 DEF ScanInv, Outside
<1>4. Flushed(i) \in Seq(Tokens) /\ Seamed(Flushed(i))
  BY <1>1, <1>2, SeamedFlushed
<1>5. Token(kind, i, hi) \in Tokens /\ Token(kind, i, hi).hi = hi
  BY DEF Token, Tokens, IInv, Types
<1>6. Seamed(toks')
  BY <1>1, <1>3, <1>4, <1>5, SeamedMore
<1> QED
  BY <1>1, <1>6 DEF SeamInv, Seamed, Outside

LEMMA SeamStep ==
  ASSUME IInv, ScanInv, ScanInv', SeamInv, [Next]_vars
  PROVE  SeamInv'
<1>1. CASE UNCHANGED <<sql, toks>>
  BY <1>1 DEF SeamInv, Seamed, Outside
<1>2. CASE Numbered \/ Named \/ EscapedQ \/ Ordinal
  <2>1. PICK kind \in Kinds : Scanning /\ Emit(kind, i')
    BY <1>2 DEF Numbered, Named, EscapedQ, Ordinal, Kinds, Emit
  <2>2. i' \in Nat
    <3>1. i \in 1..Len(sql) /\ sql \in Seq(Chars) /\ i \in Nat
      <4>1. sql \in Seq(Chars) /\ i \in Nat /\ 1 <= textStart /\ textStart <= i /\ textStart \in Nat
        BY TilesInParts DEF IInv, Types
      <4>2. Len(sql) \in Nat /\ i < Len(sql) + 1
        BY <2>1, <4>1, LenProperties DEF Scanning, EndOf
      <4> QED
        BY <4>1, <4>2
    <3>2. i + 1 \in 1..EndOf(sql)
      BY <3>1, LenProperties DEF EndOf
    <3>3. \A S : SpanEnd(sql, i + 1, S) \in (i + 1)..EndOf(sql)
      BY <3>1, <3>2, SpanIs
    <3>4. \A S : SpanEnd(sql, i + 1, S) \in Nat
      BY <3>1, <3>3
    <3> QED
      BY <1>2, <3>1, <3>4 DEF Numbered, Named, EscapedQ, Ordinal, Emit
  <2> QED
    BY <2>1, <2>2, SeamEmit
<1>3. CASE LexEnds
  <2>1. pc = "lex" /\ i = EndOf(sql) /\ toks' = Flushed(EndOf(sql)) /\ sql' = sql
    <3>1. i \in Nat /\ EndOf(sql) \in Nat /\ i <= EndOf(sql)
      <4>1. sql \in Seq(Chars) /\ i \in Nat
        BY DEF IInv, Types
      <4>2. Len(sql) \in Nat
        BY <4>1, LenProperties
      <4> QED
        BY <4>1, <4>2, TilesInParts DEF IInv, EndOf
    <3> QED
      BY <1>3, <3>1 DEF LexEnds
  <2>2. Outside(i)
    BY <2>1 DEF ScanInv, Outside
  <2>3. Seamed(toks')
    BY <2>1, <2>2, SeamedFlushed
  <2> QED
    BY <2>1, <2>3 DEF SeamInv, Seamed, Outside
<1>4. UNCHANGED <<sql, toks>> \/ Numbered \/ Named \/ EscapedQ \/ Ordinal \/ LexEnds
  BY DEF Next, Lex, LexNext, LineComment, BlockComment, EscapeString, Quoted, DollarQuoted, LoneDollar,
         Cast, LoneColon, JsonOperator, Identifier, Other, SkipTo, CompileFails, Compile, Bind,
         RenderVerbatim, RenderText, LookupFails, RenderWhole, RenderEmpty, RenderSlice, RenderEnds,
         Finished, Stop, GoTo, Rendered, vars, lexVars
<1> QED
  BY <1>1, <1>2, <1>3, <1>4

(* What a reader sees where a parameter's token begins. *)
LEMMA TokenAt ==
  ASSUME Scanned, NEW m \in 1..Len(toks), NEW k, k = From(m - 1), toks[m].kind # "text"
  PROVE  /\ k \in Visible(sql)
         /\ toks[m].kind = "named" => Is(sql, k, {":"})
         /\ toks[m].kind = "numbered" => NumberAt(sql, k) /\ From(m) = SpanEnd(sql, k + 1, Digits)
         /\ toks[m].kind = "escapedQ" => Is(sql, k, {"?"})
         /\ toks[m].kind = "ordinal" => Is(sql, k, {"?"}) /\ From(m) = k + 1
         /\ toks[m].kind \in {"named", "numbered", "escapedQ", "ordinal"}
<1>1. toks[m].lo = k /\ toks[m].hi = From(m) /\ DOMAIN toks = 1..Len(toks)
  BY Places
<1>2. toks[m] \in ParamsOf(sql)
  BY <1>1 DEF Scanned, FoundIn, Range
<1>3. PICK p \in Visible(sql) : toks[m] \in ParamsAt(sql, p)
  BY <1>2, ParamsByPlace
<1>4. p = k
  BY <1>1, <1>3, ParamsByPlace
<1> DEFINE t == toks[m]
<1>5. \/ t = Token("named", k, SpanEnd(sql, k + 1, Word)) /\ Is(sql, k, {":"})
      \/ t = Token("numbered", k, SpanEnd(sql, k + 1, Digits)) /\ Is(sql, k, {"$"}) /\ Is(sql, k + 1, Digits)
      \/ t = Token("escapedQ", k, k + 2) /\ Is(sql, k, {"?"})
      \/ t = Token("ordinal", k, k + 1) /\ Is(sql, k, {"?"})
  BY <1>3, <1>4 DEF ParamsAt
<1> HIDE DEF t
<1>6. \/ t.kind = "named" /\ Is(sql, k, {":"})
      \/ t.kind = "numbered" /\ t.hi = SpanEnd(sql, k + 1, Digits) /\ Is(sql, k, {"$"}) /\ Is(sql, k + 1, Digits)
      \/ t.kind = "escapedQ" /\ Is(sql, k, {"?"})
      \/ t.kind = "ordinal" /\ t.hi = k + 1 /\ Is(sql, k, {"?"})
  BY <1>5 DEF Token
<1> QED
  BY <1>1, <1>3, <1>4, <1>6 DEF t, NumberAt

(* A number a reader sees is where a numbered token begins. *)
LEMMA NumberInside ==
  ASSUME Scanned, NEW m \in 1..Len(toks),
         NEW p \in From(m - 1)..(From(m) - 1), p \in Visible(sql), NumberAt(sql, p)
  PROVE  toks[m].kind = "numbered" /\ p = From(m - 1)
<1> DEFINE N == Len(toks)
           t == Token("numbered", p, SpanEnd(sql, p + 1, Digits))
<1>1. t \in ParamsAt(sql, p)
  BY DEF NumberAt, ParamsAt
<1>2. t \in ParamsOf(sql)
  BY <1>1, ParamsByPlace
<1>3. t.kind = "numbered" /\ t.lo = p
  BY DEF Token
<1> HIDE DEF t
<1>4. PICK n \in 1..N : t = toks[n]
  BY <1>2, Places DEF Scanned, FoundIn, Range
<1>5. toks[n].kind = "numbered" /\ From(n - 1) = p
  BY <1>3, <1>4, Places
<1>6. /\ N \in Nat
      /\ \A k \in 0..N : From(k) \in Nat
      /\ \A a, b \in 0..N : a < b => From(a) < From(b)
  BY Places
<1> HIDE DEF N
<1>7. n \in 0..N /\ n - 1 \in 0..N /\ m \in 0..N /\ m - 1 \in 0..N
  BY <1>4, <1>6 DEF N
<1>8. From(m - 1) <= p /\ p < From(m) /\ From(m) \in Nat /\ From(m - 1) \in Nat /\ p \in Nat
  BY <1>6, <1>7
<1>9. ~(n < m)
  <2> SUFFICES ASSUME n < m
               PROVE  FALSE
    OBVIOUS
  <2>1. n - 1 < m - 1
    BY <1>7
  <2>2. From(n - 1) < From(m - 1)
    BY <1>6, <1>7, <2>1
  <2> QED
    BY <1>5, <1>8, <2>2
<1>10. ~(m < n)
  <2> SUFFICES ASSUME m < n
               PROVE  FALSE
    OBVIOUS
  <2>1. m = n - 1 \/ m < n - 1
    BY <1>7
  <2>2. From(m) <= From(n - 1)
    BY <1>5, <1>6, <1>7, <1>8, <2>1
  <2> QED
    BY <1>5, <1>8, <2>2
<1>11. n = m
  BY <1>7, <1>9, <1>10
<1> QED
  BY <1>5, <1>11

(* The image of a slot begins like a placeholder or NULL, and holds no colon. *)
LEMMA PlaceTextEnds ==
  ASSUME NEW size \in Nat, NEW before \in Nat, NEW x, x = PlaceText(size, before)
  PROVE  /\ x \in Seq(Chars) /\ Len(x) \in Nat /\ Len(x) # 0
         /\ x[1] \in {"$", "N"} /\ x[Len(x)] # ":"
<1>1. CASE size = 0
  <2>1. x = <<"N">>
    BY <1>1 DEF PlaceText
  <2>2. "N" \in Chars
    BY DEF Chars
  <2> QED
    BY <2>1, <2>2
<1>2. CASE size # 0
  <2>1. x = SliceText(size, before) /\ size > 0
    BY <1>2 DEF PlaceText
  <2>2. x \in Seq(PlaceChars) /\ x # << >> /\ x[1] = "$"
    BY <2>1, SliceFacts
  <2>3. Len(x) \in Nat /\ Len(x) # 0
    BY <2>2, LenProperties, EmptySeq
  <2>4. Len(x) \in 1..Len(x)
    BY <2>3
  <2>5. x[Len(x)] \in PlaceChars
    BY <2>2, <2>4, ElementOfSeq
  <2>6. x \in Seq(Chars)
    BY <2>2, CommaIs, SeqMonotonic
  <2> QED
    BY <2>2, <2>3, <2>5, <2>6, CommaIs
<1> QED
  BY <1>1, <1>2

(* Token m is copied: its image is the text it stands for. *)
Copied(m) == toks[m].kind \in {"text", "numbered"}

(* It becomes one ?. *)
Lone(m) == ~IsSlot(toks[m]) /\ toks[m].kind \in {"escapedQ", "ordinal"}

LEMMA TokenIs ==
  ASSUME Scanned, NEW m \in 1..Len(toks)
  PROVE  /\ IsSlot(toks[m]) \/ Lone(m) \/ Copied(m)
         /\ IsSlot(toks[m]) => toks[m].kind \in {"named", "ordinal"}
         /\ Copied(m) => ~IsSlot(toks[m])
<1>1. toks[m].kind \in Kinds
  BY Places DEF Tokens
<1> QED
  BY <1>1 DEF IsSlot, Lone, Copied, Kinds

LEMMA ImageCopied ==
  ASSUME Scanned, NEW m \in 1..Len(toks), Copied(m), NEW lo, lo = From(m - 1), NEW hi, hi = From(m)
  PROVE  /\ Image(m) = SubSeq(sql, lo, hi - 1) /\ Image(m) \in Seq(Chars)
         /\ Len(Image(m)) = hi - lo
         /\ \A j \in 1..(hi - lo) : Image(m)[j] = sql[(lo + j) - 1]
         /\ lo \in Nat /\ hi \in Nat /\ 1 <= lo /\ lo < hi /\ hi <= EndOf(sql)
<1>1. /\ toks[m].lo = lo /\ toks[m].hi = hi
      /\ Len(toks) \in Nat /\ EndOf(sql) \in Nat
      /\ \A k \in 0..Len(toks) : From(k) \in Nat /\ 0 < From(k) /\ From(k) <= EndOf(sql)
      /\ \A a, b \in 0..Len(toks) : a < b => From(a) < From(b)
  BY Places
<1>2. m \in 0..Len(toks) /\ m - 1 \in 0..Len(toks) /\ m - 1 < m
  BY <1>1
<1>3. lo \in Nat /\ hi \in Nat /\ 1 <= lo /\ lo < hi /\ hi <= EndOf(sql)
  BY <1>1, <1>2
<1>4. Image(m) = SubSeq(sql, lo, hi - 1)
  BY <1>1, TokenIs DEF Image, Literal, Copied
<1>5. sql \in Seq(Chars)
  BY DEF Scanned, Types
<1>6. Len(sql) \in Nat /\ EndOf(sql) = Len(sql) + 1
  BY <1>5, LenProperties DEF EndOf
<1>7. /\ lo \in Int /\ hi - 1 \in Int /\ ~((hi - 1) < lo) /\ (hi - 1) - lo + 1 = hi - lo
      /\ lo <= hi - 1
      /\ \A j \in lo..(hi - 1) : j \in 1..Len(sql)
  <2> HIDE DEF Image
  <2>1. lo \in Nat /\ hi \in Nat /\ 1 <= lo /\ lo < hi /\ hi <= Len(sql) + 1 /\ Len(sql) \in Nat
    BY <1>3, <1>6
  <2>2. \A j \in lo..(hi - 1) : j \in 1..Len(sql)
    BY <2>1
  <2> QED
    BY <2>1, <2>2
<1>8. \A j \in lo..(hi - 1) : sql[j] \in Chars
  BY <1>5, <1>7, ElementOfSeq
<1> DEFINE w == SubSeq(sql, lo, hi - 1)
<1>9. /\ w \in Seq(Chars) /\ Len(w) = hi - lo
      /\ \A j \in 1..(hi - lo) : w[j] = sql[(lo + j) - 1]
  BY <1>7, <1>8, SubSeqProperties
<1> QED
  BY <1>3, <1>4, <1>9

LEMMA ImageLone ==
  ASSUME Scanned, NEW m \in 1..Len(toks), Lone(m)
  PROVE  Image(m) = <<"?">> /\ sql[From(m - 1)] = "?" /\ From(m - 1) < EndOf(sql)
<1>1. toks[m].lo = From(m - 1) /\ toks[m].hi = From(m)
  BY Places
<1> DEFINE k == From(m - 1)
<1>2. Is(sql, k, {"?"}) /\ (toks[m].kind = "ordinal" => From(m) = k + 1)
  BY TokenAt DEF Lone
<1>3. k \in Nat /\ sql \in Seq(Chars) /\ k \in 1..Len(sql)
  <2>1. sql \in Seq(Chars)
    BY DEF Scanned, Types
  <2>2. Len(toks) \in Nat /\ \A j \in 0..Len(toks) : From(j) \in Nat /\ 0 < From(j)
    BY Places
  <2>3. m - 1 \in 0..Len(toks)
    BY <2>2
  <2>4. k \in Nat /\ 0 < k
    BY <2>2, <2>3
  <2>5. Len(sql) \in Nat /\ EndOf(sql) = Len(sql) + 1
    BY <2>1, LenProperties DEF EndOf
  <2> QED
    BY <1>2, <2>1, <2>4, <2>5 DEF Is
<1> HIDE DEF k
<1>4. sql[k] = "?" /\ k < EndOf(sql)
  BY <1>2 DEF Is
<1>5. CASE toks[m].kind = "escapedQ"
  BY <1>4, <1>5 DEF Image, Lone, Literal, k
<1>6. CASE toks[m].kind = "ordinal"
  <2>1. Image(m) = SubSeq(sql, k, (k + 1) - 1)
    BY <1>1, <1>2, <1>6 DEF Image, Lone, Literal, k
  <2>2. (k + 1) - 1 = k
    BY <1>3
  <2>3. SubSeq(sql, k, k) = <<sql[k]>>
    <3> DEFINE w == SubSeq(sql, k, k)
    <3>1. k \in Int /\ k <= k /\ k - k + 1 = 1 /\ \A j \in k..k : j = k
      BY <1>3
    <3>2. \A j \in k..k : sql[j] \in Chars
      BY <1>3, <3>1, ElementOfSeq
    <3>3. w \in Seq(Chars) /\ Len(w) = 1 /\ \A j \in 1..1 : w[j] = sql[k + j - 1]
      BY <3>1, <3>2, SubSeqProperties
    <3>4. k + 1 - 1 = k /\ 1 \in 1..1
      BY <1>3
    <3>5. Len(w) = 1 /\ w[1] = sql[k]
      BY <3>3, <3>4
    <3> DEFINE v == <<sql[k]>>
    <3>6. v \in Seq(Chars) /\ Len(v) = 1 /\ v[1] = sql[k]
      BY <3>1, <3>2
    <3> HIDE DEF w, v
    <3>7. \A j \in 1..Len(w) : w[j] = v[j]
      BY <3>5, <3>6
    <3>8. w = v
      BY <3>3, <3>5, <3>6, <3>7, SeqEqual
    <3> QED
      BY <3>8 DEF w, v
  <2> QED
    BY <1>4, <2>1, <2>2, <2>3 DEF k
<1> QED
  BY <1>4, <1>5, <1>6 DEF Lone, k

(* The character an image begins with, and the one its token begins with. *)
Begins(m) ==
  LET c == Image(m)[1]  s == sql[From(m - 1)] IN
  /\ Image(m) \in Seq(Chars) /\ Len(Image(m)) \in Nat /\ Len(Image(m)) # 0
  /\ toks[m].kind = "text" => c = s
  /\ toks[m].kind # "text" /\ ~IsSlot(toks[m]) => c = s /\ s \in {"?", "$"}
  /\ IsSlot(toks[m]) => s \in {":", "?"} /\ c \in {"$", "N"}

LEMMA ImageBegins ==
  ASSUME Scanned, SlotsSay(Rank(Len(toks))), NEW m \in 1..Len(toks)
  PROVE  Begins(m)
<1> DEFINE k == From(m - 1)
           x == Image(m)
<1>1. CASE IsSlot(toks[m])
  <2>1. Spent(m - 1) \in Nat /\ \E size \in Nat : x = PlaceText(size, Spent(m - 1))
    BY <1>1, WrittenNext
  <2>2. PICK size \in Nat : x = PlaceText(size, Spent(m - 1))
    BY <2>1
  <2> HIDE DEF x
  <2>3. /\ x \in Seq(Chars) /\ Len(x) \in Nat /\ Len(x) # 0 /\ x[1] \in {"$", "N"}
    BY <2>1, <2>2, PlaceTextEnds
  <2>4. toks[m].kind \in {"named", "ordinal"}
    BY <1>1, TokenIs
  <2>5. Is(sql, k, {":"}) \/ Is(sql, k, {"?"})
    BY <2>4, TokenAt
  <2>6. sql[k] \in {":", "?"}
    BY <2>5 DEF Is
  <2> QED
    BY <1>1, <2>3, <2>4, <2>6 DEF Begins, x
<1>2. CASE Lone(m)
  <2>1. x = <<"?">> /\ sql[k] = "?"
    BY <1>2, ImageLone
  <2>2. x \in Seq(Chars)
    BY WrittenNext
  <2>3. Len(x) = 1 /\ x[1] = "?"
    BY <2>1
  <2> QED
    BY <1>2, <2>1, <2>2, <2>3 DEF Begins, Lone
<1>3. CASE Copied(m)
  <2> DEFINE hi == From(m)
  <2>1. /\ x \in Seq(Chars) /\ Len(x) = hi - k
        /\ \A j \in 1..(hi - k) : x[j] = sql[(k + j) - 1]
        /\ k \in Nat /\ hi \in Nat /\ k < hi
    BY <1>3, ImageCopied
  <2> HIDE DEF x, k, hi
  <2>2. 1 \in 1..(hi - k) /\ (k + 1) - 1 = k /\ Len(x) \in Nat /\ Len(x) # 0
    BY <2>1
  <2>3. x[1] = sql[k]
    BY <2>1, <2>2
  <2>4. toks[m].kind # "text" => sql[k] = "$"
    BY <1>3, TokenAt DEF Copied, NumberAt, Is, k
  <2> QED
    BY <1>3, <2>1, <2>2, <2>3, <2>4, TokenIs DEF Begins, x, k
<1> QED
  BY <1>1, <1>2, <1>3, TokenIs

(* The rendered text is the images of the tokens. *)
Laid ==
  /\ Scanned
  /\ SlotsSay(Rank(Len(toks)))
  /\ buf = Written(Len(toks))

(* What the images of the first m tokens fill. *)
Filled(m) == Len(Written(m))

LEMMA FilledIs ==
  ASSUME Laid
  PROVE  /\ buf \in Seq(Chars) /\ sql \in Seq(Chars) /\ Scanned /\ SlotsSay(Rank(Len(toks)))
         /\ Len(toks) \in Nat /\ DOMAIN toks = 1..Len(toks)
         /\ EndOf(buf) = Len(buf) + 1 /\ Len(buf) \in Nat
         /\ EndOf(sql) = Len(sql) + 1 /\ Len(sql) \in Nat
         /\ Filled(0) = 0 /\ From(0) = 1
         /\ Filled(Len(toks)) = Len(buf) /\ From(Len(toks)) = EndOf(sql)
         /\ \A m \in 0..Len(toks) : Filled(m) \in Nat
         /\ \A m \in 0..Len(toks) : From(m) \in Nat /\ 0 < From(m) /\ From(m) <= EndOf(sql)
         /\ \A a, b \in 0..Len(toks) : a < b => From(a) < From(b)
         /\ \A m \in 1..Len(toks) : /\ Holds(buf, Filled(m - 1), Image(m))
                                    /\ Filled(m) = Filled(m - 1) + Len(Image(m))
                                    /\ Begins(m)
<1>1. Scanned /\ SlotsSay(Rank(Len(toks))) /\ buf = Written(Len(toks))
  BY DEF Laid
<1>2. buf \in Seq(Chars) /\ sql \in Seq(Chars)
  BY <1>1, ImagesHold DEF Scanned, Types
<1>3. Filled(0) = 0 /\ From(0) = 1
  <2>1. Written(0) = << >>
    BY <1>1, WrittenFirst
  <2> QED
    BY <2>1 DEF Filled, From
<1>4. /\ Len(Written(Len(toks))) = Len(buf)
      /\ \A m \in 0..Len(toks) : Len(Written(m)) \in Nat
      /\ \A m \in 1..Len(toks) : /\ Holds(buf, Len(Written(m - 1)), Image(m))
                                 /\ Len(Written(m)) = Len(Written(m - 1)) + Len(Image(m))
  BY <1>1, ImagesHold
<1>5. \A m \in 1..Len(toks) : Begins(m)
  BY <1>1, ImageBegins
<1> QED
  BY <1>1, <1>2, <1>3, <1>4, <1>5, Places, LenProperties DEF Filled, EndOf

(* What follows the image of token m. *)
LEMMA NextBegins ==
  ASSUME Laid, NEW m \in 0..Len(toks), NEW c, c = Filled(m) + 1
  PROVE  /\ m = Len(toks) => c = EndOf(buf)
         /\ m # Len(toks) => /\ c < EndOf(buf) /\ m + 1 \in 1..Len(toks) /\ (m + 1) - 1 = m
                             /\ buf[c] = Image(m + 1)[1] /\ Begins(m + 1)
                             /\ From(m) < EndOf(sql)
<1> DEFINE N == Len(toks)
           n == m + 1
<1>1. m = N => c = EndOf(buf)
  BY FilledIs
<1>2. ASSUME m # N
      PROVE  /\ c < EndOf(buf) /\ n \in 1..N /\ n - 1 = m
             /\ buf[c] = Image(n)[1] /\ Begins(n)
             /\ From(m) < EndOf(sql)
  <2>1. N \in Nat
    BY FilledIs
  <2>2. n \in 1..N /\ n - 1 = m /\ m \in 0..N /\ n \in 0..N /\ m < n
    BY <1>2, <2>1
  <2> HIDE DEF n
  <2>3. Holds(buf, Filled(m), Image(n)) /\ Begins(n)
    BY <2>2, FilledIs
  <2>4. Len(Image(n)) \in Nat /\ Len(Image(n)) # 0
    BY <2>3 DEF Begins
  <2>5. /\ Filled(m) \in Nat /\ Filled(m) + Len(Image(n)) <= Len(buf)
        /\ \A j \in 1..Len(Image(n)) : buf[Filled(m) + j] = Image(n)[j]
    BY <2>3 DEF Holds
  <2>6. 1 \in 1..Len(Image(n))
    BY <2>4
  <2>7. buf[c] = Image(n)[1]
    BY <2>5, <2>6
  <2>8. c < EndOf(buf)
    <3>1. EndOf(buf) = Len(buf) + 1 /\ Len(buf) \in Nat
      BY FilledIs
    <3> QED
      BY <2>4, <2>5, <3>1
  <2>9. From(m) < EndOf(sql)
    <3>1. From(m) < From(n) /\ From(n) <= EndOf(sql) /\ From(m) \in Nat /\ From(n) \in Nat /\ EndOf(sql) \in Nat
      BY <2>2, FilledIs
    <3> QED
      BY <3>1
  <2> QED
    BY <2>2, <2>3, <2>7, <2>8, <2>9
<1> QED
  BY <1>1, <1>2

LEMMA NoDigitNext ==
  ASSUME Laid, NEW m \in 0..Len(toks), NEW c, c = Filled(m) + 1, ~Is(sql, From(m), Digits)
  PROVE  ~Is(buf, c, Digits)
<1>0. /\ m = Len(toks) => c = EndOf(buf)
      /\ m # Len(toks) => /\ m + 1 \in 1..Len(toks) /\ (m + 1) - 1 = m
                          /\ buf[c] = Image(m + 1)[1] /\ Begins(m + 1)
                          /\ From(m) < EndOf(sql)
  BY NextBegins
<1>1. CASE m = Len(toks)
  <2>1. c = EndOf(buf) /\ EndOf(buf) \in Nat
    BY <1>0, <1>1, FilledIs
  <2> QED
    BY <2>1 DEF Is
<1>2. CASE m # Len(toks)
  <2> DEFINE n == m + 1
             d == Image(n)[1]
  <2>1. buf[c] = d /\ Begins(n) /\ From(m) < EndOf(sql) /\ n \in 1..Len(toks) /\ n - 1 = m
    BY <1>0, <1>2
  <2> HIDE DEF n
  <2>2. \/ d = sql[From(m)]
        \/ d \in {"$", "N"}
    BY <2>1 DEF Begins
  <2>3. sql[From(m)] \notin Digits
    BY <2>1 DEF Is
  <2>4. "$" \notin Digits /\ "N" \notin Digits
    BY CharFacts DEF Letters
  <2> QED
    BY <2>1, <2>2, <2>3, <2>4 DEF Is
<1> QED
  BY <1>1, <1>2

LEMMA SlotApart ==
  ASSUME Scanned, SetApart, NEW m \in 1..Len(toks), IsSlot(toks[m])
  PROVE  /\ ~Is(sql, From(m), Word)
         /\ From(m - 1) > 1 => sql[From(m - 1) - 1] \notin Word \cup {"$"}
<1> DEFINE T == SlotsIn(ParamsOf(sql))
           r == Rank(m - 1) + 1
<1>1. /\ DOMAIN T = 1..Rank(Len(toks)) /\ T[r] = toks[m]
  BY SlotsAre
<1>2. /\ Len(toks) \in Nat /\ toks[m].lo = From(m - 1) /\ toks[m].hi = From(m)
  BY Places
<1>3. m \in 0..Len(toks) /\ m - 1 \in 0..Len(toks) /\ Len(toks) \in 0..Len(toks) /\ m <= Len(toks)
  BY <1>2
<1>4. Rank(m - 1) \in Nat /\ Rank(m) = r /\ Rank(m) <= Rank(Len(toks)) /\ Rank(Len(toks)) \in Nat
  BY <1>3, SlotsGrow
<1>5. r \in DOMAIN T
  BY <1>1, <1>4
<1> HIDE DEF r
<1>6. toks[m] \in Range(T)
  BY <1>1, <1>5 DEF Range
<1> HIDE DEF T
<1>7. ~Is(sql, toks[m].hi, Word) /\ (toks[m].lo > 1 => sql[toks[m].lo - 1] \notin Word \cup {"$"})
  BY <1>6 DEF SetApart, T
<1> QED
  BY <1>2, <1>7

(* x is the text s from lo to hi, and stands in d behind its first b characters. *)
CopyOf(s, lo, hi, d, b, x) ==
  /\ s \in Seq(Chars) /\ d \in Seq(Chars)
  /\ lo \in Nat /\ hi \in Nat /\ 1 <= lo /\ lo < hi /\ hi <= EndOf(s)
  /\ Len(x) = hi - lo
  /\ \A j \in 1..(hi - lo) : x[j] = s[(lo + j) - 1]
  /\ Holds(d, b, x)

LEMMA CopyMoved ==
  ASSUME NEW s, NEW lo, NEW hi, NEW d, NEW b, NEW x, CopyOf(s, lo, hi, d, b, x),
         NEW by, by = (b + 1) - lo
  PROVE  /\ Moved(s, lo, hi, d, by)
         /\ lo + by = b + 1 /\ hi + by = (b + Len(x)) + 1
<1>1. /\ s \in Seq(Chars) /\ d \in Seq(Chars)
      /\ lo \in Nat /\ hi \in Nat /\ 1 <= lo /\ lo < hi /\ hi <= EndOf(s)
      /\ Len(x) = hi - lo
      /\ \A j \in 1..(hi - lo) : x[j] = s[(lo + j) - 1]
  BY DEF CopyOf
<1>2. b \in Nat /\ b + Len(x) <= Len(d) /\ \A j \in 1..Len(x) : d[b + j] = x[j]
  BY DEF CopyOf, Holds
<1>3. EndOf(d) = Len(d) + 1 /\ Len(d) \in Nat
  BY <1>1, LenProperties DEF EndOf
<1>4. /\ by \in Int /\ lo + by = b + 1 /\ hi + by = (b + (hi - lo)) + 1
      /\ 1 <= b + 1
  BY <1>1, <1>2
<1>5. hi + by = (b + Len(x)) + 1 /\ 1 <= lo + by /\ hi + by <= EndOf(d)
  BY <1>1, <1>2, <1>3, <1>4
<1>6. ASSUME NEW k \in lo..(hi - 1)
      PROVE  d[k + by] = s[k]
  <2> DEFINE j == (k - lo) + 1
  <2>1. j \in 1..(hi - lo) /\ (lo + j) - 1 = k
    BY <1>1
  <2>2. b + j = k + by
    BY <1>1, <1>2
  <2> HIDE DEF j
  <2>3. d[b + j] = x[j] /\ x[j] = s[(lo + j) - 1]
    BY <1>1, <1>2, <2>1
  <2> QED
    BY <2>1, <2>2, <2>3
<1> QED
  BY <1>1, <1>4, <1>5, <1>6 DEF Moved

(* A text between parameters stands in the rendered text, and what follows it
   there cannot become a part of it. *)
LEMMA TextStands ==
  ASSUME Laid, SetApart, NEW m \in 1..Len(toks), toks[m].kind = "text",
         NEW lo, lo = From(m - 1), NEW hi, hi = From(m),
         NEW by, by = (Filled(m - 1) + 1) - lo
  PROVE  /\ Moved(sql, lo, hi, buf, by) /\ Seam(sql, hi, buf, by)
         /\ lo + by = Filled(m - 1) + 1 /\ hi + by = Filled(m) + 1
<1> DEFINE N == Len(toks)
           b == Filled(m - 1)
           x == Image(m)
<1>1. /\ Len(x) = hi - lo
      /\ \A j \in 1..(hi - lo) : x[j] = sql[(lo + j) - 1]
      /\ lo \in Nat /\ hi \in Nat /\ 1 <= lo /\ lo < hi /\ hi <= EndOf(sql)
  <2>1. Copied(m) /\ Scanned
    BY DEF Copied, Laid
  <2> QED
    BY <2>1, ImageCopied
<1>2. /\ N \in Nat /\ EndOf(buf) = Len(buf) + 1 /\ Len(buf) \in Nat
      /\ Holds(buf, b, x) /\ Filled(m) = b + Len(x)
  BY FilledIs
<1>3. CopyOf(sql, lo, hi, buf, b, x)
  BY <1>1, <1>2, FilledIs DEF CopyOf
<1>4. Moved(sql, lo, hi, buf, by) /\ lo + by = b + 1 /\ hi + by = (b + Len(x)) + 1
  <2> HIDE DEF b, x
  <2>1. by = (b + 1) - lo
    BY DEF b
  <2> QED
    BY <1>3, <2>1, CopyMoved
<1>5. hi + by = Filled(m) + 1
  BY <1>2, <1>4
<1>7. Seam(sql, hi, buf, by)
  <2>1. CASE m = N
    <3>1. hi = EndOf(sql) /\ Filled(m) + 1 = EndOf(buf)
      BY <2>1, FilledIs
    <3> QED
      BY <1>5, <3>1 DEF Seam
  <2>2. CASE m # N
    <3> DEFINE n == m + 1
               c == hi + by
    <3>1. m \in 0..N /\ c = Filled(m) + 1
      BY <1>2, <1>5
    <3>2. /\ c < EndOf(buf) /\ n \in 1..N /\ n - 1 = m
          /\ buf[c] = Image(n)[1] /\ Begins(n)
          /\ hi < EndOf(sql)
      BY <2>2, <3>1, NextBegins
    <3> HIDE DEF c
    <3>3. toks[n].kind # "text"
      <4>1. n \in DOMAIN toks /\ n > 1
        BY <1>2, <3>2, FilledIs
      <4>2. "text" \notin {toks[n].kind} \cap {toks[n - 1].kind}
        BY <4>1 DEF Laid, Scanned, Chain
      <4> QED
        BY <3>2, <4>2
    <3>4. From(n - 1) = hi
      BY <3>2
    <3> HIDE DEF n
    <3>5. CASE ~IsSlot(toks[n])
      <4>1. buf[c] = sql[hi] /\ sql[hi] \in {"?", "$"}
        BY <3>2, <3>3, <3>4, <3>5 DEF Begins
      <4> QED
        BY <3>2, <4>1 DEF Seam, c
    <3>6. CASE IsSlot(toks[n])
      <4>1. sql[hi] \in {":", "?"} /\ buf[c] \in {"$", "N"}
        BY <3>2, <3>4, <3>6 DEF Begins
      <4>2. hi > 1
        BY <1>1
      <4>3. sql[hi - 1] \notin Word \cup {"$"}
        BY <3>2, <3>4, <3>6, <4>2, SlotApart DEF Laid
      <4> QED
        BY <3>2, <4>1, <4>3 DEF Seam, c
    <3> QED
      BY <3>5, <3>6
  <2> QED
    BY <2>1, <2>2
<1> QED
  BY <1>4, <1>5, <1>7

LEMMA SettledAfter ==
  ASSUME NEW text \in Seq(Chars), NEW b, NEW x, Holds(text, b, x),
         Len(x) \in Nat, Len(x) # 0, x[Len(x)] # ":", NEW k, k = (b + Len(x)) + 1,
         ~Is(text, k, Word) \/ (x[1] \notin Word /\ \A j \in 2..Len(x) : x[j] \notin Letters)
  PROVE  Settled(text, k)
<1>1. b \in Nat /\ \A j \in 1..Len(x) : text[b + j] = x[j]
  BY DEF Holds
<1>2. /\ k \in Nat /\ 1 < k /\ 1 <= k /\ k - 1 = b + Len(x) /\ Len(x) \in 1..Len(x) /\ 1 \in 1..Len(x)
  BY <1>1
<1>3. text[k - 1] # ":"
  BY <1>1, <1>2
<1>4. Is(text, k, {":"}) => OddInRun(text, k)
  <2> SUFFICES ASSUME Is(text, k, {":"})
               PROVE  OddInRun(text, k)
    OBVIOUS
  <2>1. text[k - 1] # text[k]
    BY <1>3 DEF Is
  <2> QED
    BY <1>2, <2>1, OddFirst
<1>5. ASSUME Is(text, k, Word), NEW j \in 1..(k - 1), text[j] \in Letters
      PROVE  \E m \in j..(k - 1) : text[m] \notin Word
  <2>1. x[1] \notin Word /\ \A h \in 2..Len(x) : x[h] \notin Letters
    BY <1>5
  <2>2. text[b + 1] \notin Word
    BY <1>1, <1>2, <2>1
  <2>3. CASE j <= b + 1
    <3>1. b + 1 \in j..(k - 1)
      BY <1>1, <1>2, <2>3
    <3> QED
      BY <2>2, <3>1
  <2>4. CASE ~(j <= b + 1)
    <3>1. j - b \in 2..Len(x) /\ b + (j - b) = j /\ j - b \in 1..Len(x)
      BY <1>1, <1>2, <2>4
    <3>2. text[j] = x[j - b]
      BY <1>1, <3>1
    <3> QED
      BY <1>5, <2>1, <3>1, <3>2
  <2> QED
    BY <2>3, <2>4
<1> QED
  BY <1>3, <1>4, <1>5 DEF Settled

(* The image of a numbered parameter is a $ and digits. *)
LEMMA ImageNumbered ==
  ASSUME Scanned, NEW m \in 1..Len(toks), toks[m].kind = "numbered",
         NEW k, k = From(m - 1), NEW hi, hi = From(m), NEW x, x = Image(m)
  PROVE  /\ x \in Seq(Chars) /\ Len(x) \in Nat /\ Len(x) > 1 /\ Len(x) = hi - k
         /\ x[1] = "$" /\ \A j \in 2..Len(x) : x[j] \in Digits
         /\ ~Is(sql, hi, Digits) /\ k \in Visible(sql) /\ NumberAt(sql, k)
         /\ hi = SpanEnd(sql, k + 1, Digits)
         /\ \A j \in 1..Len(x) : x[j] = sql[(k + j) - 1]
         /\ k \in Nat /\ hi \in Nat
<1>1. k \in Visible(sql) /\ NumberAt(sql, k) /\ hi = SpanEnd(sql, k + 1, Digits)
  BY TokenAt
<1>2. /\ x \in Seq(Chars) /\ Len(x) = hi - k
      /\ \A j \in 1..(hi - k) : x[j] = sql[(k + j) - 1]
      /\ k \in Nat /\ hi \in Nat /\ 1 <= k /\ k < hi /\ hi <= EndOf(sql)
  BY ImageCopied DEF Copied
<1>3. sql \in Seq(Chars)
  BY DEF Scanned, Types
<1>4. EndOf(sql) \in Nat
  BY <1>3, LenProperties DEF EndOf
<1>5. k + 1 \in 1..EndOf(sql)
  BY <1>2, <1>4
<1>6. ~Is(sql, hi, Digits) /\ \A p \in (k + 1)..(hi - 1) : Is(sql, p, Digits)
  BY <1>1, <1>3, <1>5, SpanIs
<1>7. Is(sql, k + 1, Digits) /\ sql[k] = "$"
  BY <1>1 DEF NumberAt, Is
<1>8. hi # k + 1
  BY <1>6, <1>7
<1>9. hi - k \in Nat /\ hi - k > 1 /\ 1 \in 1..(hi - k) /\ (k + 1) - 1 = k
  BY <1>2, <1>8
<1>10. x[1] = "$"
  BY <1>2, <1>7, <1>9
<1>11. ASSUME NEW j \in 2..(hi - k)
       PROVE  x[j] \in Digits
  <2>0. k \in Nat /\ hi \in Nat /\ k < hi
    BY <1>2
  <2>1. j \in 1..(hi - k) /\ (k + j) - 1 \in (k + 1)..(hi - 1)
    BY <2>0
  <2>2. Is(sql, (k + j) - 1, Digits)
    BY <1>6, <2>1
  <2>3. x[j] = sql[(k + j) - 1]
    BY <1>2, <2>1
  <2> QED
    BY <2>2, <2>3 DEF Is
<1> QED
  BY <1>1, <1>2, <1>6, <1>9, <1>10, <1>11

(* Nothing written before a text goes on in it. *)
LEMMA TextSettled ==
  ASSUME Laid, SetApart, NEW m \in 1..Len(toks), toks[m].kind = "text",
         NEW c, c = Filled(m - 1) + 1
  PROVE  Settled(buf, c)
<1> DEFINE N == Len(toks)
           n == m - 1
           x == Image(n)
<1>0. N \in Nat /\ DOMAIN toks = 1..N /\ buf \in Seq(Chars)
  BY FilledIs
<1>1. CASE m = 1
  <2>1. c = 1
    BY <1>1, FilledIs
  <2>2. Fresh(buf, 1)
    BY <1>0, FreshEnds
  <2> QED
    BY <2>1, <2>2, FreshSettled
<1>2. CASE m # 1
  <2>1. n \in 1..N /\ n \in 0..N /\ n # N /\ n + 1 = m /\ m > 1
    BY <1>0, <1>2
  <2>2. toks[n].kind # "text"
    <3>1. "text" \notin {toks[m].kind} \cap {toks[m - 1].kind}
      BY <1>0, <2>1 DEF Laid, Scanned, Chain
    <3> QED
      BY <3>1
  <2>3. Holds(buf, Filled(n - 1), x) /\ Filled(n) = Filled(n - 1) + Len(x) /\ Begins(n) /\ Scanned
    BY <2>1, FilledIs
  <2>4. Len(x) \in Nat /\ Len(x) # 0
    BY <2>3 DEF Begins
  <2>5. buf[c] = sql[From(n)] /\ From(n) < EndOf(sql)
    <3>1. /\ buf[c] = Image(n + 1)[1] /\ Begins(n + 1) /\ From(n) < EndOf(sql)
      BY <2>1, NextBegins
    <3> HIDE DEF n
    <3>2. buf[c] = Image(m)[1] /\ Begins(m) /\ From(n) < EndOf(sql)
      BY <2>1, <3>1
    <3> QED
      BY <3>2 DEF Begins, n
  <2> HIDE DEF n
  <2>6. CASE IsSlot(toks[n])
    <3>1. ~Is(sql, From(n), Word)
      BY <2>1, <2>3, <2>6, SlotApart
    <3>2. ~Is(buf, c, Word)
      BY <2>5, <3>1 DEF Is
    <3>3. Spent(n - 1) \in Nat /\ \E size \in Nat : x = PlaceText(size, Spent(n - 1))
      BY <2>1, <2>6, WrittenNext, FilledIs
    <3> HIDE DEF x
    <3>4. x[Len(x)] # ":"
      BY <3>3, PlaceTextEnds
    <3>5. c = (Filled(n - 1) + Len(x)) + 1
      BY <2>3 DEF n
    <3> QED
      BY <1>0, <2>3, <2>4, <3>2, <3>4, <3>5, SettledAfter DEF x
  <2>7. CASE ~IsSlot(toks[n])
    <3>1. x[Len(x)] # ":" /\ x[1] \notin Word /\ \A j \in 2..Len(x) : x[j] \notin Letters
      <4>1. CASE Lone(n)
        <5>1. x = <<"?">>
          BY <2>1, <2>3, <4>1, ImageLone
        <5>2. Len(x) = 1 /\ x[1] = "?"
          BY <5>1
        <5> HIDE DEF x
        <5>3. \A j \in 2..Len(x) : FALSE
          BY <5>2
        <5>4. "?" \notin Word
          BY CharFacts
        <5> QED
          BY <5>2, <5>3, <5>4
      <4>2. CASE Copied(n)
        <5>1. toks[n].kind = "numbered"
          BY <2>2, <4>2 DEF Copied
        <5>2. x[1] = "$" /\ \A j \in 2..Len(x) : x[j] \in Digits
          BY <2>1, <2>3, <5>1, ImageNumbered
        <5>6. \A L \in Nat : L # 0 => L = 1 \/ L \in 2..L
          OBVIOUS
        <5>3. Len(x) = 1 \/ Len(x) \in 2..Len(x)
          BY <2>4, <5>6
        <5> HIDE DEF x
        <5>4. "$" \notin Word /\ \A d \in Digits : d # ":" /\ d \notin Letters
          BY CharFacts
        <5> QED
          BY <5>2, <5>3, <5>4
      <4> QED
        BY <2>1, <2>3, <2>7, <4>1, <4>2, TokenIs
    <3> HIDE DEF x
    <3>2. c = (Filled(n - 1) + Len(x)) + 1
      BY <2>3 DEF n, x
    <3> QED
      BY <1>0, <2>3, <2>4, <3>1, <3>2, SettledAfter DEF x
  <2> QED
    BY <2>6, <2>7
<1> QED
  BY <1>1, <1>2

(* The numbers read in what the first m tokens became. *)
Slotted == Style \in {"named", "ordinal"}
Due(m) == IF Slotted THEN Counted(Spent(m)) ELSE NumbersTo(sql, From(m))
ReadTo(m) == Shut(buf, Filled(m)) /\ NumbersTo(buf, Filled(m) + 1) = Due(m)

LEMMA SlotStyle ==
  ASSUME Laid, NEW m \in 1..Len(toks)
  PROVE  /\ IsSlot(toks[m]) => Slotted
         /\ toks[m].kind = "numbered" /\ ~Mixed => ~Slotted
<1>1. toks[m] \in Range(toks)
  BY FilledIs DEF Range
<1>2. \A kind : toks[m].kind = kind => Has(kind)
  BY <1>1 DEF Has
<1> QED
  BY <1>2 DEF IsSlot, Slotted, Style, Mixed

LEMMA DueSame ==
  ASSUME Laid, NEW m \in 1..Len(toks), ~IsSlot(toks[m]), toks[m].kind # "numbered"
  PROVE  Due(m) = Due(m - 1)
<1> DEFINE lo == From(m - 1)
           hi == From(m)
<1>1. Scanned /\ sql \in Seq(Chars) /\ SlotsSay(Rank(Len(toks)))
  BY FilledIs
<1>2. Spent(m) = Spent(m - 1)
  BY <1>1, WrittenNext
<1>3. lo \in Nat /\ hi \in Nat /\ lo <= hi
  <2>1. /\ Len(toks) \in Nat
        /\ \A k \in 0..Len(toks) : From(k) \in Nat
        /\ \A a, b \in 0..Len(toks) : a < b => From(a) < From(b)
    BY FilledIs
  <2>2. m \in 0..Len(toks) /\ m - 1 \in 0..Len(toks) /\ m - 1 < m
    BY <2>1
  <2>3. lo \in Nat /\ hi \in Nat /\ lo < hi
    BY <2>1, <2>2
  <2> HIDE DEF lo, hi
  <2> QED
    BY <2>3
<1>4. \A p \in lo..(hi - 1) : ~(p \in Visible(sql) /\ NumberAt(sql, p))
  BY <1>1, NumberInside
<1> HIDE DEF lo, hi
<1>5. NumbersTo(sql, hi) = NumbersTo(sql, lo)
  BY <1>1, <1>3, <1>4, NumbersSame
<1> QED
  BY <1>2, <1>5 DEF Due, lo, hi

LEMMA LoneRead ==
  ASSUME Laid, NEW m \in 1..Len(toks), Lone(m), ReadTo(m - 1)
  PROVE  ReadTo(m)
<1> DEFINE b == Filled(m - 1)
           x == Image(m)
<1>1. Scanned /\ buf \in Seq(Chars) /\ Holds(buf, b, x) /\ Filled(m) = b + Len(x)
  BY FilledIs
<1>2. x = <<"?">>
  BY <1>1, ImageLone
<1>3. Len(x) = 1 /\ x[1] \in Plain
  BY <1>2 DEF Plain
<1>4. Shut(buf, b) /\ NumbersTo(buf, b + 1) = Due(m - 1)
  BY DEF ReadTo
<1>5. ~IsSlot(toks[m]) /\ toks[m].kind # "numbered"
  BY DEF Lone
<1>6. Due(m) = Due(m - 1)
  BY <1>5, DueSame
<1> HIDE DEF b, x
<1>7. Shut(buf, b + 1) /\ NumbersTo(buf, (b + 1) + 1) = NumbersTo(buf, b + 1)
  BY <1>1, <1>3, <1>4, CharRead
<1> QED
  BY <1>1, <1>3, <1>4, <1>6, <1>7 DEF ReadTo

LEMMA SlotRead ==
  ASSUME Laid, SetApart, NEW m \in 1..Len(toks), IsSlot(toks[m]), ReadTo(m - 1)
  PROVE  ReadTo(m)
<1> DEFINE b == Filled(m - 1)
           x == Image(m)
           before == Spent(m - 1)
           c == b + Len(x)
<1>1. Scanned /\ buf \in Seq(Chars) /\ Holds(buf, b, x) /\ Filled(m) = c /\ SlotsSay(Rank(Len(toks)))
  BY FilledIs
<1>2. Slotted
  BY SlotStyle
<1>3. before \in Nat /\ \E size \in Nat : x = PlaceText(size, before) /\ Spent(m) = before + size
  BY <1>1, WrittenNext
<1>4. PICK size \in Nat : x = PlaceText(size, before) /\ Spent(m) = before + size
  BY <1>3
<1>5. Shut(buf, b) /\ NumbersTo(buf, b + 1) = Counted(before)
  BY <1>2 DEF ReadTo, Due
<1>6. ~Is(buf, c + 1, Digits)
  <2>1. m \in 0..Len(toks) /\ c + 1 = Filled(m) + 1
    BY <1>1, FilledIs
  <2>2. ~Is(sql, From(m), Word)
    BY <1>1, SlotApart
  <2>3. ~Is(sql, From(m), Digits)
    BY <2>2, CharFacts DEF Is
  <2> HIDE DEF c
  <2> QED
    BY <2>1, <2>3, NoDigitNext
<1>7. b \in Nat
  BY <1>1 DEF Holds
<1> HIDE DEF b, x, before
<1>8. Shut(buf, c) /\ NumbersTo(buf, c + 1) = Counted(before + size)
  <2>1. CASE size = 0
    <3>1. x = <<"N">>
      BY <1>4, <2>1 DEF PlaceText
    <3>2. Len(x) = 1 /\ x[1] \in Plain
      BY <3>1 DEF Plain
    <3>3. Shut(buf, b + 1) /\ NumbersTo(buf, (b + 1) + 1) = NumbersTo(buf, b + 1)
      BY <1>1, <1>5, <3>2, CharRead
    <3>4. c = b + 1 /\ before + size = before
      BY <1>3, <2>1, <3>2
    <3> QED
      BY <1>5, <3>3, <3>4
  <2>2. CASE size # 0
    <3>1. x = SliceText(size, before)
      BY <1>4, <2>2 DEF PlaceText
    <3>2. c = b + Len(SliceText(size, before)) /\ Holds(buf, b, SliceText(size, before))
      BY <1>1, <3>1
    <3> HIDE DEF c
    <3> QED
      BY <1>1, <1>3, <1>5, <1>6, <1>7, <3>2, SliceRead
  <2> QED
    BY <2>1, <2>2
<1> QED
  BY <1>1, <1>2, <1>4, <1>8 DEF ReadTo, Due

LEMMA NumberedRead ==
  ASSUME Laid, ~Mixed, NEW m \in 1..Len(toks), toks[m].kind = "numbered", ReadTo(m - 1)
  PROVE  ReadTo(m)
<1> DEFINE b == Filled(m - 1)
           x == Image(m)
           k == From(m - 1)
           hi == From(m)
           v == SubSeq(sql, k + 1, hi - 1)
           c == b + Len(x)
<1>1. Scanned /\ buf \in Seq(Chars) /\ sql \in Seq(Chars) /\ Holds(buf, b, x) /\ Filled(m) = c
  BY FilledIs
<1>2. ~Slotted
  BY SlotStyle
<1>3. /\ x \in Seq(Chars) /\ Len(x) \in Nat /\ Len(x) > 1 /\ Len(x) = hi - k
      /\ x[1] = "$" /\ \A j \in 2..Len(x) : x[j] \in Digits
      /\ ~Is(sql, hi, Digits) /\ k \in Visible(sql) /\ NumberAt(sql, k)
      /\ hi = SpanEnd(sql, k + 1, Digits)
      /\ \A j \in 1..Len(x) : x[j] = sql[(k + j) - 1]
      /\ k \in Nat /\ hi \in Nat
  BY <1>1, ImageNumbered
<1>4. Shut(buf, b) /\ NumbersTo(buf, b + 1) = NumbersTo(sql, k)
  BY <1>2 DEF ReadTo, Due
<1>5. ~Is(buf, c + 1, Digits)
  <2>1. m \in 0..Len(toks) /\ c + 1 = Filled(m) + 1
    BY <1>1, FilledIs
  <2>2. ~Is(sql, From(m), Digits)
    BY <1>3
  <2> HIDE DEF c
  <2> QED
    BY <2>1, <2>2, NoDigitNext
<1>6. \A p \in (k + 1)..(hi - 1) : ~(p \in Visible(sql) /\ NumberAt(sql, p))
  <2> TAKE p \in (k + 1)..(hi - 1)
  <2>1. p \in k..(hi - 1) /\ p # k
    BY <1>3
  <2> QED
    BY <1>1, <2>1, NumberInside
<1> HIDE DEF b, x, k, hi
<1>7. v \in Seq(Digits) /\ v # << >> /\ x = <<"$">> \o v
  <2> DEFINE L == Len(x)
             one == <<"$">>
  <2>1. k \in Nat /\ hi \in Nat /\ L = hi - k /\ L \in Nat /\ L > 1
    BY <1>3
  <2> HIDE DEF L
  <2>2. k + 1 \in Int /\ hi - 1 \in Int /\ k + 1 <= hi - 1 /\ (hi - 1) - (k + 1) + 1 = L - 1 /\ k < hi
    BY <2>1
  <2>3. \A p \in (k + 1)..(hi - 1) : (p - k) + 1 \in 2..L /\ (p - k) + 1 \in 1..L /\ (k + ((p - k) + 1)) - 1 = p
    BY <2>1
  <2>4. \A p \in (k + 1)..(hi - 1) : sql[p] \in Digits
    <3> TAKE p \in (k + 1)..(hi - 1)
    <3> DEFINE j == (p - k) + 1
    <3>1. j \in 2..L /\ j \in 1..L /\ (k + j) - 1 = p
      BY <2>3
    <3> HIDE DEF j
    <3>2. x[j] \in Digits /\ x[j] = sql[(k + j) - 1]
      BY <1>3, <3>1 DEF L
    <3> QED
      BY <3>1, <3>2
  <2>5. /\ v \in Seq(Digits) /\ Len(v) = L - 1
        /\ \A j \in 1..(L - 1) : v[j] = sql[k + 1 + j - 1]
    BY <2>2, <2>4, SubSeqProperties
  <2> HIDE DEF v
  <2>6. v # << >>
    BY <2>1, <2>5, EmptySeq
  <2>7. one \in Seq(Chars) /\ Len(one) = 1 /\ one[1] = "$"
    <3>1. "$" \in Chars
      BY DEF Chars
    <3> QED
      BY <3>1
  <2>8. v \in Seq(Chars)
    <3>1. Digits \subseteq Chars
      BY DEF Chars
    <3> QED
      BY <2>5, <3>1, SeqMonotonic
  <2> HIDE DEF one
  <2>9. /\ one \o v \in Seq(Chars) /\ Len(one \o v) = Len(one) + Len(v)
        /\ \A j \in 1..(Len(one) + Len(v)) : (one \o v)[j] = IF j <= Len(one) THEN one[j] ELSE v[j - Len(one)]
    BY <2>7, <2>8, ConcatProperties
  <2>10. Len(one) + Len(v) = L
    BY <2>1, <2>5, <2>7
  <2>11. ASSUME NEW j \in 1..L
         PROVE  x[j] = (one \o v)[j]
    <3>1. CASE j = 1
      <4>1. j <= Len(one) /\ j \in 1..(Len(one) + Len(v))
        BY <2>7, <2>10, <3>1
      <4> QED
        BY <1>3, <2>7, <2>9, <3>1, <4>1
    <3>2. CASE j # 1
      <4>1. ~(j <= Len(one)) /\ j - Len(one) = j - 1 /\ j \in 1..(Len(one) + Len(v))
        BY <2>7, <2>10, <3>2
      <4>2. j - 1 \in 1..(L - 1) /\ k + 1 + (j - 1) - 1 = (k + j) - 1
        BY <2>1, <3>2
      <4>3. (one \o v)[j] = v[j - 1]
        BY <2>9, <4>1
      <4>4. v[j - 1] = sql[k + 1 + (j - 1) - 1]
        BY <2>5, <4>2
      <4>5. x[j] = sql[(k + j) - 1]
        BY <1>3 DEF L
      <4> QED
        BY <4>2, <4>3, <4>4, <4>5
    <3> QED
      BY <3>1, <3>2
  <2>12. x = one \o v
    <3>1. Len(one \o v) = Len(x)
      BY <2>9, <2>10 DEF L
    <3> QED
      BY <1>3, <2>9, <2>11, <3>1, SeqEqual DEF L
  <2> QED
    BY <2>5, <2>6, <2>12 DEF one
<1>8. Numeral(buf, b, v, c)
  BY <1>1, <1>5, <1>7 DEF Numeral
<1>9. Shut(buf, c) /\ NumbersTo(buf, c + 1) = Append(NumbersTo(buf, b + 1), v)
  <2> HIDE DEF c, v
  <2> QED
    BY <1>1, <1>4, <1>8, NumeralRead
<1>10. NumbersTo(sql, hi) = Append(NumbersTo(sql, k), v)
  <2>1. k < hi
    BY <1>3
  <2>2. NumbersTo(sql, hi) = Append(NumbersTo(sql, k), SubSeq(sql, k + 1, SpanEnd(sql, k + 1, Digits) - 1))
    BY <1>1, <1>3, <1>6, <2>1, NumbersNext
  <2>3. SpanEnd(sql, k + 1, Digits) = hi
    BY <1>3
  <2> QED
    BY <2>2, <2>3
<1> QED
  BY <1>1, <1>2, <1>4, <1>9, <1>10 DEF ReadTo, Due, hi

LEMMA OutsideFrom ==
  ASSUME Laid, SeamInv, NEW m \in 0..Len(toks)
  PROVE  Outside(From(m))
<1>1. sql \in Seq(Chars) /\ DOMAIN toks = 1..Len(toks) /\ Len(toks) \in Nat
  BY FilledIs
<1>2. CASE m = 0
  <2>1. HiddenTo(sql)[0] = 0 /\ Fresh(sql, 1)
    BY <1>1, HiddenIs, FreshEnds
  <2>2. From(m) = 1 /\ 1 - 1 = 0 /\ ~(0 > 1)
    BY <1>2 DEF From
  <2> QED
    BY <2>1, <2>2 DEF Outside
<1>3. CASE m # 0
  <2>1. m \in DOMAIN toks /\ From(m) = toks[m].hi
    BY <1>1, <1>3 DEF From
  <2> QED
    BY <2>1 DEF SeamInv, Seamed
<1> QED
  BY <1>2, <1>3

LEMMA TextRead ==
  ASSUME Laid, SetApart, SeamInv, NEW m \in 1..Len(toks), toks[m].kind = "text", ReadTo(m - 1)
  PROVE  ReadTo(m)
<1> DEFINE lo == From(m - 1)
           hi == From(m)
           b == Filled(m - 1)
           by == (b + 1) - lo
           from == lo + by
           to == hi + by
<1>1. Moved(sql, lo, hi, buf, by) /\ Seam(sql, hi, buf, by) /\ from = b + 1 /\ to = Filled(m) + 1
  BY TextStands
<1>2. Settled(buf, b + 1)
  BY TextSettled
<1>3. Outside(lo) /\ Outside(hi)
  <2>1. m - 1 \in 0..Len(toks) /\ m \in 0..Len(toks)
    BY FilledIs
  <2> QED
    BY <2>1, OutsideFrom
<1>4. ~IsSlot(toks[m]) /\ toks[m].kind # "numbered"
  BY DEF IsSlot
<1>5. Due(m) = Due(m - 1)
  BY <1>4, DueSame
<1>6. Shut(buf, b) /\ NumbersTo(buf, b + 1) = Due(m - 1)
  BY DEF ReadTo
<1>7. Scanned /\ buf \in Seq(Chars) /\ sql \in Seq(Chars) /\ b \in Nat /\ Filled(m) \in Nat
  <2>1. m - 1 \in 0..Len(toks) /\ m \in 0..Len(toks)
    BY FilledIs
  <2> QED
    BY <2>1, FilledIs
<1>8. \A p \in lo..(hi - 1) : ~(p \in Visible(sql) /\ NumberAt(sql, p))
  BY <1>4, <1>7, NumberInside
<1>9. by \in Int /\ lo \in Nat /\ hi \in Nat /\ lo < hi
  BY <1>1 DEF Moved
<1> HIDE DEF lo, hi, b, by
<1>10. Settled(sql, lo) /\ ~(HiddenTo(sql)[lo - 1] > lo) /\ ~(HiddenTo(sql)[hi - 1] > hi)
  BY <1>3, FreshSettled DEF Outside
<1>11. from - 1 = b /\ to - 1 = Filled(m)
  <2> HIDE DEF from, to
  <2> QED
    BY <1>1, <1>7
<1>12. Settled(buf, lo + by) /\ ~(HiddenTo(buf)[(lo + by) - 1] > lo + by)
  BY <1>1, <1>2, <1>6, <1>11 DEF Shut
<1>13. /\ \A k \in lo..(hi - 1) : k \in Visible(sql) <=> k + by \in Visible(buf)
       /\ ~(HiddenTo(buf)[(hi + by) - 1] > hi + by)
  <2> HIDE DEF from, to
  <2> QED
    BY <1>1, <1>10, <1>12, HiddenMoves
<1>14. Shut(buf, Filled(m))
  BY <1>1, <1>11, <1>13 DEF Shut
<1>15. ASSUME NEW q \in from..(to - 1), q \in Visible(buf), NumberAt(buf, q)
       PROVE  FALSE
  <2> DEFINE k == q - by
  <2>1. k \in lo..(hi - 1) /\ k + by = q /\ k + 1 \in Int /\ (k + by) + 1 = (k + 1) + by
    BY <1>9
  <2> HIDE DEF k, from, to
  <2>2. k \in Visible(sql)
    BY <1>13, <1>15, <2>1
  <2>3. Is(sql, k, {"$"})
    BY <1>1, <1>15, <2>1, IsMoves DEF NumberAt
  <2>4. Is(buf, (k + 1) + by, Digits)
    BY <1>15, <2>1 DEF NumberAt
  <2>5. Is(sql, k + 1, Digits)
    <3>1. CASE k + 1 \in lo..(hi - 1)
      <4> DEFINE n == k + 1
      <4>1. n \in lo..(hi - 1) /\ Is(buf, n + by, Digits)
        BY <2>4, <3>1
      <4> HIDE DEF n
      <4>2. Is(sql, n, Digits)
        BY <1>1, <4>1, IsMoves
      <4> QED
        BY <4>2 DEF n
    <3>2. CASE k + 1 \notin lo..(hi - 1)
      <4>1. k + 1 = hi
        BY <1>9, <2>1, <3>2
      <4>2. Digits \cap Marks = {}
        BY CharFacts DEF Marks, Letters
      <4>3. ~Is(buf, hi + by, Digits)
        BY <1>1, <4>2, SeamIs
      <4> QED
        BY <2>4, <4>1, <4>3
    <3> QED
      BY <3>1, <3>2
  <2> QED
    BY <1>8, <2>1, <2>2, <2>3, <2>5 DEF NumberAt
<1>16. from \in Nat /\ to \in Nat /\ from <= to
  BY <1>1, <1>7, <1>9
<1> HIDE DEF from, to
<1>17. NumbersTo(buf, to) = NumbersTo(buf, from)
  <2>1. \A q \in from..(to - 1) : ~(q \in Visible(buf) /\ NumberAt(buf, q))
    BY <1>15
  <2> QED
    BY <1>7, <1>16, <2>1, NumbersSame
<1> QED
  BY <1>1, <1>5, <1>6, <1>14, <1>17 DEF ReadTo

LEMMA AllRead ==
  ASSUME Laid, SetApart, SeamInv, ~Mixed
  PROVE  ReadTo(Len(toks))
<1> DEFINE N == Len(toks)
           S == {m \in Nat : m <= N => ReadTo(m)}
<1>1. N \in Nat /\ buf \in Seq(Chars) /\ sql \in Seq(Chars) /\ Scanned
  BY FilledIs
<1>2. 0 \in S
  <2>1. HiddenTo(buf)[0] = 0
    BY <1>1, HiddenIs
  <2>2. Filled(0) = 0 /\ From(0) = 1 /\ 0 + 1 = 1 /\ ~(0 > 1)
    BY FilledIs
  <2>3. Shut(buf, Filled(0))
    BY <2>1, <2>2 DEF Shut
  <2>4. NumbersTo(buf, 1) = << >> /\ NumbersTo(sql, 1) = << >>
    BY <1>1, NumbersFirst
  <2>5. Spent(0) = 0
    BY <1>1, WrittenFirst
  <2>6. Counted(0) = << >>
    <3>1. 0 \in Nat
      OBVIOUS
    <3>2. Counted(0) \in Seq(Seq(Digits)) /\ Len(Counted(0)) = 0
      BY <3>1, CountedNext
    <3> QED
      BY <3>2, EmptySeq
  <2>7. ReadTo(0)
    BY <2>2, <2>3, <2>4, <2>5, <2>6 DEF ReadTo, Due
  <2> QED
    BY <2>7
<1>3. ASSUME NEW n \in Nat, n \in S
      PROVE  n + 1 \in S
  <2> DEFINE m == n + 1
  <2> SUFFICES ASSUME m <= N
               PROVE  ReadTo(m)
    OBVIOUS
  <2>1. m \in 1..N /\ m - 1 = n /\ n <= N
    BY <1>1
  <2>2. ReadTo(m - 1)
    BY <1>3, <2>1
  <2> HIDE DEF m, S
  <2>3. CASE IsSlot(toks[m])
    BY <2>1, <2>2, <2>3, SlotRead
  <2>4. CASE Lone(m)
    BY <2>1, <2>2, <2>4, LoneRead
  <2>5. CASE Copied(m)
    <3>1. CASE toks[m].kind = "text"
      BY <2>1, <2>2, <3>1, TextRead
    <3>2. CASE toks[m].kind = "numbered"
      BY <2>1, <2>2, <3>2, NumberedRead
    <3> QED
      BY <2>5, <3>1, <3>2 DEF Copied
  <2> QED
    BY <1>1, <2>1, <2>3, <2>4, <2>5, TokenIs
<1>4. N \in S
  <2> HIDE DEF S
  <2> QED
    BY <1>1, <1>2, <1>3, SetInduction
<1> QED
  BY <1>1, <1>4

LEMMA InvSees ==
  ASSUME Scanned, SeamInv, RenderInv, ~Mixed
  PROVE  EngineSeesPlaceholders
<1> SUFFICES ASSUME result = "ok", SetApart
             PROVE  NumbersIn(buf) = IF style \in {"named", "ordinal"}
                                     THEN [n \in DOMAIN out |-> Decimal(n)]
                                     ELSE NumbersIn(sql)
  BY DEF EngineSeesPlaceholders
<1> DEFINE N == Len(toks)
           K == DOMAIN args.size
<1>1. Sized /\ style = Style /\ parts = Parts
  BY DEF RenderInv
<1>2. Keyed(Parts, K) /\ buf = AllText(Parts, args.size)
      /\ (Slotted => out = AllSpent(Parts, args.size))
  <2>1. CASE Slotted
    BY <1>1, <2>1 DEF RenderInv, Slotted
  <2>2. CASE ~Slotted
    <3>1. buf = FlattenSeq([p \in DOMAIN parts |-> parts[p].text])
      BY <1>1, <2>2 DEF RenderInv, Slotted
    <3>2. /\ Keyed(Parts, K)
          /\ AllText(Parts, args.size) = FlattenSeq([p \in DOMAIN Parts |-> Parts[p].text])
      BY <1>1, <2>2, NoSlots DEF Slotted
    <3> QED
      BY <1>1, <2>2, <3>1, <3>2
  <2> QED
    BY <2>1, <2>2
<1>3. /\ SlotsSay(Rank(N))
      /\ AllSpent(Parts, args.size) = ValuesBefore(TheSlots, Rank(N) + 1)
      /\ AllText(Parts, args.size) = TextsTo(Rank(N)) \o Since(N)
  BY <1>1, <1>2, PartsSay DEF Says
<1>4. Laid
  BY <1>2, <1>3 DEF Laid, Written
<1>5. Shut(buf, Filled(N)) /\ NumbersTo(buf, Filled(N) + 1) = Due(N)
  BY <1>4, AllRead DEF ReadTo
<1>6. /\ Filled(N) + 1 = EndOf(buf) /\ From(N) = EndOf(sql)
      /\ buf \in Seq(Chars) /\ sql \in Seq(Chars)
  BY <1>4, FilledIs
<1>7. NumbersIn(buf) = Due(N) /\ NumbersTo(sql, From(N)) = NumbersIn(sql)
  BY <1>5, <1>6, NumbersFirst
<1>8. CASE Slotted
  <2>1. out = ValuesBefore(TheSlots, Rank(N) + 1)
    BY <1>2, <1>3, <1>8
  <2>2. N \in 0..N
    BY <1>4, FilledIs
  <2>3. out \in Seq(K \X Nat)
    <3>1. EndAt(TheSlots, Rank(N)) \in Nat /\ 0 < EndAt(TheSlots, Rank(N)) /\ EndAt(TheSlots, Rank(N)) <= From(N)
      BY <1>1, PartsSay DEF Says
    <3> HIDE DEF N
    <3> QED
      BY <1>3, <2>1, <2>2, <3>1, SaysTyped DEF N
  <2>4. DOMAIN out = 1..Spent(N)
    <3>1. DOMAIN out = 1..Len(out)
      BY <2>3, LenProperties
    <3> QED
      BY <2>1, <3>1 DEF Spent
  <2>5. [n \in DOMAIN out |-> Decimal(n)] = Counted(Spent(N))
    BY <2>4 DEF Counted
  <2> QED
    BY <1>1, <1>7, <1>8, <2>5 DEF Due, Slotted
<1>9. CASE ~Slotted
  BY <1>1, <1>7, <1>9 DEF Due, Slotted
<1> QED
  BY <1>8, <1>9

(* EngineSeesPlaceholders: whatever text and arguments a call brings, when  *)
(* bind returns without an error and no letter, digit or $ touches a        *)
(* parameter, the engine that reads the text for the driver finds in it as  *)
(* many placeholders as there are arguments, numbered from one in their     *)
(* order, and in a statement without parameters of row's those it had: no   *)
(* string, comment or dollar quote that compile copies hides a placeholder  *)
(* or makes one of the characters in it (bind.go, compile, render).         *)
THEOREM PlaceholdersAreSeen == Spec => []EngineSeesPlaceholders
<1>1. Init => IInv /\ ScanInv /\ RenderInv /\ SeamInv
  <2>1. Init => SeamInv
    BY DEF Init, LexInit, SeamInv, Seamed
  <2> QED
    BY <2>1, RenderStarts
<1>2. IInv /\ ScanInv /\ RenderInv /\ SeamInv /\ [Next]_vars
        => IInv' /\ ScanInv' /\ RenderInv' /\ SeamInv'
  BY RenderStep, SeamStep
<1>3. IInv /\ ScanInv /\ RenderInv /\ SeamInv => EngineSeesPlaceholders
  <2> SUFFICES ASSUME IInv, ScanInv, RenderInv, SeamInv, result = "ok"
               PROVE  EngineSeesPlaceholders
    BY DEF EngineSeesPlaceholders
  <2>1. pc # "lex" /\ ~Mixed
    BY DEF RenderInv
  <2>2. Scanned
    BY <2>1, ScannedThen
  <2> QED
    BY <2>1, <2>2, InvSees
<1> QED
  BY <1>1, <1>2, <1>3, PTL DEF Spec
=============================================================================
