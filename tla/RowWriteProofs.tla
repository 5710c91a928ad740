---------------------------- MODULE RowWriteProofs --------------------------
(***************************************************************************)
(* The promises of InsertMany, proved for slices of any length, any limit  *)
(* of placeholders and any number of columns, on a *DB and in an InTx.     *)
(*                                                                         *)
(* The statements sent cover the slice up to the batch at work (SplitInv), *)
(* what has landed are all of them but perhaps that one (LandInv), and     *)
(* the rows still to come either fit the values still to fill one by one,  *)
(* or are too few to fill them all (FillInv).                              *)
(***************************************************************************)
EXTENDS RowWrite, SequenceTheorems, FiniteSetTheorems, TLAPS

Working == {"build", "send", "rows"}

Types ==
  /\ req \in Inputs
  /\ pc \in {"begin", "check", "closing", "done"} \cup Working
  /\ start \in Nat
  /\ stmts \in Seq(SUBSET Nat)
  /\ coming \in Seq(Nat)
  /\ back \in Nat
  /\ filled \in [Values -> Nat \cup {NoRow}]
  /\ ret \in {"none", "nil", "error"}
  /\ result \in {"none", "nil", "error"}
  /\ db \in SUBSET Nat

(* Where the call is and what it may have returned. *)
CallInv ==
  /\ pc \in Working => req.n > 0 /\ ~Refused /\ start < req.n
  /\ pc \in {"begin", "check"} => start = 0 /\ stmts = << >>
  /\ pc \notin {"closing", "done"} => ret = "none"
  /\ pc = "closing" => ret # "none" /\ req.inTx
  /\ pc = "begin" => req.inTx
  /\ pc # "done" <=> result = "none"
  /\ ~req.inTx => result = ret
  /\ ret = "none" /\ pc = "done" => stmts = << >> /\ req.inTx /\ result = "error"
  /\ pc \in {"send", "rows"} => stmts # << >> /\ Last(stmts) = start..(End - 1)

(* The statements sent so far hold the values up to this one. *)
SentUpTo(m) == m \in 0..req.n /\ Sent = 0..(m - 1)

SplitInv ==
  /\ \A i \in 1..Len(stmts) :
       /\ Min(stmts[i]) \in stmts[i]
       /\ req.limit > 0 => Cardinality(stmts[i]) * req.cols <= req.limit
       /\ \A j \in 1..(i - 1) : \A v \in stmts[j], w \in stmts[i] : v < w
  /\ pc \in {"begin", "check", "build"} => SentUpTo(start)
  /\ pc \in {"send", "rows"} => SentUpTo(End)
  /\ ret = "nil" => SentUpTo(req.n)
  /\ \E m \in 0..req.n : SentUpTo(m)

(* What took effect, in the transaction while there is one. *)
Landed == IF req.inTx THEN work[1] ELSE db

LandInv ==
  /\ req.inTx =>
       /\ pc = "begin" => status = "idle"
       /\ pc \notin {"begin", "done"} =>
            status = "running" /\ work \in Seq(SUBSET Nat) /\ Len(work) = 1
       /\ pc # "done" => db = {}
       /\ pc = "done" => db = {} \/ (db = Starts /\ Sent = Values)
  /\ pc \in {"check", "build"} => Landed = Starts
  /\ pc \in {"send", "rows"} => Landed = Starts \ {start}
  /\ pc = "closing" /\ ret = "nil" => Landed = Starts
  /\ result = "nil" => db = Starts /\ Sent = Values
  /\ result = "error" /\ ~req.inTx =>
       \/ db = Starts
       \/ stmts # << >> /\ db = Starts \ {Min(Last(stmts))}

(* Values are filled in their order, and by rows of their own unless so many are
   missing that the call will end in an error. *)
FillInv ==
  /\ pc \in {"begin", "check", "build", "send"} =>
       \A v \in Values : filled[v] = IF req.returning /\ v < start THEN v ELSE NoRow
  /\ pc = "rows" =>
       /\ req.returning /\ back <= End - start
       /\ \A v \in Values : start + back <= v => filled[v] = NoRow
       /\ back + Len(coming) >= End - start =>
            /\ \A v \in Values : v < start + back => filled[v] = v
            /\ \A j \in 1..Len(coming) :
                 back + j <= End - start => coming[j] = start + back + j - 1

IInv == Types /\ CallInv /\ SplitInv /\ LandInv /\ FillInv /\ FilledFromOwnRow

-----------------------------------------------------------------------------
(* Arithmetic of the batches. *)
LEMMA MinOfTwo == \A a, b \in Nat : Min({a, b}) = IF a <= b THEN a ELSE b
<1> SUFFICES ASSUME NEW a \in Nat, NEW b \in Nat
             PROVE  Min({a, b}) = IF a <= b THEN a ELSE b
  OBVIOUS
<1> DEFINE least == IF a <= b THEN a ELSE b
           P(x) == \A y \in {a, b} : x =< y
<1>1. least \in {a, b} /\ P(least)
  OBVIOUS
<1>2. \A x \in {a, b} : P(x) => x = least
  OBVIOUS
<1>3. (CHOOSE x \in {a, b} : P(x)) = least
  BY <1>1, <1>2
<1> QED
  BY <1>3 DEF Min

LEMMA MinOfInterval == \A a, b \in Nat : a < b => Min(a..(b - 1)) = a
<1> SUFFICES ASSUME NEW a \in Nat, NEW b \in Nat, a < b
             PROVE  Min(a..(b - 1)) = a
  OBVIOUS
<1> DEFINE P(x) == \A y \in a..(b - 1) : x =< y
<1>1. a \in a..(b - 1) /\ P(a)
  OBVIOUS
<1>2. \A x \in a..(b - 1) : P(x) => x = a
  OBVIOUS
<1>3. (CHOOSE x \in a..(b - 1) : P(x)) = a
  BY <1>1, <1>2
<1> QED
  BY <1>3 DEF Min

LEMMA Quotient ==
  ASSUME NEW a \in Nat, NEW b \in Nat \ {0}
  PROVE  a \div b \in Nat /\ (a \div b) * b <= a
OBVIOUS

LEMMA TimesMonotone ==
  \A k, m, b \in Nat : k <= m => k * b <= m * b
OBVIOUS

LEMMA InputType ==
  ASSUME req \in Inputs
  PROVE  /\ req.n \in Nat /\ req.cols \in Nat /\ req.limit \in Nat
         /\ req.returning \in BOOLEAN /\ req.supported \in BOOLEAN /\ req.inTx \in BOOLEAN
         /\ Values \subseteq Nat
BY InputsAssumption DEF Values

(* A batch is not empty, and its placeholders are within the limit. *)
LEMMA BatchFact ==
  ASSUME req \in Inputs, ~Refused
  PROVE  /\ Batch \in Nat \ {0}
         /\ req.limit > 0 => \A k \in 0..Batch : k * req.cols <= req.limit
<1>1. req.n \in Nat /\ req.cols \in Nat \ {0} /\ req.limit \in Nat
  BY InputType DEF Refused
<1> DEFINE most == req.limit \div req.cols
<1>2. most \in Nat /\ most * req.cols <= req.limit
  BY <1>1, Quotient
<1>3. Batch = IF req.limit > 0 /\ req.cols > 0 /\ most < req.n THEN most ELSE req.n
  BY DEF Batch
<1>4. ~(Batch < 1)
  BY DEF Refused
<1> HIDE DEF most
<1>5. Batch \in Nat /\ (req.limit > 0 => Batch <= most)
  BY <1>1, <1>2, <1>3
<1>6. ASSUME req.limit > 0, NEW k \in 0..Batch
      PROVE  k * req.cols <= req.limit
  <2>1. k \in Nat /\ k <= most
    BY <1>2, <1>5, <1>6
  <2>2. k * req.cols <= most * req.cols
    BY <1>1, <1>2, <2>1, TimesMonotone
  <2>3. k * req.cols \in Nat /\ most * req.cols \in Nat
    BY <1>1, <1>2, <2>1
  <2> QED
    BY <1>1, <1>2, <2>2, <2>3
<1> QED
  BY <1>4, <1>5, <1>6

LEMMA EndFact ==
  ASSUME req \in Inputs, ~Refused, start \in Nat, start < req.n
  PROVE  /\ End \in Nat /\ start < End /\ End <= req.n /\ End - start <= Batch
         /\ End = IF start + Batch < req.n THEN start + Batch ELSE req.n
         /\ Batch \in Nat \ {0} /\ start + Batch \in Nat
<1>1. req.n \in Nat /\ Batch \in Nat \ {0}
  BY InputType, BatchFact
<1>2. start + Batch \in Nat
  BY <1>1
<1>3. End = IF start + Batch <= req.n THEN start + Batch ELSE req.n
  BY <1>1, <1>2, MinOfTwo DEF End
<1> QED
  BY <1>1, <1>2, <1>3

-----------------------------------------------------------------------------
(* The statements as a sequence of sets. *)
LEMMA SentFact ==
  ASSUME Types
  PROVE  /\ Len(stmts) \in Nat
         /\ Sent = UNION {stmts[i] : i \in 1..Len(stmts)}
         /\ Starts = {Min(stmts[i]) : i \in 1..Len(stmts)}
         /\ \A i \in 1..Len(stmts) : stmts[i] \subseteq Nat
<1>1. DOMAIN stmts = 1..Len(stmts) /\ Len(stmts) \in Nat
  BY LenProperties DEF Types
<1>2. Range(stmts) = {stmts[i] : i \in 1..Len(stmts)}
  BY <1>1 DEF Range
<1> QED
  BY <1>1, <1>2, ElementOfSeq DEF Sent, Starts, Types

LEMMA NothingSent == stmts = << >> => Sent = {} /\ Starts = {}
<1>1. DOMAIN << >> = {}
  OBVIOUS
<1> QED
  BY <1>1 DEF Sent, Starts, Range

(* Every statement starts with a value that was sent. *)
LEMMA StartsAreSent ==
  ASSUME Types, SplitInv
  PROVE  Starts \subseteq Sent
BY SentFact DEF SplitInv

(* One statement more, for the values of the batch at work. *)
LEMMA SentMore ==
  ASSUME Types, SplitInv, SentUpTo(start), ~Refused, start < req.n,
         stmts' = Append(stmts, start..(End - 1)), req' = req
  PROVE  /\ stmts' \in Seq(SUBSET Nat) /\ stmts' # << >>
         /\ Last(stmts') = start..(End - 1)
         /\ Sent' = 0..(End - 1)
         /\ Starts' = Starts \cup {start} /\ start \notin Starts
         /\ \A i \in 1..Len(stmts') :
              /\ Min(stmts'[i]) \in stmts'[i]
              /\ req.limit > 0 => Cardinality(stmts'[i]) * req.cols <= req.limit
              /\ \A j \in 1..(i - 1) : \A v \in stmts'[j], w \in stmts'[i] : v < w
<1> DEFINE chunk == start..(End - 1)
           k == Len(stmts)
<1>1. /\ req \in Inputs /\ start \in Nat /\ End \in Nat /\ start < End /\ End <= req.n
      /\ End - start <= Batch /\ Batch \in Nat /\ req.n \in Nat
  BY EndFact, InputType DEF Types
<1>2. chunk \in SUBSET Nat /\ chunk # {} /\ Min(chunk) = start /\ start \in chunk
  <2>1. Min(start..(End - 1)) = start
    BY <1>1, MinOfInterval
  <2>2. start..(End - 1) \in SUBSET Nat /\ start \in start..(End - 1)
    BY <1>1
  <2> QED
    BY <2>1, <2>2
<1>3. /\ k \in Nat /\ Len(stmts') = k + 1 /\ stmts' \in Seq(SUBSET Nat)
      /\ stmts'[k + 1] = chunk
      /\ \A i \in 1..k : stmts'[i] = stmts[i]
      /\ DOMAIN stmts' = 1..(k + 1)
  BY <1>2, SentFact, AppendProperties, LenProperties DEF Types
<1> HIDE DEF k
<1>4. stmts' # << >>
  BY <1>3, EmptySeq
<1>5. Last(stmts') = chunk
  BY <1>3 DEF Last
<1>6. /\ Sent = UNION {stmts[i] : i \in 1..k}
      /\ Starts = {Min(stmts[i]) : i \in 1..k}
  BY SentFact DEF k
<1>7. 1..(k + 1) = 1..k \cup {k + 1}
  BY <1>3
<1>8. /\ Range(stmts') = {stmts'[i] : i \in 1..(k + 1)}
      /\ Range(stmts') = {stmts[i] : i \in 1..k} \cup {chunk}
  BY <1>3, <1>7 DEF Range
<1>9. Sent' = Sent \cup chunk /\ Starts' = Starts \cup {start}
  <2>1. Sent' = UNION ({stmts[i] : i \in 1..k} \cup {chunk})
    BY <1>8 DEF Sent
  <2>2. Starts' = {Min(c) : c \in {stmts[i] : i \in 1..k} \cup {chunk}}
    BY <1>8 DEF Starts
  <2> HIDE DEF chunk
  <2> QED
    BY <1>2, <1>6, <2>1, <2>2
<1>10. Sent = 0..(start - 1)
  BY DEF SentUpTo
<1>11. Sent' = 0..(End - 1)
  BY <1>1, <1>9, <1>10
<1>12. start \notin Starts
  BY <1>1, <1>10, StartsAreSent
<1>13. ASSUME NEW i \in 1..Len(stmts')
       PROVE  /\ Min(stmts'[i]) \in stmts'[i]
              /\ req.limit > 0 => Cardinality(stmts'[i]) * req.cols <= req.limit
              /\ \A j \in 1..(i - 1) : \A v \in stmts'[j], w \in stmts'[i] : v < w
  <2>1. i \in 1..k \/ i = k + 1
    BY <1>3, <1>7
  <2>2. CASE i \in 1..k
    <3>1. stmts'[i] = stmts[i] /\ \A j \in 1..(i - 1) : j \in 1..k /\ stmts'[j] = stmts[j]
      BY <1>3, <2>2
    <3> QED
      BY <2>2, <3>1 DEF SplitInv, k
  <2>3. CASE i = k + 1
    <3>1. stmts'[i] = chunk /\ \A j \in 1..(i - 1) : j \in 1..k /\ stmts'[j] = stmts[j]
      BY <1>3, <2>3
    <3>2. Cardinality(chunk) = End - start
      <4>1. Cardinality(chunk) = IF start > End - 1 THEN 0 ELSE (End - 1) - start + 1
        BY <1>1, FS_Interval
      <4> QED
        BY <1>1, <4>1
    <3>3. req.limit > 0 => Cardinality(chunk) * req.cols <= req.limit
      <4>1. End - start \in 0..Batch
        BY <1>1
      <4> QED
        BY <1>1, <3>2, <4>1, BatchFact
    <3>4. \A j \in 1..(i - 1) : stmts[j] \subseteq 0..(start - 1)
      BY <1>6, <1>10, <3>1
    <3>5. \A v \in 0..(start - 1), w \in chunk : v < w
      BY <1>1
    <3> QED
      BY <1>2, <3>1, <3>3, <3>4, <3>5
  <2> QED
    BY <2>1, <2>2, <2>3
<1> QED
  BY <1>3, <1>4, <1>5, <1>9, <1>11, <1>12, <1>13

-----------------------------------------------------------------------------
(* What a request makes of itself does not change while it is answered. *)
LEMMA SameRequest ==
  ASSUME req' = req
  PROVE  Values' = Values /\ Batch' = Batch /\ (Refused' <=> Refused)
BY DEF Values, Batch, Refused

LEMMA SameStatements ==
  ASSUME stmts' = stmts
  PROVE  Sent' = Sent /\ Starts' = Starts /\ Last(stmts)' = Last(stmts)
BY DEF Sent, Starts

(* The statement at work is the last one sent. *)
LEMMA LastStart ==
  ASSUME Types, CallInv, pc \in {"send", "rows"}
  PROVE  /\ stmts # << >> /\ Last(stmts) = start..(End - 1) /\ Min(Last(stmts)) = start
         /\ start \in Starts
<1>1. /\ stmts # << >> /\ Last(stmts) = start..(End - 1)
      /\ start \in Nat /\ End \in Nat /\ start < End
  BY EndFact DEF Types, CallInv, Working
<1>2. Min(Last(stmts)) = start
  BY <1>1, MinOfInterval
<1>3. Len(stmts) \in 1..Len(stmts)
  BY <1>1, SentFact, EmptySeq DEF Types
<1>4. start \in Starts
  BY <1>2, <1>3, SentFact DEF Last
<1> QED
  BY <1>1, <1>2, <1>4

(* A statement that takes effect adds its values to what has landed. *)
LEMMA LandsFact ==
  ASSUME Types, CallInv, LandInv, pc \in {"send", "rows"}, Lands, req' = req
  PROVE  /\ Landed' = Starts
         /\ req.inTx => /\ status' = "running" /\ db' = {}
                        /\ work' \in Seq(SUBSET Nat) /\ Len(work') = 1
         /\ ~req.inTx => db' = Starts
         /\ db' \in SUBSET Nat
<1>1. start \in Nat /\ start \in Starts /\ Landed = Starts \ {start}
  BY LastStart DEF Types, LandInv
<1>2. CASE req.inTx
  <2>1. /\ status = "running" /\ work \in Seq(SUBSET Nat) /\ Len(work) = 1 /\ db = {}
        /\ work[1] = Starts \ {start}
    BY <1>1, <1>2 DEF LandInv, Landed
  <2>2. /\ work' = [work EXCEPT ![1] = @ \cup {start}]
        /\ status' = status /\ db' = db
    BY <1>2, <2>1 DEF Lands, T!Do, T!Innermost
  <2>3. /\ work' \in Seq(SUBSET Nat) /\ Len(work') = 1
        /\ work'[1] = work[1] \cup {start}
    BY <1>1, <2>1, <2>2
  <2> QED
    BY <1>1, <1>2, <2>1, <2>2, <2>3 DEF Landed
<1>3. CASE ~req.inTx
  BY <1>1, <1>3 DEF Lands, Landed, Types
<1> QED
  BY <1>2, <1>3

(* A call that fails returns an error, with the statement at work in effect or not. *)
LEMMA FailKeeps ==
  ASSUME IInv, pc \in {"check"} \cup Working, Fail, UNCHANGED rowVars,
         UNCHANGED txVars \/ (pc \in {"send", "rows"} /\ Lands)
  PROVE  IInv'
<1> USE DEF IInv
<1>1. /\ req' = req /\ start' = start /\ stmts' = stmts /\ coming' = coming /\ back' = back
      /\ filled' = filled /\ ret' = "error"
      /\ req.inTx => pc' = "closing" /\ result' = result
      /\ ~req.inTx => pc' = "done" /\ result' = "error"
  BY DEF Fail, Return, rowVars
<1>2. /\ Values' = Values /\ Sent' = Sent /\ Starts' = Starts /\ Last(stmts)' = Last(stmts)
  BY <1>1, SameRequest, SameStatements
<1>3. /\ req.inTx \in BOOLEAN
      /\ req.inTx => /\ status' = "running" /\ db' = {}
                     /\ work' \in Seq(SUBSET Nat) /\ Len(work') = 1
      /\ ~req.inTx => db' = Starts \/ (stmts # << >> /\ db' = Starts \ {Min(Last(stmts))})
      /\ db' \in SUBSET Nat
  <2>1. req.inTx \in BOOLEAN
    BY InputType DEF Types
  <2>2. CASE UNCHANGED txVars
    BY <2>1, <2>2, LastStart DEF txVars, LandInv, Landed, Types, Working
  <2>3. CASE pc \in {"send", "rows"} /\ Lands
    BY <1>1, <2>1, <2>3, LandsFact
  <2> QED
    BY <2>1, <2>2, <2>3
<1>4. Types' /\ CallInv'
  BY <1>1, <1>2, <1>3 DEF Types, CallInv, Working
<1>5. SplitInv'
  BY <1>1, <1>2 DEF SplitInv, SentUpTo
<1>6. LandInv'
  <2>1. /\ result' # "nil" /\ pc' \in {"closing", "done"}
        /\ req.inTx => pc' = "closing" /\ result' # "error"
    BY <1>1, <1>3 DEF CallInv, Working
  <2>2. Min(Last(stmts))' = Min(Last(stmts))
    BY <1>2
  <2> QED
    BY <1>1, <1>2, <1>3, <2>1, <2>2 DEF LandInv
<1>7. FillInv' /\ FilledFromOwnRow'
  BY <1>1, <1>2 DEF FillInv, FilledFromOwnRow
<1> QED
  BY <1>4, <1>5, <1>6, <1>7

(* A batch that has landed, its rows read back: the next one, or nil. *)
LEMMA NextBatchKeeps ==
  ASSUME IInv, pc \in {"send", "rows"}, Lands, NextBatch, UNCHANGED rowVars,
         pc = "send" => ~req.returning,
         pc = "rows" => coming = << >> /\ ~Short
  PROVE  IInv'
<1> USE DEF IInv
<1>1. /\ req' = req /\ stmts' = stmts /\ coming' = coming /\ back' = back
      /\ filled' = filled /\ start' = start + Batch
  BY DEF NextBatch, rowVars
<1>2. /\ Values' = Values /\ Sent' = Sent /\ Starts' = Starts
      /\ Batch' = Batch /\ (Refused' <=> Refused)
  BY <1>1, SameRequest, SameStatements
<1>3. /\ Landed' = Starts
      /\ req.inTx => /\ status' = "running" /\ db' = {}
                     /\ work' \in Seq(SUBSET Nat) /\ Len(work') = 1
      /\ ~req.inTx => db' = Starts
      /\ db' \in SUBSET Nat
  BY <1>1, LandsFact
<1>4. /\ req \in Inputs /\ start \in Nat /\ ~Refused /\ start < req.n /\ req.n \in Nat
      /\ req.inTx \in BOOLEAN /\ req.returning \in BOOLEAN
  BY InputType DEF Types, CallInv, Working
<1>5. /\ End \in Nat /\ start < End /\ End <= req.n
      /\ End = IF start + Batch < req.n THEN start + Batch ELSE req.n
      /\ Batch \in Nat \ {0} /\ start + Batch \in Nat
  BY <1>4, EndFact
<1>6. SentUpTo(End) /\ Sent = 0..(End - 1)
  BY DEF SplitInv, SentUpTo
<1>7. \A v \in Values : filled[v] = IF req.returning /\ v < End THEN v ELSE NoRow
  <2>1. Values \subseteq Nat
    BY <1>4, InputType
  <2>2. CASE pc = "send"
    BY <2>2 DEF FillInv
  <2>3. CASE pc = "rows"
    <3>1. back \in Nat /\ back = End - start /\ Len(coming) = 0 /\ req.returning
      <4>1. back \in Nat /\ back <= End - start /\ req.returning /\ ~(back < End - start)
        BY <2>3 DEF FillInv, Short, Types
      <4>2. Len(coming) = 0
        BY <2>3
      <4> QED
        BY <1>4, <1>5, <4>1, <4>2
    <3>2. start + back = End /\ back + Len(coming) >= End - start
      BY <1>4, <1>5, <3>1
    <3> QED
      BY <1>4, <1>5, <2>1, <2>3, <3>1, <3>2 DEF FillInv
  <2> QED
    BY <2>2, <2>3
<1>8. CASE start + Batch < req.n
  <2>1. /\ pc' = "build" /\ ret' = ret /\ result' = result /\ start' = End /\ start' < req.n
    BY <1>1, <1>5, <1>8 DEF NextBatch
  <2>2. Types' /\ CallInv'
    BY <1>1, <1>2, <1>3, <1>4, <1>5, <2>1 DEF Types, CallInv, Working
  <2>3. SplitInv'
    BY <1>1, <1>2, <1>6, <2>1 DEF SplitInv, SentUpTo, CallInv
  <2>4. LandInv'
    BY <1>1, <1>2, <1>3, <2>1 DEF LandInv, CallInv
  <2>5. FillInv'
    BY <1>1, <1>2, <1>7, <2>1 DEF FillInv
  <2>6. FilledFromOwnRow'
    BY <1>1, <1>2, <2>1 DEF FilledFromOwnRow, CallInv
  <2> QED
    BY <2>2, <2>3, <2>4, <2>5, <2>6
<1>9. CASE ~(start + Batch < req.n)
  <2>1. /\ ret' = "nil" /\ End = req.n
        /\ req.inTx => pc' = "closing" /\ result' = result
        /\ ~req.inTx => pc' = "done" /\ result' = "nil"
    BY <1>1, <1>5, <1>9 DEF NextBatch, Return
  <2>2. result = "none"
    BY DEF CallInv
  <2>3. Sent = Values
    BY <1>6, <2>1 DEF Values
  <2>4. Types' /\ CallInv'
    BY <1>1, <1>2, <1>3, <1>4, <1>5, <2>1, <2>2 DEF Types, CallInv, Working
  <2>5. SplitInv'
    BY <1>1, <1>2, <1>4, <1>6, <2>1 DEF SplitInv, SentUpTo, Working
  <2>6. LandInv'
    BY <1>1, <1>2, <1>3, <1>4, <2>1, <2>2, <2>3 DEF LandInv
  <2>7. FillInv'
    BY <1>4, <2>1 DEF FillInv
  <2>8. FilledFromOwnRow'
    <3>1. Values \subseteq 0..(End - 1)
      BY <2>1 DEF Values
    <3>2. \A v \in Values : v < End
      BY <1>5, <3>1
    <3> QED
      BY <1>1, <1>2, <1>4, <1>7, <2>3, <3>2 DEF FilledFromOwnRow
  <2> QED
    BY <2>4, <2>5, <2>6, <2>7, <2>8
<1> QED
  BY <1>8, <1>9

-----------------------------------------------------------------------------
LEMMA InitHolds == Init => IInv
<1> SUFFICES ASSUME Init
             PROVE  IInv
  OBVIOUS
<1> USE DEF Init
<1>1. /\ req \in Inputs /\ req.n \in Nat /\ Values \subseteq Nat /\ req.inTx \in BOOLEAN
      /\ pc = IF req.inTx THEN "begin" ELSE "check"
      /\ status = "idle" /\ work = << >> /\ db = {}
  BY InputType DEF T!Init
<1>2. Sent = {} /\ Starts = {} /\ Len(stmts) = 0
  BY NothingSent
<1>3. Types
  BY <1>1 DEF Types
<1>4. CallInv
  BY <1>1 DEF CallInv, Working
<1>5. SplitInv
  BY <1>1, <1>2 DEF SplitInv, SentUpTo
<1>6. LandInv
  BY <1>1, <1>2 DEF LandInv, Landed
<1>7. FillInv /\ FilledFromOwnRow
  BY <1>1 DEF FillInv, FilledFromOwnRow
<1> QED
  BY <1>3, <1>4, <1>5, <1>6, <1>7 DEF IInv

(* Before the first statement. *)
LEMMA BeginKeeps ==
  ASSUME IInv, Begin \/ BeginFails \/ CheckPasses \/ NothingToWrite
  PROVE  IInv'
<1> USE DEF IInv
<1>1. /\ pc \in {"begin", "check"} /\ start = 0 /\ stmts = << >> /\ ret = "none"
      /\ result = "none" /\ req \in Inputs /\ req.n \in Nat /\ req.inTx \in BOOLEAN
      /\ pc = "begin" => req.inTx
  BY InputType DEF Begin, BeginFails, CheckPasses, NothingToWrite, CallInv, Types
<1>2. /\ req' = req /\ start' = 0 /\ stmts' = << >> /\ filled' = filled
      /\ coming' = coming /\ back' = back
  BY <1>1 DEF Begin, BeginFails, CheckPasses, NothingToWrite, rowVars
<1>3. /\ Values' = Values /\ Sent' = {} /\ Starts' = {} /\ Len(stmts') = 0 /\ Len(stmts) = 0
      /\ Sent = {} /\ Starts = {} /\ Batch' = Batch /\ (Refused' <=> Refused)
  BY <1>1, <1>2, SameRequest, SameStatements, NothingSent
<1>4. \A v \in Values : filled[v] = NoRow
  <2>1. \A v \in Values : v \in Nat
    BY <1>1, InputType
  <2>2. \A v \in Values : filled[v] = IF req.returning /\ v < 0 THEN v ELSE NoRow
    BY <1>1 DEF FillInv
  <2> QED
    BY <2>1, <2>2
<1>5. (\E m \in 0..req.n : SentUpTo(m))' /\ (SentUpTo(0))'
  BY <1>1, <1>2, <1>3 DEF SentUpTo
<1>6. CASE Begin
  <2>1. /\ pc' = "check" /\ ret' = ret /\ result' = result /\ req.inTx
        /\ status' = "running" /\ work' = <<{}>> /\ db' = db /\ db = {}
    BY <1>1, <1>6 DEF Begin, T!Start, LandInv
  <2>2. /\ work' \in Seq(SUBSET Nat) /\ Len(work') = 1 /\ work'[1] = {}
    BY <2>1
  <2>3. Types' /\ CallInv'
    BY <1>1, <1>2, <1>3, <2>1 DEF Types, CallInv, Working
  <2>4. SplitInv'
    BY <1>2, <1>3, <1>5, <2>1, <1>1 DEF SplitInv, SentUpTo
  <2>5. LandInv'
    BY <1>1, <1>2, <1>3, <2>1, <2>2 DEF LandInv, Landed
  <2>6. FillInv' /\ FilledFromOwnRow'
    BY <1>1, <1>2, <1>3, <1>4, <2>1 DEF FillInv, FilledFromOwnRow
  <2> QED
    BY <2>3, <2>4, <2>5, <2>6
<1>7. CASE BeginFails
  <2>1. /\ pc' = "done" /\ ret' = ret /\ result' = "error" /\ req.inTx /\ pc = "begin"
        /\ db' = db /\ db = {}
    BY <1>1, <1>7 DEF BeginFails, T!Refuse, LandInv
  <2>2. Types' /\ CallInv'
    BY <1>1, <1>2, <1>3, <2>1 DEF Types, CallInv, Working
  <2>3. SplitInv'
    BY <1>1, <1>2, <1>3, <1>5, <2>1 DEF SplitInv, SentUpTo
  <2>4. LandInv'
    BY <1>1, <1>2, <1>3, <2>1 DEF LandInv, Landed
  <2>5. FillInv' /\ FilledFromOwnRow'
    BY <1>1, <1>2, <1>3, <1>4, <2>1 DEF FillInv, FilledFromOwnRow
  <2> QED
    BY <2>2, <2>3, <2>4, <2>5
<1>8. CASE CheckPasses
  <2>1. /\ pc' = "build" /\ ret' = ret /\ result' = result /\ pc = "check"
        /\ req.n > 0 /\ ~Refused
        /\ status' = status /\ work' = work /\ db' = db
    BY <1>8 DEF CheckPasses, txVars
  <2>2. Types' /\ CallInv'
    BY <1>1, <1>2, <1>3, <2>1 DEF Types, CallInv, Working
  <2>3. SplitInv'
    BY <1>1, <1>2, <1>3, <1>5, <2>1 DEF SplitInv, SentUpTo
  <2>4. LandInv'
    BY <1>1, <1>2, <1>3, <2>1 DEF LandInv, Landed
  <2>5. FillInv' /\ FilledFromOwnRow'
    BY <1>1, <1>2, <1>3, <1>4, <2>1 DEF FillInv, FilledFromOwnRow
  <2> QED
    BY <2>2, <2>3, <2>4, <2>5
<1>9. CASE NothingToWrite
  <2>1. /\ ret' = "nil" /\ pc = "check" /\ req.n = 0
        /\ req.inTx => pc' = "closing" /\ result' = result
        /\ ~req.inTx => pc' = "done" /\ result' = "nil"
        /\ status' = status /\ work' = work /\ db' = db
    BY <1>9 DEF NothingToWrite, Return, txVars
  <2>2. Values = {}
    BY <2>1 DEF Values
  <2>3. Types' /\ CallInv'
    BY <1>1, <1>2, <1>3, <2>1 DEF Types, CallInv, Working
  <2>4. SplitInv'
    BY <1>1, <1>2, <1>3, <1>5, <2>1 DEF SplitInv, SentUpTo, Working
  <2>5. LandInv'
    BY <1>1, <1>2, <1>3, <2>1, <2>2 DEF LandInv, Landed
  <2>6. FillInv' /\ FilledFromOwnRow'
    BY <1>1, <1>2, <1>3, <1>4, <2>1, <2>2 DEF FillInv, FilledFromOwnRow
  <2> QED
    BY <2>3, <2>4, <2>5, <2>6
<1> QED
  BY <1>6, <1>7, <1>8, <1>9

LEMMA BuildKeeps ==
  ASSUME IInv, Build
  PROVE  IInv'
<1> USE DEF IInv
<1>1. /\ pc = "build" /\ pc' = "send" /\ stmts' = Append(stmts, start..(End - 1))
      /\ req' = req /\ start' = start /\ coming' = coming /\ back' = back /\ filled' = filled
      /\ ret' = ret /\ result' = result /\ status' = status /\ work' = work /\ db' = db
  BY DEF Build, rowVars, txVars
<1>2. /\ req \in Inputs /\ req.n \in Nat /\ req.inTx \in BOOLEAN /\ start \in Nat
      /\ start < req.n /\ ~Refused /\ SentUpTo(start) /\ ret = "none" /\ result = "none"
  BY <1>1, InputType DEF Types, CallInv, SplitInv, Working
<1>3. /\ Values' = Values /\ Batch' = Batch /\ (Refused' <=> Refused) /\ End' = End
      /\ End \in 0..req.n
  BY <1>1, <1>2, SameRequest, EndFact DEF End
<1>4. /\ stmts' \in Seq(SUBSET Nat) /\ stmts' # << >>
      /\ Last(stmts') = start..(End - 1)
      /\ Sent' = 0..(End - 1)
      /\ Starts' = Starts \cup {start} /\ start \notin Starts
      /\ \A k \in 1..Len(stmts') :
           /\ Min(stmts'[k]) \in stmts'[k]
           /\ req.limit > 0 => Cardinality(stmts'[k]) * req.cols <= req.limit
           /\ \A j \in 1..(k - 1) : \A v \in stmts'[j], w \in stmts'[k] : v < w
  BY <1>1, <1>2, SentMore
<1>5. Types' /\ CallInv'
  BY <1>1, <1>2, <1>3, <1>4 DEF Types, CallInv, Working
<1>6. SplitInv'
  BY <1>1, <1>2, <1>3, <1>4 DEF SplitInv, SentUpTo
<1>7. LandInv'
  <2>1. Starts = Starts' \ {start}
    BY <1>4
  <2>2. Landed = Starts /\ Landed' = Landed
    BY <1>1 DEF LandInv, Landed
  <2> QED
    BY <1>1, <1>2, <2>1, <2>2 DEF LandInv
<1>8. FillInv' /\ FilledFromOwnRow'
  <2>1. Sent \subseteq Sent'
    BY <1>2, <1>3, <1>4, EndFact DEF SentUpTo
  <2> QED
    BY <1>1, <1>2, <1>3, <2>1 DEF FillInv, FilledFromOwnRow
<1> QED
  BY <1>5, <1>6, <1>7, <1>8

-----------------------------------------------------------------------------
(* The rows an engine answers with: enough of them only if they are in order. *)
LEMMA RemoveFact ==
  ASSUME NEW S, NEW s \in Seq(S), NEW i \in 1..Len(s)
  PROVE  RemoveAt(s, i) \in Seq(S) /\ Len(RemoveAt(s, i)) = Len(s) - 1
<1>1. Len(s) \in Nat
  BY LenProperties
<1> DEFINE before == SubSeq(s, 1, i - 1)
           behind == SubSeq(s, i + 1, Len(s))
<1>2. before \in Seq(S) /\ Len(before) = i - 1
  BY <1>1
<1>3. behind \in Seq(S) /\ Len(behind) = Len(s) - i
  BY <1>1
<1>4. RemoveAt(s, i) = before \o behind
  BY DEF RemoveAt
<1> HIDE DEF before, behind
<1>5. before \o behind \in Seq(S) /\ Len(before \o behind) = Len(before) + Len(behind)
  BY <1>2, <1>3, ConcatProperties
<1>6. Len(before) + Len(behind) = Len(s) - 1
  BY <1>1, <1>2, <1>3
<1> QED
  BY <1>4, <1>5, <1>6

LEMMA AnswersFact ==
  ASSUME start \in Nat, End \in Nat, start < End, req.n \in Nat, NEW rows \in Answers
  PROVE  /\ rows \in Seq(Nat) /\ Len(rows) \in Nat
         /\ Len(rows) >= End - start =>
              \A j \in 1..Len(rows) : j <= End - start => rows[j] = start + j - 1
<1> DEFINE m == End - start
           own == [i \in 1..m |-> start + i - 1]
<1>1. m \in Nat
  OBVIOUS
<1>2. own \in [1..m -> Nat]
  BY <1>1
<1>3. own \in Seq(Nat) /\ \A j \in 1..m : own[j] = start + j - 1
  BY <1>1, <1>2, SeqDef
<1>4. Len(own) = m
  <2>1. DOMAIN own = 1..Len(own) /\ Len(own) \in Nat /\ DOMAIN own = 1..m
    BY <1>2, <1>3, LenProperties
  <2> DEFINE k == Len(own)
  <2>2. k \in Nat /\ \A i \in Int : i \in 1..k <=> i \in 1..m
    BY <2>1
  <2> HIDE DEF k, m
  <2>3. k <= m /\ m <= k
    BY <1>1, <2>2
  <2> QED
    BY <1>1, <2>2, <2>3 DEF k
<1>5. rows \in {own, Append(own, req.n)} \cup {RemoveAt(own, i) : i \in DOMAIN own}
  BY DEF Answers
<1>6. DOMAIN own = 1..m
  OBVIOUS
<1> HIDE DEF own
<1>7. CASE rows = own
  BY <1>1, <1>3, <1>4, <1>7
<1>8. CASE rows = Append(own, req.n)
  <2>0. /\ Append(own, req.n) \in Seq(Nat) /\ Len(Append(own, req.n)) = Len(own) + 1
        /\ \A j \in 1..Len(own) : Append(own, req.n)[j] = own[j]
    BY <1>3, AppendProperties
  <2>1. /\ rows \in Seq(Nat) /\ Len(rows) = m + 1
        /\ \A j \in 1..m : rows[j] = own[j]
    BY <1>4, <1>8, <2>0
  <2>2. Len(rows) \in Nat
    BY <1>1, <2>1
  <2>3. ASSUME NEW j \in 1..Len(rows), j <= m
        PROVE  rows[j] = start + j - 1
    <3>1. j \in 1..m
      BY <1>1, <2>2, <2>3
    <3> QED
      BY <1>3, <2>1, <3>1
  <2> QED
    BY <2>1, <2>2, <2>3
<1>9. ASSUME NEW i \in DOMAIN own, rows = RemoveAt(own, i)
      PROVE  rows \in Seq(Nat) /\ Len(rows) \in Nat /\ ~(Len(rows) >= m)
  <2>1. rows \in Seq(Nat) /\ Len(rows) = m - 1 /\ m >= 1
    <3>1. i \in 1..Len(own)
      BY <1>4, <1>6, <1>9
    <3>2. RemoveAt(own, i) \in Seq(Nat) /\ Len(RemoveAt(own, i)) = Len(own) - 1
      BY <1>3, <3>1, RemoveFact
    <3> QED
      BY <1>1, <1>4, <1>9, <3>1, <3>2
  <2>2. Len(rows) \in Nat /\ ~(m - 1 >= m)
    BY <1>1, <2>1
  <2> QED
    BY <2>1, <2>2
<1> QED
  BY <1>5, <1>7, <1>8, <1>9

LEMMA QueryKeeps ==
  ASSUME IInv, Query
  PROVE  IInv'
<1> USE DEF IInv
<1>1. /\ pc = "send" /\ pc' = "rows" /\ coming' \in Answers /\ back' = 0 /\ req.returning
      /\ req' = req /\ start' = start /\ stmts' = stmts /\ filled' = filled
      /\ ret' = ret /\ result' = result /\ status' = status /\ work' = work /\ db' = db
  BY DEF Query, txVars
<1>2. /\ req \in Inputs /\ req.n \in Nat /\ start \in Nat /\ start < req.n /\ ~Refused
      /\ ret = "none" /\ Values \subseteq Nat
  BY <1>1, InputType DEF Types, CallInv, Working
<1>3. /\ Values' = Values /\ Sent' = Sent /\ Starts' = Starts /\ Last(stmts)' = Last(stmts)
      /\ Batch' = Batch /\ (Refused' <=> Refused) /\ End' = End
  BY <1>1, SameRequest, SameStatements DEF End
<1>4. End \in Nat /\ start < End /\ End <= req.n
  BY <1>2, EndFact
<1>5. /\ coming' \in Seq(Nat) /\ Len(coming') \in Nat
      /\ Len(coming') >= End - start =>
           \A j \in 1..Len(coming') : j <= End - start => coming'[j] = start + j - 1
  BY <1>1, <1>2, <1>4, AnswersFact
<1>6. Types' /\ CallInv'
  BY <1>1, <1>2, <1>3, <1>5 DEF Types, CallInv, Working
<1>7. SplitInv'
  BY <1>1, <1>2, <1>3 DEF SplitInv, SentUpTo
<1>8. LandInv'
  BY <1>1, <1>2, <1>3 DEF LandInv, Landed
<1>9. FillInv'
  <2>1. \A v \in Values : filled[v] = IF v < start THEN v ELSE NoRow
    BY <1>1 DEF FillInv
  <2>2. \A v \in Values : v \in Nat
    BY <1>2
  <2>3. back' = 0 /\ 0 <= End - start /\ start + 0 = start
    BY <1>1, <1>2, <1>4
  <2>4. \A v \in Values : start <= v => filled[v] = NoRow
    BY <1>2, <2>1, <2>2
  <2>5. \A v \in Values : v < start => filled[v] = v
    BY <2>1
  <2>6. ASSUME 0 + Len(coming') >= End - start
        PROVE  \A j \in 1..Len(coming') :
                 0 + j <= End - start => coming'[j] = start + 0 + j - 1
    BY <1>2, <1>4, <1>5, <2>6
  <2> QED
    BY <1>1, <1>3, <2>3, <2>4, <2>5, <2>6 DEF FillInv
<1>10. FilledFromOwnRow'
  BY <1>1, <1>2, <1>3 DEF FilledFromOwnRow
<1> QED
  BY <1>6, <1>7, <1>8, <1>9, <1>10

LEMMA ScanRowKeeps ==
  ASSUME IInv, ScanRow
  PROVE  IInv'
<1> USE DEF IInv
<1>1. /\ pc = "rows" /\ pc' = pc /\ coming # << >> /\ back < End - start
      /\ filled' = [filled EXCEPT ![start + back] = Head(coming)]
      /\ coming' = Tail(coming) /\ back' = back + 1
      /\ req' = req /\ start' = start /\ stmts' = stmts
      /\ ret' = ret /\ result' = result /\ status' = status /\ work' = work /\ db' = db
  BY DEF ScanRow, callVars, txVars
<1>2. /\ req \in Inputs /\ req.n \in Nat /\ start \in Nat /\ start < req.n /\ ~Refused
      /\ ret = "none" /\ Values \subseteq Nat /\ back \in Nat /\ req.returning
  BY <1>1, InputType DEF Types, CallInv, FillInv, Working
<1>3. /\ Values' = Values /\ Sent' = Sent /\ Starts' = Starts /\ Last(stmts)' = Last(stmts)
      /\ Batch' = Batch /\ (Refused' <=> Refused) /\ End' = End
  BY <1>1, SameRequest, SameStatements DEF End
<1>4. End \in Nat /\ start < End /\ End <= req.n
  BY <1>2, EndFact
<1>5. /\ Len(coming) \in Nat \ {0} /\ coming' \in Seq(Nat) /\ Len(coming') = Len(coming) - 1
      /\ Head(coming) = coming[1] /\ Head(coming) \in Nat
      /\ \A j \in 1..Len(coming') : coming'[j] = coming[j + 1]
  BY <1>1, HeadTailProperties, LenProperties, EmptySeq DEF Types
<1> DEFINE w == start + back
<1>6. w \in Nat /\ w < End /\ w \in Values
  BY <1>1, <1>2, <1>4 DEF Values
<1>7. /\ filled' \in [Values -> Nat \cup {NoRow}]
      /\ filled'[w] = Head(coming)
      /\ \A v \in Values : v # w => filled'[v] = filled[v]
  BY <1>1, <1>5, <1>6 DEF Types
<1>8. Types' /\ CallInv'
  BY <1>1, <1>2, <1>3, <1>5, <1>7 DEF Types, CallInv, Working
<1>9. SplitInv'
  BY <1>1, <1>2, <1>3 DEF SplitInv, SentUpTo
<1>10. LandInv'
  BY <1>1, <1>2, <1>3 DEF LandInv, Landed
<1>11. FillInv'
  <2>1. back' \in Nat /\ back' <= End - start /\ start + back' = w + 1
    BY <1>1, <1>2, <1>4
  <2>2. ASSUME NEW v \in Values, w + 1 <= v
        PROVE  filled'[v] = NoRow
    <3>1. v \in Nat /\ v # w /\ w <= v
      BY <1>2, <1>6, <2>2
    <3> QED
      BY <1>1, <1>7, <3>1 DEF FillInv
  <2>3. ASSUME back' + Len(coming') >= End - start
        PROVE  /\ \A v \in Values : v < w + 1 => filled'[v] = v
               /\ \A j \in 1..Len(coming') :
                    back' + j <= End - start => coming'[j] = w + 1 + j - 1
    <3>1. back + Len(coming) >= End - start
      BY <1>1, <1>2, <1>4, <1>5, <2>3
    <3>2. /\ \A v \in Values : v < w => filled[v] = v
          /\ \A j \in 1..Len(coming) : back + j <= End - start => coming[j] = w + j - 1
      BY <1>1, <3>1 DEF FillInv
    <3>3. 1 \in 1..Len(coming) /\ back + 1 <= End - start /\ w + 1 - 1 = w
      BY <1>1, <1>2, <1>4, <1>5, <1>6
    <3>4. Head(coming) = w
      BY <1>5, <3>2, <3>3
    <3>5. ASSUME NEW v \in Values, v < w + 1
          PROVE  filled'[v] = v
      <4>1. v = w \/ (v # w /\ v < w)
        BY <1>2, <1>6, <3>5
      <4> QED
        BY <1>7, <3>2, <3>4, <4>1
    <3>6. ASSUME NEW j \in 1..Len(coming'), back' + j <= End - start
          PROVE  coming'[j] = w + 1 + j - 1
      <4>1. /\ j + 1 \in 1..Len(coming) /\ back + (j + 1) <= End - start
            /\ w + (j + 1) - 1 = w + 1 + j - 1
        BY <1>1, <1>2, <1>4, <1>5, <1>6, <3>6
      <4>2. coming[j + 1] = w + (j + 1) - 1
        BY <3>2, <4>1
      <4> QED
        BY <1>5, <4>1, <4>2
    <3> QED
      BY <3>5, <3>6
  <2>4. req'.returning /\ End' - start' = End - start /\ start' + back' = w + 1
    BY <1>1, <1>2, <1>3, <2>1
  <2> HIDE DEF w
  <2> QED
    BY <1>1, <1>3, <2>1, <2>2, <2>3, <2>4 DEF FillInv
<1>12. FilledFromOwnRow'
  <2>1. SentUpTo(End)
    BY <1>1 DEF SplitInv
  <2>2. w \in Sent
    BY <1>4, <1>6, <2>1 DEF SentUpTo
  <2> QED
    BY <1>1, <1>2, <1>3, <1>7, <2>2 DEF FilledFromOwnRow
<1> QED
  BY <1>8, <1>9, <1>10, <1>11, <1>12

(* InTx commits what landed after nil, and nothing else. *)
LEMMA CloseKeeps ==
  ASSUME IInv, CommitAccepted \/ CommitReplyLost \/ CommitRefused \/ RollBack
  PROVE  IInv'
<1> USE DEF IInv
<1>1. /\ pc = "closing" /\ pc' = "done" /\ result' \in {"nil", "error"}
      /\ req' = req /\ start' = start /\ stmts' = stmts /\ coming' = coming /\ back' = back
      /\ filled' = filled /\ ret' = ret
  BY DEF CommitAccepted, CommitReplyLost, CommitRefused, RollBack, Close, rowVars
<1>2. /\ req \in Inputs /\ req.n \in Nat /\ req.inTx /\ ret # "none" /\ result = "none"
  BY <1>1, InputType DEF Types, CallInv
<1>3. /\ Values' = Values /\ Sent' = Sent /\ Starts' = Starts /\ Last(stmts)' = Last(stmts)
  BY <1>1, SameRequest, SameStatements
<1>4. /\ status = "running" /\ db = {}
  BY <1>1, <1>2 DEF LandInv
<1>5. ret = "nil" => work[1] = Starts /\ Sent = Values
  BY <1>1, <1>2 DEF LandInv, Landed, SplitInv, SentUpTo, Values
<1>6. /\ db' = {} \/ (db' = Starts /\ Sent = Values)
      /\ result' = "nil" => db' = Starts /\ Sent = Values
  <2>1. CASE CommitAccepted \/ CommitReplyLost
    <3>1. ret = "nil" /\ db' = work[1]
      BY <1>4, <2>1 DEF CommitAccepted, CommitReplyLost, T!Commit
    <3> QED
      BY <1>5, <3>1
  <2>2. CASE CommitRefused \/ RollBack
    <3>1. db' = db /\ result' = "error"
      BY <2>2 DEF CommitRefused, RollBack, T!Abort, Close
    <3> QED
      BY <1>4, <3>1
  <2> QED
    BY <2>1, <2>2
<1>7. db' \in SUBSET Nat
  <2>1. Starts \subseteq Nat
    BY StartsAreSent DEF SplitInv, SentUpTo
  <2> QED
    BY <1>6, <2>1
<1>8. Types' /\ CallInv'
  BY <1>1, <1>2, <1>3, <1>7 DEF Types, CallInv, Working
<1>9. SplitInv'
  BY <1>1, <1>2, <1>3 DEF SplitInv, SentUpTo
<1>10. LandInv'
  BY <1>1, <1>2, <1>3, <1>6 DEF LandInv
<1>11. FillInv' /\ FilledFromOwnRow'
  BY <1>1, <1>3 DEF FillInv, FilledFromOwnRow
<1> QED
  BY <1>8, <1>9, <1>10, <1>11

-----------------------------------------------------------------------------
LEMMA StutterKeeps ==
  ASSUME IInv, UNCHANGED vars
  PROVE  IInv'
<1>1. /\ req' = req /\ pc' = pc /\ start' = start /\ stmts' = stmts /\ coming' = coming
      /\ back' = back /\ filled' = filled /\ ret' = ret /\ result' = result
      /\ status' = status /\ work' = work /\ db' = db
  BY DEF vars, callVars, rowVars, txVars
<1>2. /\ Values' = Values /\ Sent' = Sent /\ Starts' = Starts /\ Last(stmts)' = Last(stmts)
      /\ Batch' = Batch /\ (Refused' <=> Refused) /\ End' = End
  BY <1>1, SameRequest, SameStatements DEF End
<1>3. Types' /\ CallInv'
  BY <1>1, <1>2 DEF IInv, Types, CallInv
<1>4. SplitInv'
  BY <1>1, <1>2 DEF IInv, SplitInv, SentUpTo
<1>5. LandInv'
  BY <1>1, <1>2 DEF IInv, LandInv, Landed
<1>6. FillInv' /\ FilledFromOwnRow'
  BY <1>1, <1>2 DEF IInv, FillInv, FilledFromOwnRow
<1> QED
  BY <1>3, <1>4, <1>5, <1>6 DEF IInv

(* One step per action. *)
LEMMA StepKeeps == IInv /\ [Next]_vars => IInv'
<1> SUFFICES ASSUME IInv, [Next]_vars
             PROVE  IInv'
  OBVIOUS
<1>1. CASE Begin \/ BeginFails \/ NothingToWrite \/ CheckPasses
  BY <1>1, BeginKeeps
<1>2. CASE CheckFails
  BY <1>2, FailKeeps DEF CheckFails
<1>3. CASE BuildFails
  BY <1>3, FailKeeps DEF BuildFails, Working
<1>4. CASE Build
  BY <1>4, BuildKeeps
<1>5. CASE Exec
  BY <1>5, NextBatchKeeps DEF Exec
<1>6. CASE ExecFails
  BY <1>6, FailKeeps DEF ExecFails, LandsOrNot, Working
<1>7. CASE Query
  BY <1>7, QueryKeeps
<1>8. CASE QueryFails
  BY <1>8, FailKeeps DEF QueryFails, LandsOrNot, Working
<1>9. CASE ScanRow
  BY <1>9, ScanRowKeeps
<1>10. CASE ScanFails
  BY <1>10, FailKeeps DEF ScanFails, LandsOrNot, Working
<1>11. CASE RowsEnd
  <2>1. CASE Short
    BY <1>11, <2>1, FailKeeps DEF RowsEnd, Working
  <2>2. CASE ~Short
    BY <1>11, <2>2, NextBatchKeeps DEF RowsEnd
  <2> QED
    BY <2>1, <2>2
<1>12. CASE CommitAccepted \/ CommitReplyLost \/ CommitRefused \/ RollBack
  BY <1>12, CloseKeeps
<1>13. CASE UNCHANGED vars
  BY <1>13, StutterKeeps
<1> QED
  BY <1>1, <1>2, <1>3, <1>4, <1>5, <1>6, <1>7, <1>8, <1>9, <1>10, <1>11, <1>12, <1>13
     DEF Next, Finished

(* The inductive invariant: where the call is, how far the statements have got, what
   has landed and which rows are still to come, for InsertMany of write.go. *)
THEOREM Invariant == Spec => []IInv
<1>1. Init => IInv
  BY InitHolds
<1>2. IInv /\ [Next]_vars => IInv'
  BY StepKeeps
<1> QED
  BY <1>1, <1>2, PTL DEF Spec

-----------------------------------------------------------------------------
(* However long the slice and whatever the limit, the statements of InsertMany split
   it: no value is in two of them or passed over, none is empty, and "no single
   statement exceeds the engine's parameter limit" (write.go). *)
THEOREM SplitsTheSlice == Spec => []StatementsSplitValues
<1>1. IInv => StatementsSplitValues
  <2> SUFFICES ASSUME IInv
               PROVE  StatementsSplitValues
    OBVIOUS
  <2> USE DEF IInv
  <2>1. Types /\ SplitInv /\ req.n \in Nat /\ DOMAIN stmts = 1..Len(stmts)
    BY InputType, LenProperties DEF Types
  <2>2. \A i \in DOMAIN stmts :
          /\ stmts[i] # {}
          /\ req.limit > 0 => Cardinality(stmts[i]) * req.cols <= req.limit
          /\ \A j \in 1..(i - 1) : \A v \in stmts[j], w \in stmts[i] : v < w
    BY <2>1 DEF SplitInv
  <2>3. Sent = 0..(Cardinality(Sent) - 1)
    <3>1. PICK m \in 0..req.n : SentUpTo(m)
      BY <2>1 DEF SplitInv
    <3>2. Sent = 0..(m - 1) /\ m \in Nat
      BY <2>1, <3>1 DEF SentUpTo
    <3>3. Cardinality(0..(m - 1)) = IF 0 > m - 1 THEN 0 ELSE (m - 1) - 0 + 1
      BY <3>2, FS_Interval
    <3>4. Cardinality(Sent) = m
      BY <3>2, <3>3
    <3> QED
      BY <3>2, <3>4
  <2>4. ret = "nil" => Sent = Values
    BY DEF SplitInv, SentUpTo, Values
  <2> QED
    BY <2>2, <2>3, <2>4 DEF StatementsSplitValues
<1> QED
  BY <1>1, Invariant, PTL

(* After nil every row is in the database; after an error on a *DB all batches before
   the one that failed are, which may have landed or not, and in an InTx all rows or
   none (write.go, InsertMany; tx.go, InTx). *)
THEOREM AllLandOrAsDocumented == Spec => []WhatLands
<1>1. IInv => WhatLands
  <2> SUFFICES ASSUME IInv
               PROVE  WhatLands
    OBVIOUS
  <2>1. req.inTx => db = {} \/ (db = Starts /\ Sent = Values)
    BY DEF IInv, LandInv
  <2> QED
    BY <2>1 DEF IInv, LandInv, WhatLands
<1> QED
  BY <1>1, Invariant, PTL

(* scanBack fills each value from the row that is its own, even where the engine gives
   back rows too few or too many, or the call returns an error. *)
THEOREM FilledByOwnRow == Spec => []FilledFromOwnRow
<1>1. IInv => FilledFromOwnRow
  BY DEF IInv
<1> QED
  BY <1>1, Invariant, PTL
=============================================================================
