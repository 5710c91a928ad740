---------------------------- MODULE RowReadProofs ---------------------------
(***************************************************************************)
(* The promises of All, One, First and Iter, proved for any finite number  *)
(* of readers, any pool and results of any length.                         *)
(*                                                                         *)
(* What a reader has handed over follows from where it is in the function  *)
(* and from the state of its rows (ReaderInv), and a step of one reader    *)
(* leaves the others where they are; only the connections are counted over *)
(* all of them.                                                            *)
(***************************************************************************)
EXTENDS RowRead, SequenceTheorems, FiniteSetTheorems, TLAPS

Inside == {"reader", "next", "read", "second", "body", "asked", "err"}
Places == {"reserve", "call", "returned", "done"} \cup Inside
Cursors == {"none", "open", "eof", "failed", "closed"}
Results == {"none", "ok", "error", "no rows", "too many", "left", "no connection"}

Types ==
  /\ op \in [Readers -> Ops]
  /\ total \in [Readers -> Nat]
  /\ limit \in Nat
  /\ pc \in [Readers -> Places]
  /\ cursor \in [Readers -> Cursors]
  /\ pos \in [Readers -> Nat]
  /\ out \in [Readers -> Seq(Nat)]
  /\ given \in [Readers -> Seq(Nat)]
  /\ result \in [Readers -> Results]
  /\ extra \in [Readers -> BOOLEAN]

(* A call that has not returned has read the rows up to the cursor, the one it is
   at once it is converted, and Iter has handed over what it read. *)
Under(r) ==
  /\ result[r] = "none"
  /\ out[r] = UpTo(IF pc[r] = "read" THEN pos[r] - 1 ELSE pos[r])
  /\ given[r] = IF op[r] = "Iter" THEN out[r] ELSE << >>
  /\ pos[r] <= total[r]
  /\ op[r] \in {"One", "First"} => pos[r] <= 1

(* What a call vouches for that ends with this outcome and handed this over. *)
Vouched(r, outcome, handed) ==
  /\ outcome = "ok" =>
       CASE op[r] \in {"All", "Iter"} -> handed = UpTo(total[r])
         [] op[r] = "One" -> handed = <<1>> /\ total[r] = 1
         [] op[r] = "First" -> handed = <<1>> /\ total[r] >= 1
  /\ outcome = "no rows" => total[r] = 0
  /\ outcome = "too many" => op[r] = "One" /\ total[r] > 1
  /\ op[r] = "Iter" =>
       \E n \in 0..total[r] :
         handed = CASE outcome = "error" -> UpTo(n) \o <<Failure>>
                    [] outcome = "left" -> UpTo(n) \o <<Stopped>>
                    [] OTHER -> UpTo(n)

Ended(r) ==
  /\ result[r] # "none"
  /\ cursor[r] \in {"none", "closed"}
  /\ Vouched(r, result[r], given[r])

ReaderInv(r) ==
  /\ pc[r] \in {"reserve", "call"} => cursor[r] = "none"
  /\ pc[r] \in {"reserve", "call", "reader"} => pos[r] = 0
  /\ pc[r] \in Inside => cursor[r] \in {"open", "eof", "failed"}
  /\ cursor[r] = "eof" => pc[r] = "err" /\ pos[r] = total[r]
  /\ pc[r] = "err" /\ cursor[r] = "open" => op[r] = "First" /\ pos[r] = 1
  /\ pc[r] = "next" /\ op[r] \in {"One", "First"} => pos[r] = 0
  /\ pc[r] = "read" => pos[r] >= 1
  /\ pc[r] = "second" => op[r] = "One" /\ pos[r] = 1
  /\ pc[r] \in {"body", "asked"} => op[r] = "Iter"
  /\ pc[r] \notin {"returned", "done"} => Under(r)
  /\ pc[r] \in {"returned", "done"} => Ended(r)
  /\ pc[r] \in {"reserve", "done"} => ~extra[r]

PoolInv == Held <= limit

IInv == Types /\ PoolInv /\ \A r \in Readers : ReaderInv(r)

-----------------------------------------------------------------------------
(* The rows 1 to n, and one more. *)
LEMMA UpToFact ==
  ASSUME NEW n \in Nat
  PROVE  /\ UpTo(n) \in Seq(Nat)
         /\ Len(UpTo(n)) = n
         /\ \A i \in 1..n : UpTo(n)[i] = i
<1>1. UpTo(n) \in [1..n -> Nat]
  BY DEF UpTo
<1>2. UpTo(n) \in Seq(Nat)
  BY <1>1, SeqDef
<1>3. DOMAIN UpTo(n) = 1..Len(UpTo(n)) /\ Len(UpTo(n)) \in Nat /\ DOMAIN UpTo(n) = 1..n
  BY <1>1, <1>2, LenProperties
<1>4. Len(UpTo(n)) = n
  <2> DEFINE m == Len(UpTo(n))
  <2>1. m \in Nat /\ \A i \in Int : i \in 1..m <=> i \in 1..n
    BY <1>3
  <2> HIDE DEF m
  <2>2. m <= n /\ n <= m
    BY <2>1
  <2> QED
    BY <2>1, <2>2 DEF m
<1> QED
  BY <1>2, <1>4 DEF UpTo

LEMMA UpToNext ==
  ASSUME NEW n \in Nat
  PROVE  Append(UpTo(n), n + 1) = UpTo(n + 1)
<1>1. UpTo(n) \in Seq(Nat) /\ Len(UpTo(n)) = n /\ \A i \in 1..n : UpTo(n)[i] = i
  BY UpToFact
<1>2. /\ UpTo(n + 1) \in Seq(Nat) /\ Len(UpTo(n + 1)) = n + 1
      /\ \A i \in 1..(n + 1) : UpTo(n + 1)[i] = i
  BY UpToFact
<1>3. /\ Append(UpTo(n), n + 1) \in Seq(Nat)
      /\ Len(Append(UpTo(n), n + 1)) = n + 1
      /\ \A i \in 1..(n + 1) : Append(UpTo(n), n + 1)[i] = i
  BY <1>1, AppendProperties
<1> QED
  BY <1>2, <1>3, SeqEqual

LEMMA UpToFirst == UpTo(0) = << >> /\ UpTo(1) = <<1>> /\ \A n \in Nat \ {0} : UpTo(n) # << >>
<1>1. UpTo(0) = << >>
  BY UpToFact, EmptySeq
<1>2. UpTo(1) = <<1>>
  <2>1. UpTo(1) \in Seq(Nat) /\ Len(UpTo(1)) = 1 /\ \A i \in 1..1 : UpTo(1)[i] = i
    BY UpToFact
  <2>2. <<1>> \in Seq(Nat) /\ Len(<<1>>) = 1 /\ \A i \in 1..1 : <<1>>[i] = i
    OBVIOUS
  <2> QED
    BY <2>1, <2>2, SeqEqual
<1>3. \A n \in Nat \ {0} : UpTo(n) # << >>
  BY UpToFact, EmptySeq
<1> QED
  BY <1>1, <1>2, <1>3

-----------------------------------------------------------------------------
(* The connections that are out, and what they amount to. *)
Reading == {r \in Readers : cursor[r] = "open" /\ how[r] # "through"}
Extra == {r \in Readers : extra[r]}

LEMMA HeldFact ==
  /\ IsFiniteSet(Reading) /\ IsFiniteSet(Extra)
  /\ Cardinality(Reading) \in Nat /\ Cardinality(Extra) \in Nat
  /\ Held = Cardinality(Reading) + Cardinality(Extra)
<1>1. IsFiniteSet(Reading) /\ IsFiniteSet(Extra)
  BY ReadersAssumption, FS_Subset DEF Reading, Extra
<1> QED
  BY <1>1, FS_CardinalityType DEF Held, Reading, Extra

(* Giving connections back. *)
LEMMA HeldShrinks ==
  ASSUME Reading' \subseteq Reading, Extra' \subseteq Extra
  PROVE  Held' \in Nat /\ Held' <= Held
<1>1. /\ Cardinality(Reading') \in Nat /\ Cardinality(Reading') <= Cardinality(Reading)
      /\ Cardinality(Extra') \in Nat /\ Cardinality(Extra') <= Cardinality(Extra)
  BY HeldFact, FS_Subset, FS_CardinalityType
<1>2. Held' = Cardinality(Reading') + Cardinality(Extra')
  BY DEF Held, Reading, Extra
<1> QED
  BY <1>1, <1>2, HeldFact

(* One connection more. *)
LEMMA HeldGrows ==
  ASSUME NEW r \in Readers,
         \/ Reading' \subseteq Reading \cup {r} /\ Extra' \subseteq Extra
         \/ Reading' \subseteq Reading /\ Extra' \subseteq Extra \cup {r}
  PROVE  Held' \in Nat /\ Held' <= Held + 1
<1>1. \A S \in {Reading, Extra} :
        /\ IsFiniteSet(S \cup {r})
        /\ Cardinality(S \cup {r}) \in Nat
        /\ Cardinality(S \cup {r}) <= Cardinality(S) + 1
  <2> SUFFICES ASSUME NEW S, IsFiniteSet(S)
               PROVE  /\ IsFiniteSet(S \cup {r})
                      /\ Cardinality(S \cup {r}) \in Nat
                      /\ Cardinality(S \cup {r}) <= Cardinality(S) + 1
    BY HeldFact
  <2>1. /\ IsFiniteSet(S \cup {r})
        /\ Cardinality(S \cup {r}) = IF r \in S THEN Cardinality(S) ELSE Cardinality(S) + 1
    BY FS_AddElement
  <2>2. Cardinality(S) \in Nat
    BY FS_CardinalityType
  <2> QED
    BY <2>1, <2>2
<1>2. Held' = Cardinality(Reading') + Cardinality(Extra')
  BY DEF Held, Reading, Extra
<1>3. CASE Reading' \subseteq Reading \cup {r} /\ Extra' \subseteq Extra
  <2>1. /\ Cardinality(Reading') \in Nat /\ Cardinality(Reading') <= Cardinality(Reading \cup {r})
        /\ Cardinality(Extra') \in Nat /\ Cardinality(Extra') <= Cardinality(Extra)
    BY <1>1, <1>3, HeldFact, FS_Subset, FS_CardinalityType
  <2> QED
    BY <1>1, <1>2, <2>1, HeldFact
<1>4. CASE Reading' \subseteq Reading /\ Extra' \subseteq Extra \cup {r}
  <2>1. /\ Cardinality(Reading') \in Nat /\ Cardinality(Reading') <= Cardinality(Reading)
        /\ Cardinality(Extra') \in Nat /\ Cardinality(Extra') <= Cardinality(Extra \cup {r})
    BY <1>1, <1>4, HeldFact, FS_Subset, FS_CardinalityType
  <2> QED
    BY <1>1, <1>2, <2>1, HeldFact
<1> QED
  BY <1>3, <1>4

(* A reader asks the pool for a connection only when one is free, and only by a
   statement, a *Conn or the body of a loop. *)
LEMMA PoolStep ==
  ASSUME IInv, [Next]_vars
  PROVE  PoolInv'
<1> USE DEF IInv, Types, PoolInv
<1>1. /\ Held \in Nat /\ limit \in Nat
      /\ Held < limit => Held + 1 <= limit
  BY HeldFact
<1>2. limit' = limit /\ how' = how
  BY ZenonT(40) DEF Next, Step, call, vars, Return, ReturnError, GoTo, Reserve, Release,
     ReserveFails, BindFails, Query, QueryFails, QueryGivesUp, ReaderFails, ReaderReady,
     NextRow, SecondRow, NextEnds, NextFails, Read, ReadFails, Ask, AskGivesUp, Continue,
     Break, BodyEnds, ErrFound, NoRows, Success, Expire, AllDone
<1>3. Free > 0 => Held < limit
  BY <1>1 DEF Free
<1>4. ASSUME NEW r \in Readers, Query(r)
      PROVE  PoolInv'
  <2>1. Extra' = Extra /\ Reading' = IF how[r] = "through" THEN Reading ELSE Reading \cup {r}
    BY <1>2, <1>4 DEF Query, Reading, Extra
  <2>2. CASE how[r] = "through"
    BY <1>1, <1>2, <2>1, <2>2, HeldShrinks
  <2>3. CASE how[r] # "through"
    <3>1. Held' \in Nat /\ Held' <= Held + 1
      BY <2>1, <2>3, HeldGrows
    <3>2. Held < limit
      BY <1>3, <1>4, <2>3 DEF Query, HasConnection
    <3> QED
      BY <1>1, <1>2, <3>1, <3>2
  <2> QED
    BY <2>2, <2>3
<1>5. ASSUME NEW r \in Readers, Reserve(r) \/ Ask(r)
      PROVE  PoolInv'
  <2>1. Reading' = Reading /\ Extra' \subseteq Extra \cup {r}
    BY <1>2, <1>5 DEF Reserve, Ask, Reading, Extra
  <2>2. Held' \in Nat /\ Held' <= Held + 1
    BY <2>1, HeldGrows
  <2>3. Held < limit
    BY <1>3, <1>5 DEF Reserve, Ask
  <2> QED
    BY <1>1, <1>2, <2>2, <2>3
<1>6. ASSUME \A q \in Readers : /\ cursor'[q] = "open" => cursor[q] = "open"
                                /\ extra'[q] => extra[q]
      PROVE  PoolInv'
  <2>1. Reading' \subseteq Reading /\ Extra' \subseteq Extra
    BY <1>2, <1>6 DEF Reading, Extra
  <2> QED
    BY <1>1, <1>2, <2>1, HeldShrinks
<1>7. ASSUME NEW r \in Readers,
             \/ BindFails(r) \/ QueryFails(r) \/ QueryGivesUp(r)
             \/ ReaderFails(r) \/ SecondRow(r) \/ ReadFails(r) \/ AskGivesUp(r)
             \/ Break(r) \/ ErrFound(r) \/ NoRows(r) \/ Success(r)
      PROVE  PoolInv'
  <2>1. /\ cursor' = [cursor EXCEPT ![r] = IF @ = "none" THEN @ ELSE "closed"]
        /\ extra' = extra \/ extra' = [extra EXCEPT ![r] = @ /\ how[r] # "nested"]
    BY <1>7 DEF BindFails, QueryFails, QueryGivesUp, ReaderFails, SecondRow, ReadFails,
       AskGivesUp, Break, BodyEnds, ErrFound, NoRows, Success, ReturnError, Return, CloseRows
  <2> QED
    BY <1>6, <2>1
<1>8. ASSUME NEW r \in Readers,
             \/ ReserveFails(r) \/ Release(r) \/ ReaderReady(r) \/ NextRow(r)
             \/ NextEnds(r) \/ NextFails(r) \/ Read(r) \/ Continue(r) \/ Expire(r)
      PROVE  PoolInv'
  <2>1. /\ \/ cursor' = cursor
           \/ cursor' = [cursor EXCEPT ![r] = "eof"]
           \/ cursor' = [cursor EXCEPT ![r] = "failed"]
        /\ \/ extra' = extra
           \/ extra' = [extra EXCEPT ![r] = @ /\ how[r] # "nested"]
           \/ extra' = [extra EXCEPT ![r] = FALSE]
    BY <1>8 DEF ReserveFails, Release, ReaderReady, NextRow, NextEnds, NextFails, Read,
       Continue, BodyEnds, Expire, GoTo
  <2> QED
    BY <1>6, <2>1
<1>9. CASE UNCHANGED vars
  BY <1>6, <1>9 DEF vars
<1> QED
  BY <1>4, <1>5, <1>7, <1>8, <1>9 DEF Next, Step, AllDone

-----------------------------------------------------------------------------
(* A step of r leaves every other reader where it is. *)
Same(r) ==
  \A q \in Readers \ {r} :
    /\ pc'[q] = pc[q] /\ cursor'[q] = cursor[q] /\ pos'[q] = pos[q]
    /\ out'[q] = out[q] /\ given'[q] = given[q]
    /\ result'[q] = result[q] /\ extra'[q] = extra[q]

Kept(r) == Types' /\ UNCHANGED call /\ Same(r) /\ ReaderInv(r)'

LEMMA KeptByAll ==
  ASSUME IInv, NEW r \in Readers, Kept(r)
  PROVE  Types' /\ \A q \in Readers : ReaderInv(q)'
<1>1. ASSUME NEW q \in Readers \ {r}
      PROVE  ReaderInv(q)'
  <2>1. ReaderInv(q)
    BY DEF IInv
  <2>2. /\ pc'[q] = pc[q] /\ cursor'[q] = cursor[q] /\ pos'[q] = pos[q]
        /\ out'[q] = out[q] /\ given'[q] = given[q]
        /\ result'[q] = result[q] /\ extra'[q] = extra[q]
        /\ op' = op /\ total' = total
    BY DEF Kept, Same, call
  <2> QED
    BY <2>1, <2>2, ZenonT(40) DEF ReaderInv, Under, Ended, Vouched
<1> QED
  BY <1>1 DEF Kept

(* A call that returns with an outcome it can vouch for. *)
LEMMA ReturnKeeps ==
  ASSUME IInv, NEW r \in Readers, pc[r] \notin {"reserve", "done"},
         NEW outcome \in Results \ {"none"}, NEW values \in Seq(Nat),
         Return(r, outcome, values),
         Vouched(r, outcome, given[r] \o values),
         extra' = extra \/ extra' = [extra EXCEPT ![r] = @ /\ how[r] # "nested"]
  PROVE  Kept(r)
<1> USE DEF IInv, Types
<1>1. given[r] \o values \in Seq(Nat) /\ << >> \in Seq(Nat)
  BY ConcatProperties, EmptySeq
<1>2. /\ pc' = [pc EXCEPT ![r] = "returned"]
      /\ result' = [result EXCEPT ![r] = outcome]
      /\ given' = [given EXCEPT ![r] = given[r] \o values]
      /\ pos' = [pos EXCEPT ![r] = 0]
      /\ out' = [out EXCEPT ![r] = << >>]
      /\ cursor' = [cursor EXCEPT ![r] = IF @ = "none" THEN @ ELSE "closed"]
      /\ op' = op /\ total' = total /\ how' = how /\ limit' = limit
  BY DEF Return, CloseRows, call
<1>3. extra' \in [Readers -> BOOLEAN] /\ \A q \in Readers \ {r} : extra'[q] = extra[q]
  OBVIOUS
<1>4. Types'
  BY <1>1, <1>2, <1>3 DEF Places, Cursors
<1>5. Same(r)
  BY <1>2, <1>3 DEF Same
<1>6. /\ pc'[r] = "returned" /\ result'[r] = outcome /\ given'[r] = given[r] \o values
      /\ pos'[r] = 0 /\ cursor'[r] \in {"none", "closed"}
  BY <1>2 DEF Cursors
<1>7. Vouched(r, result[r], given[r])'
  BY <1>2, <1>6 DEF Vouched
<1>8. Ended(r)'
  BY <1>6, <1>7 DEF Ended
<1>9. ReaderInv(r)'
  BY <1>6, <1>8 DEF ReaderInv, Inside
<1> QED
  BY <1>2, <1>4, <1>5, <1>9 DEF Kept, call

(* Iter has handed over the rows up to the one the cursor is on. *)
LEMMA UnderFact ==
  ASSUME IInv, NEW r \in Readers, pc[r] \notin {"returned", "done"}
  PROVE  /\ Under(r)
         /\ pos[r] \in Nat /\ total[r] \in Nat /\ pos[r] <= total[r]
         /\ op[r] # "Iter" => given[r] = << >>
         /\ op[r] = "Iter" => \E n \in 0..total[r] : given[r] = UpTo(n)
<1>1. Under(r) /\ pos[r] \in Nat /\ total[r] \in Nat /\ pos[r] <= total[r]
  BY DEF IInv, Types, ReaderInv, Under
<1>2. ASSUME op[r] = "Iter"
      PROVE  \E n \in 0..total[r] : given[r] = UpTo(n)
  <2>1. given[r] = UpTo(IF pc[r] = "read" THEN pos[r] - 1 ELSE pos[r])
    BY <1>1, <1>2 DEF Under
  <2>2. pc[r] = "read" => pos[r] >= 1
    BY DEF IInv, ReaderInv
  <2>3. (IF pc[r] = "read" THEN pos[r] - 1 ELSE pos[r]) \in 0..total[r]
    BY <1>1, <2>2
  <2> QED
    BY <2>1, <2>3
<1> QED
  BY <1>1, <1>2 DEF Under

(* An error may end a call at any time before it returns, and so may leaving the
   loop over Iter. *)
LEMMA ErrorKeeps ==
  ASSUME IInv, NEW r \in Readers, pc[r] \notin {"reserve", "returned", "done"},
         ReturnError(r), UNCHANGED extra
  PROVE  Kept(r)
<1> DEFINE values == IF op[r] = "Iter" THEN <<Failure>> ELSE << >>
<1>1. values \in Seq(Nat)
  BY EmptySeq DEF Failure
<1>2. Vouched(r, "error", given[r] \o values)
  BY UnderFact DEF Vouched
<1>3. Return(r, "error", values) /\ "error" \in Results \ {"none"}
  BY DEF ReturnError, Results
<1> HIDE DEF values
<1> QED
  BY <1>1, <1>2, <1>3, ReturnKeeps

LEMMA LeaveKeeps ==
  ASSUME IInv, NEW r \in Readers, pc[r] \in {"body", "asked"},
         Return(r, "left", <<Stopped>>),
         extra' = extra \/ extra' = [extra EXCEPT ![r] = @ /\ how[r] # "nested"]
  PROVE  Kept(r)
<1>1. <<Stopped>> \in Seq(Nat)
  BY RowsAssumption DEF Stopped
<1>2. op[r] = "Iter"
  BY DEF IInv, ReaderInv
<1>3. Vouched(r, "left", given[r] \o <<Stopped>>)
  BY <1>2, UnderFact DEF Vouched
<1>4. "left" \in Results \ {"none"}
  BY DEF Results
<1> QED
  BY <1>1, <1>3, <1>4, ReturnKeeps

(* Before the statement and after the call: a *Conn is reserved or closed. *)
LEMMA ConnKeeps ==
  ASSUME IInv, NEW r \in Readers, Reserve(r) \/ ReserveFails(r) \/ Release(r)
  PROVE  Kept(r)
<1>0. /\ pc[r] \in {"reserve", "call"} => cursor[r] = "none"
      /\ pc[r] = "reserve" => ~extra[r]
  BY DEF IInv, ReaderInv
<1>1. CASE Reserve(r)
  <2> USE DEF IInv, Types, Places
  <2>1. ReaderInv(r)'
    BY <1>1 DEF Reserve, call, ReaderInv, Under, Inside
  <2> QED
    BY <1>1, <2>1 DEF Reserve, call, Kept, Same
<1>2. CASE ReserveFails(r)
  <2>1. Vouched(r, "no connection", given[r])
    <3>1. pc[r] \notin {"returned", "done"}
      BY <1>2 DEF ReserveFails
    <3> QED
      BY <3>1, UnderFact DEF Vouched
  <2>2. cursor[r] = "none" /\ ~extra[r]
    BY <1>0, <1>2 DEF ReserveFails
  <2> USE DEF IInv, Types, Places
  <2>3. ReaderInv(r)'
    <3>1. Ended(r)'
      BY <1>2, <2>1, <2>2 DEF ReserveFails, call, Ended, Vouched
    <3> QED
      BY <1>2, <2>2, <3>1 DEF ReserveFails, call, ReaderInv, Inside
  <2> QED
    BY <1>2, <2>3 DEF ReserveFails, call, Kept, Same, Results
<1>3. CASE Release(r)
  <2> USE DEF IInv, Types, Places
  <2>1. ReaderInv(r)'
    BY <1>3 DEF Release, call, ReaderInv, Ended, Vouched, Inside
  <2> QED
    BY <1>3, <2>1 DEF Release, call, Kept, Same
<1> QED
  BY <1>1, <1>2, <1>3

(* The steps between the statement and the end of the call that read no row. *)
LEMMA QueryKeeps ==
  ASSUME IInv, NEW r \in Readers, Query(r) \/ ReaderReady(r)
  PROVE  Kept(r)
<1> USE DEF IInv, Types, Places, Cursors
<1>1. pc[r] \in {"call", "reader"} /\ ReaderInv(r) /\ Under(r)
  BY UnderFact DEF Query, ReaderReady
<1>2. ReaderInv(r)'
  BY <1>1 DEF Query, ReaderReady, GoTo, call, ReaderInv, Under, Inside
<1> QED
  BY <1>2 DEF Query, ReaderReady, GoTo, call, Kept, Same, Inside

LEMMA NextRowKeeps ==
  ASSUME IInv, NEW r \in Readers, NextRow(r)
  PROVE  Kept(r)
<1> USE DEF IInv, Types, Places, Cursors
<1>1. ReaderInv(r) /\ Under(r) /\ pos[r] \in Nat /\ total[r] \in Nat
  BY UnderFact DEF NextRow
<1>2. /\ pc[r] = "next" /\ pc'[r] = "read" /\ pos'[r] = pos[r] + 1 /\ pos[r] < total[r]
      /\ cursor[r] = "open" /\ cursor' = cursor /\ op' = op /\ total' = total
      /\ out' = out /\ given' = given /\ result' = result /\ extra' = extra
  BY DEF NextRow, GoTo, call
<1>3. pos'[r] - 1 = pos[r] /\ pos'[r] >= 1 /\ pos'[r] <= total[r]
  BY <1>1, <1>2
<1>4. Under(r)'
  BY <1>1, <1>2, <1>3 DEF Under, ReaderInv
<1>5. ReaderInv(r)'
  BY <1>1, <1>2, <1>3, <1>4 DEF ReaderInv, Inside
<1> QED
  BY <1>5 DEF NextRow, GoTo, call, Kept, Same, Inside

LEMMA NoRowKeeps ==
  ASSUME IInv, NEW r \in Readers, NextEnds(r) \/ NextFails(r)
  PROVE  Kept(r)
<1> USE DEF IInv, Types, Places, Cursors
<1>1. pc[r] \in {"next", "second"} /\ ReaderInv(r) /\ Under(r)
  BY UnderFact DEF NextEnds, NextFails
<1>2. Under(r)'
  BY <1>1 DEF NextEnds, NextFails, GoTo, call, Under
<1>3. ReaderInv(r)'
  BY <1>1, <1>2 DEF NextEnds, NextFails, GoTo, call, ReaderInv, Inside
<1> QED
  BY <1>3 DEF NextEnds, NextFails, GoTo, call, Kept, Same, Inside

(* Reading the row the cursor is on adds it to those read. *)
LEMMA ReadKeeps ==
  ASSUME IInv, NEW r \in Readers, Read(r)
  PROVE  Kept(r)
<1> USE DEF IInv, Types
<1>1. ReaderInv(r) /\ Under(r) /\ pos[r] \in Nat /\ total[r] \in Nat /\ op[r] \in Ops
  BY UnderFact DEF Read
<1>2. /\ pc[r] = "read" /\ cursor[r] = "open" /\ pc' = [pc EXCEPT ![r] = AfterRead(r)]
      /\ out' = [out EXCEPT ![r] = Append(out[r], pos[r])]
      /\ given' = [given EXCEPT ![r] = IF op[r] = "Iter" THEN Append(given[r], pos[r]) ELSE given[r]]
      /\ op' = op /\ total' = total /\ how' = how /\ limit' = limit
      /\ cursor' = cursor /\ pos' = pos /\ result' = result /\ extra' = extra
  BY DEF Read, call
<1>3. /\ op[r] = "All" => AfterRead(r) = "next"
      /\ op[r] = "One" => AfterRead(r) = "second"
      /\ op[r] = "First" => AfterRead(r) = "err"
      /\ op[r] = "Iter" => AfterRead(r) = "body"
  BY DEF AfterRead
<1>4. AfterRead(r) \in Inside /\ AfterRead(r) \notin {"read", "reader"}
  BY <1>1, <1>3 DEF Ops, Inside
<1>5. pos[r] >= 1 /\ out[r] = UpTo(pos[r] - 1) /\ given[r] = IF op[r] = "Iter" THEN out[r] ELSE << >>
  BY <1>1, <1>2 DEF ReaderInv, Under
<1>6. Append(out[r], pos[r]) = UpTo(pos[r])
  <2>1. pos[r] - 1 \in Nat /\ pos[r] - 1 + 1 = pos[r]
    BY <1>1, <1>5
  <2> QED
    BY <1>5, <2>1, UpToNext
<1>7. Append(out[r], pos[r]) \in Seq(Nat)
  BY <1>1, <1>6, UpToFact
<1>8. /\ out' = [out EXCEPT ![r] = UpTo(pos[r])]
      /\ given' = [given EXCEPT ![r] = IF op[r] = "Iter" THEN UpTo(pos[r]) ELSE << >>]
  BY <1>2, <1>5, <1>6
<1>9. /\ out' \in [Readers -> Seq(Nat)] /\ given' \in [Readers -> Seq(Nat)]
      /\ out'[r] = UpTo(pos[r])
      /\ given'[r] = IF op[r] = "Iter" THEN UpTo(pos[r]) ELSE << >>
  BY <1>6, <1>7, <1>8, EmptySeq
<1>10. pc' \in [Readers -> Places] /\ pc'[r] = AfterRead(r)
  BY <1>2, <1>4 DEF Places
<1>11. Under(r)'
  BY <1>1, <1>2, <1>4, <1>9, <1>10 DEF Under
<1>12. op[r] \in {"One", "First"} => pos[r] = 1
  BY <1>1, <1>5 DEF Under
<1>13. ReaderInv(r)'
  BY <1>1, <1>2, <1>3, <1>4, <1>10, <1>11, <1>12 DEF ReaderInv, Inside, Ops
<1> QED
  BY <1>2, <1>8, <1>9, <1>10, <1>13 DEF Kept, Same, call

(* The body of a loop over Iter, and a context that expires at any time. *)
LEMMA BodyKeeps ==
  ASSUME IInv, NEW r \in Readers, Ask(r) \/ Continue(r)
  PROVE  Kept(r)
<1> USE DEF IInv, Types, Places
<1>1. pc[r] \in {"body", "asked"} /\ ReaderInv(r) /\ Under(r)
  BY UnderFact DEF Ask, Continue, BodyEnds
<1>2. Under(r)'
  BY <1>1 DEF Ask, Continue, BodyEnds, call, Under
<1>3. ReaderInv(r)'
  BY <1>1, <1>2 DEF Ask, Continue, BodyEnds, call, ReaderInv, Inside
<1> QED
  BY <1>3 DEF Ask, Continue, BodyEnds, call, Kept, Same, Inside

LEMMA ExpireKeeps ==
  ASSUME IInv, NEW r \in Readers, Expire(r)
  PROVE  Kept(r)
<1> USE DEF IInv, Types, Cursors
<1>1. cursor[r] = "open" /\ pc[r] \in Inside /\ ReaderInv(r)
  BY DEF Expire, ReaderInv, Ended, Places
<1>2. Under(r)'
  BY <1>1 DEF Expire, call, Under, ReaderInv, Inside
<1>3. ReaderInv(r)'
  BY <1>1, <1>2 DEF Expire, call, ReaderInv, Inside
<1> QED
  BY <1>3 DEF Expire, call, Kept, Same

(* The ends without an error. *)
LEMMA EndKeeps ==
  ASSUME IInv, NEW r \in Readers, SecondRow(r) \/ NoRows(r) \/ Success(r)
  PROVE  Kept(r)
<1>1. /\ pc[r] \in {"second", "err"} /\ ReaderInv(r) /\ Under(r)
      /\ pos[r] \in Nat /\ total[r] \in Nat /\ op[r] \in Ops
      /\ out[r] = UpTo(pos[r]) /\ out[r] \in Seq(Nat)
  BY UnderFact DEF SecondRow, NoRows, Success, Under, IInv, Types
<1>2. << >> \in Seq(Nat) /\ given[r] \o << >> = given[r] /\ << >> \o out[r] = out[r]
  BY <1>1, EmptySeq, ConcatEmptySeq DEF IInv, Types
<1>3. pos[r] # 0 => out[r] # << >>
  BY <1>1, UpToFirst
<1>4. CASE SecondRow(r)
  <2>1. op[r] = "One" /\ pos[r] = 1 /\ pos[r] < total[r]
    BY <1>1, <1>4 DEF SecondRow, ReaderInv
  <2>2. Vouched(r, "too many", given[r] \o << >>)
    BY <1>1, <2>1 DEF Vouched
  <2> QED
    BY <1>2, <1>4, <2>2, ReturnKeeps DEF SecondRow, Results
<1>5. pc[r] = "err" => \/ cursor[r] = "eof" /\ pos[r] = total[r]
                       \/ cursor[r] = "failed"
                       \/ op[r] = "First" /\ pos[r] = 1
  BY <1>1 DEF ReaderInv, Inside
<1>6. CASE NoRows(r)
  <2>1. total[r] = 0 /\ op[r] \in {"One", "First"}
    <3>1. /\ pos[r] = 0 /\ cursor[r] # "failed" /\ pc[r] = "err"
          /\ op[r] \in {"One", "First"}
      BY <1>3, <1>6 DEF NoRows, Failed
    <3>2. pos[r] = total[r]
      BY <1>5, <3>1
    <3> QED
      BY <3>1, <3>2
  <2>2. Vouched(r, "no rows", given[r] \o << >>)
    BY <2>1 DEF Vouched
  <2> QED
    BY <1>2, <1>6, <2>2, ReturnKeeps DEF NoRows, Results
<1>7. CASE Success(r)
  <2> DEFINE values == IF op[r] = "Iter" THEN << >> ELSE out[r]
  <2>1. given[r] \o values = out[r] /\ values \in Seq(Nat)
    BY <1>1, <1>2 DEF Under
  <2>2. pos[r] = total[r] \/ (op[r] = "First" /\ pos[r] = 1)
    BY <1>5, <1>7 DEF Success, Failed
  <2>3. op[r] \in {"One", "First"} => pos[r] = 1 /\ out[r] = <<1>>
    <3>1. UpTo(0) = << >> /\ UpTo(1) = <<1>>
      BY UpToFirst
    <3>2. op[r] \in {"One", "First"} => pos[r] # 0 /\ pos[r] <= 1
      BY <1>1, <1>7, <3>1 DEF Success, Under
    <3> QED
      BY <1>1, <3>1, <3>2
  <2>4. Vouched(r, "ok", out[r])
    <3>1. CASE op[r] \in {"All", "Iter"}
      <4>1. pos[r] = total[r] /\ total[r] \in 0..total[r]
        BY <1>1, <2>2, <3>1
      <4> QED
        BY <1>1, <3>1, <4>1 DEF Vouched
    <3>2. CASE op[r] = "One"
      BY <1>1, <2>2, <2>3, <3>2 DEF Vouched
    <3>3. CASE op[r] = "First"
      BY <1>1, <2>2, <2>3, <3>3 DEF Vouched, Under
    <3> QED
      BY <1>1, <3>1, <3>2, <3>3 DEF Ops
  <2>5. Return(r, "ok", values) /\ extra' = extra /\ pc[r] = "err"
    BY <1>7 DEF Success
  <2> HIDE DEF values
  <2> QED
    BY <2>1, <2>4, <2>5, ReturnKeeps DEF Results
<1> QED
  BY <1>4, <1>6, <1>7

-----------------------------------------------------------------------------
LEMMA InitInv ==
  ASSUME Init
  PROVE  IInv
<1> USE DEF Init
<1>1. << >> \in Seq(Nat) /\ UpTo(0) = << >>
  BY EmptySeq, UpToFirst
<1>2. Types
  BY <1>1, ConnsAssumption, RowsAssumption DEF Types, Places, Cursors, Results
<1>3. PoolInv
  <2>1. Reading = {} /\ Extra = {}
    BY DEF Reading, Extra
  <2>2. Held = 0
    BY <2>1, HeldFact, FS_EmptySet
  <2> QED
    BY <1>2, <2>2 DEF PoolInv, Types
<1>4. \A r \in Readers : ReaderInv(r)
  BY <1>1, RowsAssumption DEF ReaderInv, Under, Inside
<1> QED
  BY <1>2, <1>3, <1>4 DEF IInv

LEMMA StepInv ==
  ASSUME IInv, [Next]_vars
  PROVE  IInv'
<1>1. CASE UNCHANGED vars
  <2>1. Types'
    BY <1>1 DEF vars, call, IInv, Types
  <2>2. ASSUME NEW r \in Readers
        PROVE  ReaderInv(r)'
    <3>1. ReaderInv(r)
      BY DEF IInv
    <3> QED
      BY <1>1, <3>1, ZenonT(40) DEF vars, call, ReaderInv, Under, Ended, Vouched
  <2> QED
    BY <2>1, <2>2, PoolStep DEF IInv
<1>2. ASSUME NEW r \in Readers,
             \/ BindFails(r) \/ QueryFails(r) \/ QueryGivesUp(r)
             \/ ReaderFails(r) \/ ReadFails(r) \/ ErrFound(r)
      PROVE  Kept(r)
  BY <1>2, ErrorKeeps DEF BindFails, QueryFails, QueryGivesUp, ReaderFails, ReadFails, ErrFound
<1>3. ASSUME NEW r \in Readers, AskGivesUp(r) \/ Break(r)
      PROVE  Kept(r)
  BY <1>3, LeaveKeeps DEF AskGivesUp, Break, BodyEnds
<1>4. ASSUME NEW r \in Readers,
             Step(r) \/ ReserveFails(r) \/ BindFails(r) \/ QueryGivesUp(r)
             \/ AskGivesUp(r) \/ Expire(r)
      PROVE  Kept(r)
  BY <1>2, <1>3, <1>4, ConnKeeps, QueryKeeps, NextRowKeeps, NoRowKeeps, ReadKeeps,
     BodyKeeps, ExpireKeeps, EndKeeps DEF Step
<1>5. CASE Next
  <2>1. CASE AllDone
    BY <1>1, <2>1 DEF AllDone
  <2>2. CASE ~AllDone
    <3>1. PICK r \in Readers : Kept(r)
      BY <1>4, <1>5, <2>2 DEF Next
    <3> QED
      BY <1>5, <3>1, KeptByAll, PoolStep DEF IInv
  <2> QED
    BY <2>1, <2>2
<1> QED
  BY <1>1, <1>5

LEMMA AlwaysIInv == Spec => []IInv
  BY InitInv, StepInv, PTL DEF Spec

-----------------------------------------------------------------------------
(* Whatever fails or expires on the way, a call of scan.go that ends without an
   error has handed over all its statement had to give. *)
THEOREM OnlyWholeResults == Spec => []WholeResult
<1>1. IInv => WholeResult
  BY DEF IInv, Types, Places, Inside, ReaderInv, Under, Ended, Vouched, WholeResult
<1> QED
  BY <1>1, AlwaysIInv, PTL

(* Iter yields the rows in order, each once, then at most one error, and nothing
   after it or once the loop was left. *)
THEOREM OneErrorAndLast == Spec => []ErrorEndsIteration
<1>1. ASSUME IInv
      PROVE  ErrorEndsIteration
  <2> SUFFICES ASSUME NEW r \in Readers, op[r] = "Iter"
               PROVE  \E n \in 0..total[r] :
                        given[r] = CASE result[r] = "error" -> UpTo(n) \o <<Failure>>
                                     [] result[r] = "left" -> UpTo(n) \o <<Stopped>>
                                     [] OTHER -> UpTo(n)
    BY DEF ErrorEndsIteration
  <2>1. CASE pc[r] \notin {"returned", "done"}
    BY <1>1, <2>1, UnderFact DEF Under
  <2>2. CASE pc[r] \in {"returned", "done"}
    BY <1>1, <2>2 DEF IInv, ReaderInv, Ended, Vouched
  <2> QED
    BY <2>1, <2>2
<1> QED
  BY <1>1, AlwaysIInv, PTL

(* Every way out of a call gives its connection back, and the pool is never
   overdrawn. *)
THEOREM NoConnectionKept == Spec => []NothingHeld
<1>1. IInv => NothingHeld
  BY DEF IInv, PoolInv, Types, Places, Inside, ReaderInv, Ended, NothingHeld
<1> QED
  BY <1>1, AlwaysIInv, PTL
=============================================================================
