---------------------------- MODULE QbQueryProofs ---------------------------
(***************************************************************************)
(* Branches of a query stay apart, proved for any program: any number of   *)
(* queries, calls of any fields with any items, and whatever room append   *)
(* leaves in the arrays it allocates.                                      *)
(*                                                                         *)
(* Slices stay within what was written to their arrays (SliceInv), and an  *)
(* array that was allocated is never written again, so what a slice holds  *)
(* does not change (OldSlicesSame).                                        *)
(***************************************************************************)
EXTENDS QbQuery, SequenceTheorems, TLAPS

Item == UNION {UNION {Range(c.items) : c \in p.calls} : p \in Programs}
Slice == [arr : Nat, len : Nat]

Types ==
  /\ program \in Programs
  /\ heap \in Seq([cells : Seq(Item), cap : Nat])
  /\ queries \in Seq([Fields -> Slice])
  /\ said \in Seq([Fields -> Seq(Item)])
  /\ Len(said) = Len(queries)

Holds(s) == s.len = 0 \/ (s.arr \in 1..Len(heap) /\ s.len <= Len(heap[s.arr].cells))

SliceInv == \A q \in 1..Len(queries) : \A f \in Fields : Holds(queries[q][f])

IInv == Types /\ SliceInv /\ BranchesApart

-----------------------------------------------------------------------------
LEMMA CallType ==
  ASSUME program \in Programs, NEW c \in program.calls
  PROVE  c.field \in Fields /\ c.replaces \in BOOLEAN /\ c.items \in Seq(Item)
<1>1. c.field \in Fields /\ c.replaces \in BOOLEAN /\ c.items \in Seq(Range(c.items))
  BY ProgramsAssumption
<1>2. Range(c.items) \subseteq Item
  BY DEF Item
<1>3. Seq(Range(c.items)) \subseteq Seq(Item)
  BY <1>2
<1> QED
  BY <1>1, <1>3

(* A slice that took no part in an allocation holds what it held. *)
LEMMA OldSlicesSame ==
  ASSUME Types, NEW items \in Seq(Item), Allocate(items)
  PROVE  /\ heap' \in Seq([cells : Seq(Item), cap : Nat])
         /\ \A s \in Slice : Holds(s) => Holds(s)' /\ Items(s)' = Items(s)
<1>1. Len(heap) \in Nat
  BY LenProperties DEF Types
<1>2. CASE items = << >>
  BY <1>2 DEF Allocate, Types, Holds, Items
<1>3. CASE items # << >>
  <2>1. PICK spare \in 0..MaxSpare :
          heap' = Append(heap, [cells |-> items, cap |-> Len(items) + spare])
    BY <1>3 DEF Allocate
  <2>2. [cells |-> items, cap |-> Len(items) + spare] \in [cells : Seq(Item), cap : Nat]
    BY SpareAssumption, LenProperties
  <2>3. /\ heap' \in Seq([cells : Seq(Item), cap : Nat])
        /\ Len(heap') = Len(heap) + 1
        /\ \A a \in 1..Len(heap) : heap'[a] = heap[a]
    BY <2>1, <2>2, AppendProperties DEF Types
  <2>4. ASSUME NEW s \in Slice, Holds(s)
        PROVE  Holds(s)' /\ Items(s)' = Items(s)
    <3>1. CASE s.len = 0
      BY <3>1 DEF Holds, Items
    <3>2. CASE s.len # 0
      <4>1. s.arr \in 1..Len(heap) /\ s.len <= Len(heap[s.arr].cells)
        BY <2>4, <3>2 DEF Holds
      <4>2. s.arr \in 1..Len(heap') /\ heap'[s.arr] = heap[s.arr]
        BY <1>1, <2>3, <4>1
      <4> QED
        BY <4>1, <4>2 DEF Holds, Items
    <3> QED
      BY <3>1, <3>2
  <2> QED
    BY <2>3, <2>4
<1> QED
  BY <1>2, <1>3

(* The slice of a new array holds the items it was made from. *)
LEMMA NewSliceHolds ==
  ASSUME Types, NEW items \in Seq(Item), Allocate(items),
         NEW s, s = NewSlice(items)
  PROVE  s \in Slice /\ Holds(s)' /\ Items(s)' = items
<1>1. Len(heap) \in Nat /\ Len(items) \in Nat
  BY LenProperties DEF Types
<1>2. CASE items = << >>
  <2>1. s = NilSlice
    BY <1>2 DEF NewSlice
  <2>2. s.len = 0 /\ s \in Slice
    BY <2>1 DEF NilSlice, Slice
  <2> QED
    BY <1>2, <2>2 DEF Holds, Items
<1>3. CASE items # << >>
  <2>1. PICK spare \in 0..MaxSpare :
          heap' = Append(heap, [cells |-> items, cap |-> Len(items) + spare])
    BY <1>3 DEF Allocate
  <2>2. [cells |-> items, cap |-> Len(items) + spare] \in [cells : Seq(Item), cap : Nat]
    BY SpareAssumption, LenProperties
  <2>3. /\ Len(heap') = Len(heap) + 1
        /\ heap'[Len(heap) + 1].cells = items
    BY <2>1, <2>2, AppendProperties DEF Types
  <2>4. s = [arr |-> Len(heap) + 1, len |-> Len(items)]
    BY <1>3 DEF NewSlice
  <2>5. s \in Slice /\ s.arr = Len(heap) + 1 /\ s.len = Len(items) /\ s.len # 0
    BY <1>1, <1>3, <2>4, EmptySeq DEF Slice
  <2>6. SubSeq(items, 1, Len(items)) = items
    OBVIOUS
  <2> QED
    BY <1>1, <2>3, <2>5, <2>6 DEF Holds, Items
<1> QED
  BY <1>2, <1>3

(* A method returns a query that holds what was asked for, and leaves every other
   query what it was. *)
LEMMA ReturnsKeeps ==
  ASSUME IInv, NEW q \in DOMAIN queries, NEW c \in program.calls,
         NEW items \in Seq(Item),
         items = IF c.replaces THEN c.items ELSE said[q][c.field] \o c.items,
         Allocate(items), Returns(q, c, NewSlice(items))
  PROVE  IInv'
<1> USE DEF IInv
<1> DEFINE n == Len(queries)
<1>1. /\ n \in Nat /\ Len(said) = n /\ DOMAIN queries = 1..n /\ q \in 1..n
      /\ c.field \in Fields /\ c.replaces \in BOOLEAN /\ c.items \in Seq(Item)
  BY CallType, LenProperties DEF Types
<1>2. PICK s : s = NewSlice(items)
  OBVIOUS
<1>3. s \in Slice /\ Holds(s)' /\ Items(s)' = items
  BY <1>2, NewSliceHolds
<1> DEFINE query == [queries[q] EXCEPT ![c.field] = s]
           asked == [said[q] EXCEPT ![c.field] =
                       IF c.replaces THEN c.items ELSE @ \o c.items]
<1>4. /\ queries' = Append(queries, query) /\ said' = Append(said, asked)
      /\ program' = program
  BY <1>2 DEF Returns
<1>5. queries[q] \in [Fields -> Slice] /\ said[q] \in [Fields -> Seq(Item)]
  BY <1>1, ElementOfSeq DEF Types
<1>6. /\ query \in [Fields -> Slice] /\ query[c.field] = s
      /\ \A f \in Fields : f # c.field => query[f] = queries[q][f]
  BY <1>1, <1>3, <1>5
<1>7. /\ asked \in [Fields -> Seq(Item)] /\ asked[c.field] = items
      /\ \A f \in Fields : f # c.field => asked[f] = said[q][f]
  <2>1. said[q][c.field] \o c.items \in Seq(Item)
    BY <1>1, <1>5, ConcatProperties
  <2> QED
    BY <1>1, <1>5, <2>1
<1> HIDE DEF query, asked
<1>8. /\ queries' \in Seq([Fields -> Slice]) /\ Len(queries') = n + 1
      /\ queries'[n + 1] = query /\ \A k \in 1..n : queries'[k] = queries[k]
      /\ DOMAIN queries' = 1..(n + 1)
  BY <1>1, <1>4, <1>6, AppendProperties, LenProperties DEF Types
<1>9. /\ said' \in Seq([Fields -> Seq(Item)]) /\ Len(said') = n + 1
      /\ said'[n + 1] = asked /\ \A k \in 1..n : said'[k] = said[k]
  BY <1>1, <1>4, <1>7, AppendProperties DEF Types
<1>10. /\ heap' \in Seq([cells : Seq(Item), cap : Nat])
       /\ \A t \in Slice : Holds(t) => Holds(t)' /\ Items(t)' = Items(t)
  BY OldSlicesSame
<1> HIDE DEF n
<1>11. Types'
  BY <1>4, <1>8, <1>9, <1>10 DEF Types
<1>12. \A k \in 1..n : \A f \in Fields :
         /\ queries[k][f] \in Slice /\ Holds(queries[k][f])
         /\ Items(queries[k][f]) = said[k][f]
  <2>1. \A k \in 1..n : queries[k] \in [Fields -> Slice]
    BY ElementOfSeq DEF Types, n
  <2> QED
    BY <1>1, <2>1 DEF SliceInv, BranchesApart, n
<1>13. ASSUME NEW k \in 1..(n + 1), NEW f \in Fields
       PROVE  \E t \in Slice : t = queries'[k][f] /\ Holds(t)' /\ Items(t)' = said'[k][f]
  <2>1. CASE k \in 1..n
    <3>1. PICK t \in Slice : t = queries[k][f]
      BY <1>12, <2>1
    <3>2. Holds(t)' /\ Items(t)' = said[k][f]
      BY <1>10, <1>12, <2>1, <3>1
    <3>3. queries'[k][f] = t /\ said'[k][f] = said[k][f]
      BY <1>8, <1>9, <2>1, <3>1
    <3> QED
      BY <3>2, <3>3
  <2>2. CASE k = n + 1 /\ f = c.field
    <3>1. s = queries'[k][f] /\ said'[k][f] = items
      BY <1>6, <1>7, <1>8, <1>9, <2>2
    <3> QED
      BY <1>3, <3>1
  <2>3. CASE k = n + 1 /\ f # c.field
    <3>1. PICK t \in Slice : t = queries[q][f]
      BY <1>1, <1>12
    <3>2. Holds(t)' /\ Items(t)' = said[q][f]
      BY <1>1, <1>10, <1>12, <3>1
    <3>3. queries'[k][f] = t /\ said'[k][f] = said[q][f]
      BY <1>6, <1>7, <1>8, <1>9, <2>3, <3>1
    <3> QED
      BY <3>2, <3>3
  <2>4. k \in 1..n \/ k = n + 1
    BY <1>1, <1>13
  <2> QED
    BY <2>1, <2>2, <2>3, <2>4
<1>14. SliceInv' /\ BranchesApart'
  BY <1>8, <1>13 DEF SliceInv, BranchesApart, Holds, Items
<1> QED
  BY <1>11, <1>14

-----------------------------------------------------------------------------
LEMMA InitHolds == QueryInit => IInv
<1> SUFFICES ASSUME QueryInit
             PROVE  IInv
  OBVIOUS
<1> DEFINE query == [f \in Fields |-> NilSlice]
           asked == [f \in Fields |-> << >>]
<1>1. /\ program \in Programs /\ heap = << >> /\ queries = <<query>> /\ said = <<asked>>
  BY DEF QueryInit
<1>2. query \in [Fields -> Slice] /\ asked \in [Fields -> Seq(Item)]
  BY DEF NilSlice, Slice
<1>3. /\ \A f \in Fields : query[f] = NilSlice /\ asked[f] = << >>
      /\ NilSlice.len = 0
  BY DEF NilSlice
<1> HIDE DEF query, asked
<1>4. /\ Len(queries) = 1 /\ queries[1] = query /\ DOMAIN queries = {1}
      /\ Len(said) = 1 /\ said[1] = asked
      /\ queries \in Seq([Fields -> Slice]) /\ said \in Seq([Fields -> Seq(Item)])
      /\ heap \in Seq([cells : Seq(Item), cap : Nat])
  BY <1>1, <1>2
<1>5. Types
  BY <1>1, <1>4 DEF Types
<1>6. SliceInv
  BY <1>3, <1>4 DEF SliceInv, Holds
<1>7. BranchesApart
  BY <1>3, <1>4 DEF BranchesApart, Items
<1> QED
  BY <1>5, <1>6, <1>7 DEF IInv

LEMMA StepKeeps == IInv /\ [Method]_queryVars => IInv'
<1> SUFFICES ASSUME IInv, [Method]_queryVars
             PROVE  IInv'
  OBVIOUS
<1>1. CASE UNCHANGED queryVars
  BY <1>1 DEF queryVars, IInv, Types, SliceInv, BranchesApart, Holds, Items
<1>2. CASE Method
  <2>1. PICK q \in DOMAIN queries, c \in program.calls : Extend(q, c) \/ Replace(q, c)
    BY <1>2 DEF Method
  <2>2. /\ c.field \in Fields /\ c.items \in Seq(Item)
        /\ Items(queries[q][c.field]) = said[q][c.field]
        /\ said[q] \in [Fields -> Seq(Item)]
    <3>1. c.field \in Fields /\ c.items \in Seq(Item)
      BY CallType DEF IInv, Types
    <3>2. q \in 1..Len(said)
      BY LenProperties DEF IInv, Types
    <3> QED
      BY <3>1, <3>2, ElementOfSeq DEF IInv, Types, BranchesApart
  <2>3. CASE Extend(q, c)
    <3> DEFINE items == said[q][c.field] \o c.items
    <3>1. items \in Seq(Item)
      BY <2>2, ConcatProperties
    <3>2. ~c.replaces /\ Allocate(items) /\ Returns(q, c, NewSlice(items))
      BY <2>2, <2>3 DEF Extend
    <3> HIDE DEF items
    <3>3. items = IF c.replaces THEN c.items ELSE said[q][c.field] \o c.items
      BY <3>2 DEF items
    <3> QED
      BY <3>1, <3>2, <3>3, ReturnsKeeps
  <2>4. CASE Replace(q, c)
    <3>1. c.replaces /\ Allocate(c.items) /\ Returns(q, c, NewSlice(c.items))
      BY <2>4 DEF Replace
    <3> QED
      BY <2>2, <3>1, ReturnsKeeps
  <2> QED
    BY <2>1, <2>3, <2>4
<1> QED
  BY <1>1, <1>2

(* BranchesApart: the methods of the builders in qb/query.go never change a query that
   another was made from, whatever the capacities of the arrays they share. *)
THEOREM TemplatesStaySafe == QuerySpec => []BranchesApart
<1>1. QueryInit => IInv
  BY InitHolds
<1>2. IInv /\ [Method]_queryVars => IInv'
  BY StepKeeps
<1>3. IInv => BranchesApart
  BY DEF IInv
<1> QED
  BY <1>1, <1>2, <1>3, PTL DEF QuerySpec
=============================================================================
