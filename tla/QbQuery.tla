------------------------------ MODULE QbQuery ------------------------------
(***************************************************************************)
(* The queries of qb/query.go as Go values: structs copied at every call,  *)
(* whose slices point to backing arrays that any number of them may share. *)
(* A program keeps every query it made and may call a method of any of     *)
(* them at any time.                                                       *)
(***************************************************************************)
EXTENDS Integers, Sequences, Functions

CONSTANTS
  Programs,  (* the programs, each a kind of query and the calls it makes *)
  MaxSpare   (* bound: the room append leaves in an array it allocates *)

ASSUME SpareAssumption == MaxSpare \in Nat

VARIABLES
  program,  (* the program that runs *)
  heap,     (* the backing arrays: what was written to each, and its capacity *)
  queries,  (* the queries made so far, each a slice for each field *)
  said      (* history: what the calls that led to each query asked for *)

queryVars == <<program, heap, queries, said>>

(* The fields of each kind of query that are slices. *)
SelectFields == {"columns", "joins", "where", "groupBy", "having", "orderBy"}
InsertFields == {"columns", "rows", "returning"}
UpdateFields == {"sets", "where", "returning"}
DeleteFields == {"where", "returning"}
Fields == SelectFields \cup InsertFields \cup UpdateFields \cup DeleteFields

(* A call adds items to a field or replaces what is there.  max bounds the
   queries a program makes. *)
ASSUME ProgramsAssumption ==
  \A p \in Programs :
    /\ p.max \in Nat
    /\ \A c \in p.calls :
         /\ c.field \in Fields /\ c.replaces \in BOOLEAN
         /\ c.items \in Seq(Range(c.items))

NilSlice == [arr |-> 0, len |-> 0]
Items(s) == IF s.len = 0 THEN << >> ELSE SubSeq(heap[s.arr].cells, 1, s.len)

(* Select, InsertInto, Update or DeleteFrom: nothing said yet. *)
QueryInit ==
  /\ program \in Programs
  /\ heap = << >>
  /\ queries = << [f \in Fields |-> NilSlice] >>
  /\ said = << [f \in Fields |-> << >>] >>

(* A new array with these items, which append may make larger than asked. *)
Allocate(items) ==
  IF items = << >> THEN UNCHANGED heap
  ELSE \E spare \in 0..MaxSpare :
         heap' = Append(heap, [cells |-> items, cap |-> Len(items) + spare])

NewSlice(items) ==
  IF items = << >> THEN NilSlice ELSE [arr |-> Len(heap) + 1, len |-> Len(items)]

(* The method returns a copy of the query that differs in one slice. *)
Returns(q, c, slice) ==
  /\ queries' = Append(queries, [queries[q] EXCEPT ![c.field] = slice])
  /\ said' = Append(said, [said[q] EXCEPT ![c.field] =
                             IF c.replaces THEN c.items ELSE @ \o c.items])
  /\ UNCHANGED program

(* Mutant of Extend: append(q.where, exprs...), without the copy before it. *)
ExtendInPlace(q, c) ==
  LET s == queries[q][c.field]  n == s.len + Len(c.items) IN
  /\ ~c.replaces
  /\ IF s.arr # 0 /\ n <= heap[s.arr].cap
     THEN /\ heap' = [heap EXCEPT ![s.arr].cells =
                        SubSeq(@, 1, s.len) \o c.items \o SubSeq(@, n + 1, Len(@))]
          /\ Returns(q, c, [arr |-> s.arr, len |-> n])
     ELSE /\ Allocate(Items(s) \o c.items)
          /\ Returns(q, c, NewSlice(Items(s) \o c.items))

(* Where, Having, Join, GroupBy, OrderBy, Values, Set, SetMap, SetExpr, Returning:
   append(append([]T(nil), q.where...), exprs...) *)
Extend(q, c) ==
  LET items == Items(queries[q][c.field]) \o c.items IN
  /\ ~c.replaces
  /\ Allocate(items)
  /\ Returns(q, c, NewSlice(items))

(* Select and Columns copy what they are given; ClearOrder gives nothing. *)
Replace(q, c) ==
  /\ c.replaces
  /\ Allocate(c.items)
  /\ Returns(q, c, NewSlice(c.items))

Method ==
  /\ Len(queries) < program.max
  /\ \E q \in DOMAIN queries, c \in program.calls : Extend(q, c) \/ Replace(q, c)

QuerySpec == QueryInit /\ [][Method]_queryVars

(* "A partially-built query is safe to keep as a template and branch from"
   (query.go): whatever is made from a query, in whatever order, it holds what
   the calls that led to it asked for. *)
BranchesApart ==
  \A q \in DOMAIN queries : \A f \in Fields : Items(queries[q][f]) = said[q][f]
=============================================================================
