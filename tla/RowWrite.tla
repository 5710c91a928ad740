------------------------------ MODULE RowWrite ------------------------------
(***************************************************************************)
(* Writing structs: InsertMany of write.go, statement by statement, on a   *)
(* *DB or as the callback of an InTx.  Insert, Update and Delete are the   *)
(* case of one value: they make the same checks, send one statement and    *)
(* read its RETURNING rows back through the same scanBack.                 *)
(*                                                                         *)
(* Values are numbered from 0 as in the slice; a statement is known by the *)
(* number of its first value.  On a *DB every statement commits by itself, *)
(* in an InTx all of them do what NestedTx promises.                       *)
(***************************************************************************)
EXTENDS Integers, SequencesExt, FiniteSetsExt

CONSTANT Inputs   (* the calls to make, each a record of the fields below *)

(* n: how many values; nils: which of them are nil pointers; cols: columns to
   write, or none; limit: MaxPlaceholders, 0 for none; returning: columns are
   asked back; supported: the dialect has RETURNING; inTx: the call is the
   callback of an InTx. *)
ASSUME InputsAssumption ==
  \A i \in Inputs :
    /\ i.n \in Nat /\ i.nils \subseteq 0..(i.n - 1)
    /\ i.cols \in Nat /\ i.limit \in Nat
    /\ i.returning \in BOOLEAN /\ i.supported \in BOOLEAN /\ i.inTx \in BOOLEAN

VARIABLES
  req,      (* the call made *)
  pc,       (* "begin", "check", "build", "send", "rows", "closing" or "done" *)
  start,    (* the first value of the batch at work *)
  stmts,    (* history: the statements sent, each the values it holds *)
  coming,   (* the RETURNING rows still to come, each by the value it is of *)
  back,     (* how many were scanned: n of scanBack *)
  filled,   (* which row each value was filled from, NoRow if none *)
  ret,      (* what InsertMany returned *)
  result,   (* what the caller got, from InTx where there is one *)
  status, work, db   (* the transaction, see NestedTx; db also without one *)

callVars == <<req, pc, start, stmts>>
rowVars == <<coming, back, filled>>
txVars == <<status, work, db>>
vars == <<callVars, rowVars, ret, result, txVars>>

T == INSTANCE NestedTx WITH Writes <- Nat

NoRow == -1
Values == 0..(req.n - 1)

(* Mutant of Batch: one row too many where the division is not exact. *)
BatchRoundedUp ==
  LET most == (req.limit + req.cols - 1) \div req.cols IN
  IF req.limit > 0 /\ req.cols > 0 /\ most < req.n THEN most ELSE req.n

(* Rows for each statement, bounded by the engine's limit of placeholders. *)
Batch ==
  LET most == req.limit \div req.cols IN
  IF req.limit > 0 /\ req.cols > 0 /\ most < req.n THEN most ELSE req.n

End == Min({start + Batch, req.n})

Init ==
  /\ req \in Inputs
  /\ pc = IF req.inTx THEN "begin" ELSE "check"
  /\ start = 0
  /\ stmts = << >>
  /\ coming = << >>
  /\ back = 0
  /\ filled = [i \in Values |-> NoRow]
  /\ ret = "none"
  /\ result = "none"
  /\ T!Init

-----------------------------------------------------------------------------
(* What a statement does to the database, and how the call returns.        *)

(* The statement of this batch took effect. *)
Lands ==
  IF req.inTx THEN T!Do(start)
  ELSE db' = db \cup {start} /\ UNCHANGED <<status, work>>

LandsOrNot == Lands \/ UNCHANGED txVars

Return(how) ==
  /\ ret' = how
  /\ IF req.inTx
     THEN pc' = "closing" /\ UNCHANGED result
     ELSE pc' = "done" /\ result' = how

(* The end of the loop body: the next batch, or nil after the last. *)
NextBatch ==
  /\ start' = start + Batch
  /\ IF start' < req.n
     THEN pc' = "build" /\ UNCHANGED <<ret, result>>
     ELSE Return("nil")
  /\ UNCHANGED <<req, stmts>>

Fail ==
  /\ Return("error")
  /\ UNCHANGED <<req, start, stmts>>

-----------------------------------------------------------------------------
(* InTx around the call.                                                   *)

Begin ==
  /\ pc = "begin"
  /\ T!Start
  /\ pc' = "check"
  /\ UNCHANGED <<req, start, stmts, rowVars, ret, result>>

BeginFails ==
  /\ pc = "begin"
  /\ T!Refuse
  /\ result' = "error"
  /\ pc' = "done"
  /\ UNCHANGED <<req, start, stmts, rowVars, ret>>

Close(how) ==
  /\ pc = "closing"
  /\ result' = how
  /\ pc' = "done"
  /\ UNCHANGED <<req, start, stmts, rowVars, ret>>

CommitAccepted == ret = "nil" /\ T!Commit /\ Close("nil")
CommitReplyLost == ret = "nil" /\ T!Commit /\ Close("error")
CommitRefused == ret = "nil" /\ T!Abort /\ Close("error")
RollBack == ret = "error" /\ T!Abort /\ Close("error")

-----------------------------------------------------------------------------
(* InsertMany.                                                             *)

NothingToWrite ==
  /\ pc = "check"
  /\ req.n = 0
  /\ Return("nil")
  /\ UNCHANGED <<req, start, stmts, rowVars, txVars>>

(* The first value is nil, no column may be written (or, for Update and Delete,
   there is no primary key), or not even one row fits a statement. *)
Refused == 0 \in req.nils \/ req.cols = 0 \/ Batch < 1

CheckFails ==
  /\ pc = "check"
  /\ req.n > 0
  /\ Refused
  /\ Fail
  /\ UNCHANGED <<rowVars, txVars>>

CheckPasses ==
  /\ pc = "check"
  /\ req.n > 0
  /\ ~Refused
  /\ pc' = "build"
  /\ UNCHANGED <<req, start, stmts, rowVars, ret, result, txVars>>

(* A nil among the values of the batch, or RETURNING where there is none; the
   batches before it have been sent. *)
CannotBuild == req.nils \cap start..(End - 1) # {} \/ (req.returning /\ ~req.supported)

BuildFails ==
  /\ pc = "build"
  /\ CannotBuild
  /\ Fail
  /\ UNCHANGED <<rowVars, txVars>>

Build ==
  /\ pc = "build"
  /\ ~CannotBuild
  /\ stmts' = Append(stmts, start..(End - 1))
  /\ pc' = "send"
  /\ UNCHANGED <<req, start, rowVars, ret, result, txVars>>

Exec ==
  /\ pc = "send"
  /\ ~req.returning
  /\ Lands
  /\ NextBatch
  /\ UNCHANGED rowVars

(* Mutant of ExecFails: the error of one batch does not stop the next. *)
ExecFailsOn ==
  /\ pc = "send"
  /\ ~req.returning
  /\ LandsOrNot
  /\ NextBatch
  /\ UNCHANGED rowVars

(* The statement fails, or its reply is lost. *)
ExecFails ==
  /\ pc = "send"
  /\ ~req.returning
  /\ LandsOrNot
  /\ Fail
  /\ UNCHANGED rowVars

-----------------------------------------------------------------------------
(* scanBack.                                                               *)

(* The rows an engine gives back: those of the statement in order, but perhaps
   a trigger keeps one from being written, or a rule adds one. *)
Answers ==
  LET own == [i \in 1..(End - start) |-> start + i - 1]
  IN  {own, Append(own, req.n)} \cup {RemoveAt(own, i) : i \in DOMAIN own}

Query ==
  /\ pc = "send"
  /\ req.returning
  /\ coming' \in Answers
  /\ back' = 0
  /\ pc' = "rows"
  /\ UNCHANGED <<req, start, stmts, filled, ret, result, txVars>>

QueryFails ==
  /\ pc = "send"
  /\ req.returning
  /\ LandsOrNot
  /\ Fail
  /\ UNCHANGED rowVars

(* A row into the next value that has had none. *)
ScanRow ==
  /\ pc = "rows"
  /\ coming # << >>
  /\ back < End - start
  /\ filled' = [filled EXCEPT ![start + back] = Head(coming)]
  /\ coming' = Tail(coming)
  /\ back' = back + 1
  /\ UNCHANGED <<callVars, ret, result, txVars>>

(* A row too many, a value that cannot be scanned or has no field, or an error
   that ends the rows; whether the statement took effect is the engine's. *)
ScanFails ==
  /\ pc = "rows"
  /\ LandsOrNot
  /\ Fail
  /\ UNCHANGED rowVars

(* Mutant of Short: fewer rows than values are as good as all. *)
NeverShort == FALSE

Short == back < End - start

RowsEnd ==
  /\ pc = "rows"
  /\ coming = << >>
  /\ Lands
  /\ IF Short THEN Fail ELSE NextBatch
  /\ UNCHANGED rowVars

Finished == pc = "done" /\ UNCHANGED vars

Next ==
  \/ Begin \/ BeginFails
  \/ NothingToWrite \/ CheckFails \/ CheckPasses
  \/ BuildFails \/ Build
  \/ Exec \/ ExecFails
  \/ Query \/ QueryFails \/ ScanRow \/ ScanFails \/ RowsEnd
  \/ CommitAccepted \/ CommitReplyLost \/ CommitRefused \/ RollBack
  \/ Finished

Spec == Init /\ [][Next]_vars

-----------------------------------------------------------------------------
(* The values of the batches so far, whole ones but perhaps the last. *)
Sent == UNION Range(stmts)
Starts == {Min(s) : s \in Range(stmts)}

(* The statements split the slice: each value is in one statement only, in the
   order of the slice, no statement is empty and "no single statement exceeds
   the engine's parameter limit" (write.go, InsertMany). *)
StatementsSplitValues ==
  /\ \A i \in DOMAIN stmts :
       /\ stmts[i] # {}
       /\ req.limit > 0 => Cardinality(stmts[i]) * req.cols <= req.limit
       /\ \A j \in 1..(i - 1) : \A v \in stmts[j], w \in stmts[i] : v < w
  /\ Sent = 0..(Cardinality(Sent) - 1)
  /\ ret = "nil" => Sent = Values

(* What is in the database once the call is over: after nil every value, after
   an error on a *DB the batches before the one that failed, that one perhaps
   and no other, and in an InTx all values or none ("wrap the call in InTx when
   all rows must land together", write.go). *)
WhatLands ==
  /\ result = "nil" => db = Starts /\ Sent = Values
  /\ result = "error" /\ ~req.inTx =>
       \/ db = Starts
       \/ stmts # << >> /\ db = Starts \ {Min(Last(stmts))}
  /\ req.inTx => db = {} \/ (db = Starts /\ Sent = Values)

(* After nil, RETURNING filled every value from the row that is its own, and
   whatever happens no value beyond the statements sent is touched. *)
FilledFromOwnRow ==
  /\ ret = "nil" /\ req.returning => \A v \in Values : filled[v] = v
  /\ \A v \in Values : filled[v] # NoRow => v \in Sent /\ req.returning
=============================================================================
