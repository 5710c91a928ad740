------------------------------ MODULE NestedTx ------------------------------
(***************************************************************************)
(* What InTx is for, without a database in it: a stack of scopes, each     *)
(* holding the writes it would add to its parent.  A scope that ends hands *)
(* its writes on or drops them; the outermost hands its own to the         *)
(* database, all of them in one step, or none.                             *)
(***************************************************************************)
EXTENDS Naturals, Sequences

CONSTANT Writes

VARIABLES
  status,   (* "idle", "running" or "over" *)
  work,     (* the writes of each open scope, outermost first *)
  db        (* the committed writes *)

vars == <<status, work, db>>

Innermost == Len(work)
Enclosing == SubSeq(work, 1, Innermost - 1)

Init ==
  /\ status = "idle"
  /\ work = << >>
  /\ db = {}

Start ==
  /\ status = "idle"
  /\ status' = "running"
  /\ work' = <<{}>>
  /\ UNCHANGED db

(* The transaction ends, and no scope outlives it. *)
End ==
  /\ status' = "over"
  /\ work' = << >>

Refuse ==
  /\ status = "idle"
  /\ End
  /\ UNCHANGED db

Do(w) ==
  /\ status = "running"
  /\ work' = [work EXCEPT ![Innermost] = @ \cup {w}]
  /\ UNCHANGED <<status, db>>

Enter ==
  /\ status = "running"
  /\ work' = Append(work, {})
  /\ UNCHANGED <<status, db>>

Keep ==
  /\ status = "running"
  /\ Innermost > 1
  /\ work' = [Enclosing EXCEPT ![Innermost - 1] = @ \cup work[Innermost]]
  /\ UNCHANGED <<status, db>>

Drop ==
  /\ status = "running"
  /\ Innermost > 1
  /\ work' = Enclosing
  /\ UNCHANGED <<status, db>>

Commit ==
  /\ status = "running"
  /\ Innermost = 1
  /\ db' = db \cup work[1]
  /\ End

Abort ==
  /\ status = "running"
  /\ End
  /\ UNCHANGED db

Next ==
  \/ Start \/ Refuse
  \/ \E w \in Writes : Do(w)
  \/ Enter \/ Keep \/ Drop
  \/ Commit \/ Abort

Spec == Init /\ [][Next]_vars
=============================================================================
