------------------------------- MODULE RowRead ------------------------------
(***************************************************************************)
(* Reading rows: All, One, First and Iter of scan.go, by any number of     *)
(* goroutines on one *DB.  Each makes one call; what they share is the     *)
(* pool of connections, and each open result holds one of them.  A caller  *)
(* may hold another: a *Conn it reserved, to read through it or while it   *)
(* asks the *DB, or the connection of a statement run in the body of Iter. *)
(*                                                                         *)
(* The statement of a reader would produce total[r] rows, numbered from 1  *)
(* in the order of the engine, if nothing fails on the way.  Anything may: *)
(* the statement, the result in the middle of its rows, the conversion of  *)
(* a row, the context at any moment.                                       *)
(***************************************************************************)
EXTENDS Naturals, Sequences, FiniteSets

CONSTANTS
  Readers,   (* the goroutines *)
  Conns,     (* bound: connections of the pool *)
  MaxRows    (* bound: rows of one result *)

ASSUME ReadersAssumption == IsFiniteSet(Readers)
ASSUME ConnsAssumption == Conns \in Nat \ {0}
ASSUME RowsAssumption == MaxRows \in Nat

VARIABLES
  op,       (* the function called *)
  total,    (* the rows its statement would produce *)
  how,      (* how the caller uses the handle, see Manners *)
  limit,    (* the connections the pool may open: SetMaxOpenConns *)
  pc,       (* where in the function the reader is *)
  cursor,   (* its *sql.Rows: "none", "open", "eof", "failed" or "closed" *)
  pos,      (* the row the cursor is on *)
  out,      (* the values read so far *)
  given,    (* what was yielded or returned: rows, Failure, and Stopped when the
               caller left the loop *)
  result,   (* how the call ended *)
  extra     (* the caller holds a connection besides the result's *)

call == <<op, total, how, limit>>
vars == <<call, pc, cursor, pos, out, given, result, extra>>

Ops == {"All", "One", "First", "Iter"}
Failure == 0
Stopped == MaxRows + 1
RowNumbers == 1..MaxRows
UpTo(n) == [i \in 1..n |-> i]

(* database/sql gives the connection back when the rows are closed, which it
   does itself at their end, at an error and when the context expires. *)
Held ==
  Cardinality({r \in Readers : cursor[r] = "open" /\ how[r] # "through"})
    + Cardinality({r \in Readers : extra[r]})

Free == limit - Held

(* "alone": the call is all there is.  "through": the caller reserves a *Conn
   and reads through it.  "beside": it reserves a *Conn, or is in a transaction,
   and asks the *DB meanwhile.  "nested": it ranges over Iter, and the body of
   its loop asks the *DB. *)
Manners(o) == {"alone", "through", "beside"} \cup (IF o = "Iter" THEN {"nested"} ELSE {})

Init ==
  /\ op \in [Readers -> Ops]
  /\ total \in [Readers -> 0..MaxRows]
  /\ how \in [Readers -> UNION {Manners(o) : o \in Ops}]
  /\ \A r \in Readers : how[r] \in Manners(op[r])
  /\ limit \in 1..Conns
  /\ pc = [r \in Readers |-> IF how[r] \in {"through", "beside"} THEN "reserve" ELSE "call"]
  /\ cursor = [r \in Readers |-> "none"]
  /\ pos = [r \in Readers |-> 0]
  /\ out = [r \in Readers |-> << >>]
  /\ given = [r \in Readers |-> << >>]
  /\ result = [r \in Readers |-> "none"]
  /\ extra = [r \in Readers |-> FALSE]

-----------------------------------------------------------------------------
(* How a call ends.                                                        *)

(* Mutant of CloseRows: the deferred Close is forgotten. *)
KeepRows(r) == UNCHANGED cursor

(* The deferred rows.Close. *)
CloseRows(r) == cursor' = [cursor EXCEPT ![r] = IF @ = "none" THEN @ ELSE "closed"]

Return(r, outcome, values) ==
  /\ pc' = [pc EXCEPT ![r] = "returned"]
  /\ result' = [result EXCEPT ![r] = outcome]
  /\ given' = [given EXCEPT ![r] = @ \o values]
  /\ pos' = [pos EXCEPT ![r] = 0]
  /\ out' = [out EXCEPT ![r] = << >>]
  /\ CloseRows(r)
  /\ UNCHANGED call

(* All, One and First return no value with an error; Iter yields it. *)
ReturnError(r) == Return(r, "error", IF op[r] = "Iter" THEN <<Failure>> ELSE << >>)

-----------------------------------------------------------------------------
(* DB.Conn and Conn.Close, which the caller defers.                        *)

Reserve(r) ==
  /\ pc[r] = "reserve"
  /\ Free > 0
  /\ extra' = [extra EXCEPT ![r] = TRUE]
  /\ pc' = [pc EXCEPT ![r] = "call"]
  /\ UNCHANGED <<call, cursor, pos, out, given, result>>

(* The context expires before there is a connection, or none can be opened. *)
ReserveFails(r) ==
  /\ pc[r] = "reserve"
  /\ result' = [result EXCEPT ![r] = "no connection"]
  /\ pc' = [pc EXCEPT ![r] = "returned"]
  /\ UNCHANGED <<call, cursor, pos, out, given, extra>>

(* The call is over, and the caller closes its *Conn. *)
Release(r) ==
  /\ pc[r] = "returned"
  /\ extra' = [extra EXCEPT ![r] = FALSE]
  /\ pc' = [pc EXCEPT ![r] = "done"]
  /\ UNCHANGED <<call, cursor, pos, out, given, result>>

-----------------------------------------------------------------------------
(* bindFor and runQuery.                                                   *)

BindFails(r) ==
  /\ pc[r] = "call"
  /\ ReturnError(r)
  /\ UNCHANGED extra

(* queryContext: a *Conn has its connection, a *DB takes one of the pool. *)
HasConnection(r) == how[r] = "through" \/ Free > 0

Query(r) ==
  /\ pc[r] = "call"
  /\ HasConnection(r)
  /\ cursor' = [cursor EXCEPT ![r] = "open"]
  /\ pc' = [pc EXCEPT ![r] = "reader"]
  /\ UNCHANGED <<call, pos, out, given, result, extra>>

(* The engine refuses the statement; the connection goes back at once. *)
QueryFails(r) ==
  /\ pc[r] = "call"
  /\ HasConnection(r)
  /\ ReturnError(r)
  /\ UNCHANGED extra

(* The context expires before there is a connection. *)
QueryGivesUp(r) ==
  /\ pc[r] = "call"
  /\ ReturnError(r)
  /\ UNCHANGED extra

-----------------------------------------------------------------------------
(* collect, single and stream.                                             *)

GoTo(r, next) ==
  /\ pc' = [pc EXCEPT ![r] = next]
  /\ UNCHANGED <<call, out, given, result, extra>>

(* readerFor: a column has no field, or the rows are closed already. *)
ReaderFails(r) ==
  /\ pc[r] = "reader"
  /\ ReturnError(r)
  /\ UNCHANGED extra

ReaderReady(r) ==
  /\ pc[r] = "reader"
  /\ GoTo(r, "next")
  /\ UNCHANGED <<cursor, pos>>

(* rows.Next, from the loop or, in "second", looking for a row too many. *)
NextRow(r) ==
  /\ pc[r] = "next"
  /\ cursor[r] = "open"
  /\ pos[r] < total[r]
  /\ pos' = [pos EXCEPT ![r] = @ + 1]
  /\ GoTo(r, "read")
  /\ UNCHANGED cursor

SecondRow(r) ==
  /\ pc[r] = "second"
  /\ cursor[r] = "open"
  /\ pos[r] < total[r]
  /\ Return(r, "too many", << >>)
  /\ UNCHANGED extra

NextEnds(r) ==
  /\ pc[r] \in {"next", "second"}
  /\ cursor[r] = "open"
  /\ pos[r] = total[r]
  /\ cursor' = [cursor EXCEPT ![r] = "eof"]
  /\ GoTo(r, "err")
  /\ UNCHANGED pos

(* The engine or the connection fails under way, or did before. *)
NextFails(r) ==
  /\ pc[r] \in {"next", "second"}
  /\ cursor[r] \in {"open", "failed"}
  /\ cursor' = [cursor EXCEPT ![r] = "failed"]
  /\ GoTo(r, "err")
  /\ UNCHANGED pos

(* What the function does with the value of a row. *)
AfterRead(r) ==
  CASE op[r] = "All" -> "next"
    [] op[r] = "One" -> "second"
    [] op[r] = "First" -> "err"
    [] op[r] = "Iter" -> "body"

Read(r) ==
  /\ pc[r] = "read"
  /\ cursor[r] = "open"
  /\ pc' = [pc EXCEPT ![r] = AfterRead(r)]
  /\ out' = [out EXCEPT ![r] = Append(@, pos[r])]
  /\ given' = [given EXCEPT ![r] = IF op[r] = "Iter" THEN Append(@, pos[r]) ELSE @]
  /\ UNCHANGED <<call, cursor, pos, result, extra>>

(* Mutant of ReadFails: stream yields the error and goes on with the next row. *)
ReadFailsOn(r) ==
  /\ pc[r] = "read"
  /\ given' = [given EXCEPT ![r] = IF op[r] = "Iter" THEN Append(@, Failure) ELSE @]
  /\ pc' = [pc EXCEPT ![r] = "next"]
  /\ UNCHANGED <<call, cursor, pos, out, result, extra>>

(* rows.Scan or the conversion of a value fails. *)
ReadFails(r) ==
  /\ pc[r] = "read"
  /\ ReturnError(r)
  /\ UNCHANGED extra

(* The body of the caller's range loop.  A statement it runs on the *DB takes a
   second connection, or waits for one until the context expires. *)
Ask(r) ==
  /\ pc[r] = "body"
  /\ how[r] = "nested"
  /\ Free > 0
  /\ extra' = [extra EXCEPT ![r] = TRUE]
  /\ pc' = [pc EXCEPT ![r] = "asked"]
  /\ UNCHANGED <<call, cursor, pos, out, given, result>>

AskGivesUp(r) ==
  /\ pc[r] = "body"
  /\ how[r] = "nested"
  /\ Return(r, "left", <<Stopped>>)
  /\ UNCHANGED extra

(* The end of the body, and of the statement it ran. *)
BodyEnds(r) ==
  /\ pc[r] = IF how[r] = "nested" THEN "asked" ELSE "body"
  /\ extra' = [extra EXCEPT ![r] = @ /\ how[r] # "nested"]

(* On to the next row, or out of the loop by break, return or panic. *)
Continue(r) ==
  /\ BodyEnds(r)
  /\ pc' = [pc EXCEPT ![r] = "next"]
  /\ UNCHANGED <<call, cursor, pos, out, given, result>>

(* Mutant of Break: stream does not look at what yield answers. *)
BreakUnheard(r) ==
  /\ BodyEnds(r)
  /\ given' = [given EXCEPT ![r] = Append(@, Stopped)]
  /\ pc' = [pc EXCEPT ![r] = "next"]
  /\ UNCHANGED <<call, cursor, pos, out, result>>

Break(r) ==
  /\ BodyEnds(r)
  /\ Return(r, "left", <<Stopped>>)

-----------------------------------------------------------------------------
(* rows.Err, after the last Next.                                          *)

(* Mutant of Failed: the end of the rows is taken for their end. *)
NeverFailed(r) == FALSE

(* rows.Err is not nil. *)
Failed(r) == cursor[r] = "failed"

ErrFound(r) ==
  /\ pc[r] = "err"
  /\ Failed(r)
  /\ ReturnError(r)
  /\ UNCHANGED extra

NoRows(r) ==
  /\ pc[r] = "err"
  /\ ~Failed(r)
  /\ op[r] \in {"One", "First"}
  /\ out[r] = << >>
  /\ Return(r, "no rows", << >>)
  /\ UNCHANGED extra

Success(r) ==
  /\ pc[r] = "err"
  /\ ~Failed(r)
  /\ op[r] \in {"One", "First"} => out[r] # << >>
  /\ Return(r, "ok", IF op[r] = "Iter" THEN << >> ELSE out[r])
  /\ UNCHANGED extra

(* The context expires: database/sql closes the rows from another goroutine. *)
Expire(r) ==
  /\ cursor[r] = "open"
  /\ cursor' = [cursor EXCEPT ![r] = "failed"]
  /\ UNCHANGED <<call, pc, pos, out, given, result, extra>>

(* Every call is over. *)
AllDone ==
  /\ \A r \in Readers : pc[r] = "done"
  /\ UNCHANGED vars

Step(r) ==
  \/ Reserve(r) \/ Release(r)
  \/ Query(r) \/ QueryFails(r)
  \/ ReaderFails(r) \/ ReaderReady(r)
  \/ NextRow(r) \/ SecondRow(r) \/ NextEnds(r) \/ NextFails(r)
  \/ Read(r) \/ ReadFails(r) \/ Ask(r) \/ Continue(r) \/ Break(r)
  \/ ErrFound(r) \/ NoRows(r) \/ Success(r)

Next ==
  \/ \E r \in Readers :
       \/ Step(r)
       \/ ReserveFails(r) \/ BindFails(r) \/ QueryGivesUp(r) \/ AskGivesUp(r)
       \/ Expire(r)
  \/ AllDone

Spec == Init /\ [][Next]_vars

(* A goroutine that can go on does, and so does the body of a loop; nothing
   else may be counted on, least of all a context that expires. *)
FairSpec == Spec /\ \A r \in Readers : WF_vars(Step(r))

-----------------------------------------------------------------------------
(* What a call without an error hands over is everything its statement had to
   give: a result cut short by a failure never passes for a whole one, One
   vouches for the only row, and "no rows" means there were none. *)
WholeResult ==
  \A r \in Readers :
    /\ result[r] = "ok" =>
         CASE op[r] \in {"All", "Iter"} -> given[r] = UpTo(total[r])
           [] op[r] = "One" -> given[r] = <<1>> /\ total[r] = 1
           [] op[r] = "First" -> given[r] = <<1>> /\ total[r] >= 1
    /\ result[r] = "no rows" => total[r] = 0
    /\ result[r] = "too many" => op[r] = "One" /\ total[r] > 1

(* "At most one error is yielded, and it is always the last iteration" (scan.go,
   Iter), and no error that ends the call stays unsaid.  No row is handed over
   twice or out of order, and nothing at all once the caller has left the loop,
   where the runtime would panic. *)
ErrorEndsIteration ==
  \A r \in Readers : op[r] = "Iter" =>
    \E n \in 0..total[r] :
      given[r] = CASE result[r] = "error" -> UpTo(n) \o <<Failure>>
                   [] result[r] = "left" -> UpTo(n) \o <<Stopped>>
                   [] OTHER -> UpTo(n)

(* A connection is out only while its reader is inside the call or the caller
   holds it on purpose, and no more are out than the pool may open. *)
NothingHeld ==
  /\ \A r \in Readers : pc[r] \in {"reserve", "call", "returned", "done"} => cursor[r] # "open"
  /\ \A r \in Readers : pc[r] \in {"reserve", "done"} => ~extra[r]
  /\ Held <= limit

(* "Holding a *row.Conn and then asking the same handle for a transaction will
   deadlock, because the transaction waits for the only connection" (sqlite.go,
   open).  That is the only way to wait forever: with more connections than
   callers who ask while they hold one, the body of an Iter among them, every
   call ends, whoever else is reading. *)
Served ==
  Cardinality({r \in Readers : how[r] \in {"beside", "nested"}}) < limit =>
    \A r \in Readers : <>(pc[r] = "done")
=============================================================================
