------------------------------- MODULE SqlTx -------------------------------
(***************************************************************************)
(* The ground row's transactions stand on: one database/sql Tx and the     *)
(* engine transaction behind it.  Nothing of this is in the repository;    *)
(* it is modelled from the calls tx.go makes: BeginTx, Commit, Rollback    *)
(* and the SAVEPOINT, ROLLBACK TO SAVEPOINT and RELEASE SAVEPOINT          *)
(* statements sent through Tx.ExecContext.                                 *)
(*                                                                         *)
(* The data of a transaction is the set of writes it holds; each write is  *)
(* a member of Writes, made at most once.                                  *)
(***************************************************************************)
EXTENDS Naturals, Sequences

CONSTANTS
  Writes,        (* the statements that change data, one element per execution *)
  AbortOnError   (* TRUE: a failed statement aborts the transaction until a
                    rollback (PostgreSQL).  FALSE: only the statement fails
                    (SQLite). *)

ASSUME AbortAssumption == AbortOnError \in BOOLEAN

VARIABLES
  txOpen,   (* the *sql.Tx exists and neither Commit nor Rollback finished it *)
  srv,      (* the engine's transaction: "closed", "open" or "aborted" *)
  sps,      (* the engine's savepoint stack; each remembers the writes before it *)
  log,      (* the writes the open transaction holds *)
  db        (* the committed writes *)

sqlVars == <<txOpen, srv, sps, log, db>>

Savepoint == [name : Nat, saved : SUBSET Writes]

SqlTypeOK ==
  /\ txOpen \in BOOLEAN
  /\ srv \in {"closed", "open", "aborted"}
  /\ sps \in Seq(Savepoint)
  /\ log \in SUBSET Writes
  /\ db \in SUBSET Writes

SqlInit ==
  /\ txOpen = FALSE
  /\ srv = "closed"
  /\ sps = << >>
  /\ log = {}
  /\ db = {}

(* BEGIN succeeded: a fresh transaction on a connection of its own. *)
SqlBegin ==
  /\ txOpen' = TRUE
  /\ srv' = "open"
  /\ sps' = << >>
  /\ log' = {}
  /\ UNCHANGED db

(* A statement reached an open transaction and changed data. *)
SqlWrite(w) ==
  /\ srv = "open"
  /\ log' = log \cup {w}
  /\ UNCHANGED <<txOpen, srv, sps, db>>

(* A statement failed at the engine: a constraint, a syntax error. *)
SqlStatementFails ==
  /\ srv = "open"
  /\ srv' = IF AbortOnError THEN "aborted" ELSE "open"
  /\ UNCHANGED <<txOpen, sps, log, db>>

SqlSavepoint(n) ==
  /\ srv = "open"
  /\ sps' = Append(sps, [name |-> n, saved |-> log])
  /\ UNCHANGED <<txOpen, srv, log, db>>

(* Engines resolve a savepoint name to the most recent one that bears it. *)
Resolves(n, i) ==
  /\ i \in DOMAIN sps
  /\ sps[i].name = n
  /\ \A j \in DOMAIN sps : j > i => sps[j].name # n

(* Undoes what came after the savepoint, which itself stays on the stack,
   and makes an aborted transaction usable again. *)
SqlRollbackTo(n) ==
  /\ srv # "closed"
  /\ \E i \in DOMAIN sps :
       /\ Resolves(n, i)
       /\ log' = sps[i].saved
       /\ sps' = SubSeq(sps, 1, i)
  /\ srv' = "open"
  /\ UNCHANGED <<txOpen, db>>

(* Forgets the savepoint and every later one; the writes stay. *)
SqlRelease(n) ==
  /\ srv = "open"
  /\ \E i \in DOMAIN sps :
       /\ Resolves(n, i)
       /\ sps' = SubSeq(sps, 1, i - 1)
  /\ UNCHANGED <<txOpen, srv, log, db>>

(* The engine's transaction is over; kept is what the database gained. *)
EngineEnds(kept) ==
  /\ srv' = "closed"
  /\ sps' = << >>
  /\ log' = {}
  /\ db' = db \cup kept

(* Tx.Rollback, and the rollback database/sql performs on its own when the
   context the transaction began with expires. *)
SqlRollback ==
  /\ txOpen' = FALSE
  /\ EngineEnds({})

(* The connection broke: the engine discards the transaction, the *sql.Tx
   does not know yet. *)
SqlConnectionLost ==
  /\ srv # "closed"
  /\ EngineEnds({})
  /\ UNCHANGED txOpen

(* Tx.Commit that the engine accepts. *)
SqlCommitAccepted ==
  /\ srv = "open"
  /\ txOpen' = FALSE
  /\ EngineEnds(log)

(* Tx.Commit that the engine refuses: a serialization failure, a deferred
   constraint, an aborted or a vanished transaction. *)
SqlCommitRefused ==
  /\ txOpen' = FALSE
  /\ EngineEnds({})

(* Tx.Commit whose reply is lost: the engine may or may not have done it. *)
SqlCommitInDoubt ==
  /\ srv = "open"
  /\ txOpen' = FALSE
  /\ \/ EngineEnds(log)
     \/ EngineEnds({})
=============================================================================
