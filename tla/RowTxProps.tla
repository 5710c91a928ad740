----------------------------- MODULE RowTxProps -----------------------------
(***************************************************************************)
(* What InTx promises, stated over RowTx.                                  *)
(***************************************************************************)
EXTENDS RowTx

(* The state is well formed, and a call is running exactly while pc says so:
   a call that forgot to leave the stack would break this. *)
TypeOK ==
  /\ SqlTypeOK
  /\ pc \in Running \cup {"start", "done"}
  /\ frames \in Seq(Frame)
  /\ pc \in Running <=> frames # << >>
  /\ calls \in 0..MaxCalls
  /\ savepointSeq \in Nat
  /\ dead \in SUBSET Calls
  /\ acked \in SUBSET Writes
  /\ path \in [Writes -> SUBSET Calls]
  /\ outcome \in [Calls -> Outcomes]
  /\ stray \in SUBSET Calls

(* A call lets its writes through when it returned nil, or when its closing
   statement was refused and the parent inherited them. *)
LetThrough(c) == outcome[c] = "nil" \/ c \in stray
Kept == {w \in acked : \A c \in path[w] \ {Root} : LetThrough(c)}

(* InTx is all or nothing at every depth: when it returns nil the database
   gained exactly the writes whose nested calls let them through, neither a
   write of a call that failed nor one write less; when it ends in any other
   way the database gained nothing, except that a lost reply to Commit leaves
   the two possibilities open. *)
AtomicOutcome ==
  /\ outcome[Root] = "nil" => db = Kept
  /\ outcome[Root] = "doubt" => db \in {{}, Kept}
  /\ outcome[Root] \in {"open", "err", "panic", "goexit"} => db = {}

(* "An inner failure undoes only the inner work" (README, Nesting works): no
   write made inside a call that returned an error or panicked is committed. *)
InnerFailureUndone ==
  \A w \in db : \A c \in path[w] : outcome[c] \notin {"err", "panic"}

(* The writes still standing: every closed call around them let them through. *)
Standing == {w \in acked : \A c \in path[w] : outcome[c] = "open" \/ LetThrough(c)}

(* While the engine holds the transaction, each running nested call finds its
   own savepoint under its name, remembering the standing work of everything
   around the call and nothing of the call itself, whatever savepoints failed
   or panicking calls left behind on the stack. *)
SavepointsFollowCalls ==
  srv # "closed" =>
    \A d \in 2..Len(frames) : \E i \in DOMAIN sps :
      /\ Resolves(frames[d].sp, i)
      /\ sps[i].saved = {w \in Standing : frames[d].id \notin path[w]}

(* The work a running call would hand to its parent: what was written in it,
   less what the nested calls inside it that have ended did not let through. *)
WorkOf(id) ==
  {w \in acked : id \in path[w] /\ \A c \in path[w] : c > id => LetThrough(c)}

Status == CASE pc = "start" -> "idle" [] pc = "done" -> "over" [] OTHER -> "running"

Abstract == INSTANCE NestedTx
  WITH status <- Status, work <- [d \in DOMAIN frames |-> WorkOf(frames[d].id)]

(* InTx, savepoints, expiries, lost connections and all, is a stack of scopes
   whose work reaches the database all at once or not at all. *)
ImplementsNestedTx == Abstract!Spec

(* A call that closes takes no work but its own out of the transaction. *)
ClosingUndoesOnlyOwn ==
  [][(pc \in {"rollbackTo", "unwind", "release", "releaseAfterRollback"} /\ srv' # "closed")
       => (\A w \in log \ log' : Top.id \in path[w])]_vars

(* "A panicking handler must never leave a transaction open" (tx.go), nor may
   any other return: the connection is back in the pool, unless the context
   has expired and database/sql is about to put it back. *)
NothingLeftOpen ==
  pc = "done" /\ outcome[Root] # "goexit" => ~txOpen \/ Root \in dead

(* A call whose callback is over ends: no closing path can get stuck. *)
ClosingEnds == pc \in Running \ {"fn", "unwind"} ~> pc \in {"fn", "done"}
=============================================================================
