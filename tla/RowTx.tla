------------------------------- MODULE RowTx -------------------------------
(***************************************************************************)
(* InTx and nest of tx.go: one call of InTx on a *DB or *Conn, and every   *)
(* InTx its callback makes on the *Tx it was given, down to any depth.     *)
(*                                                                         *)
(* The Go call stack is frames: one frame per InTx call that is running    *)
(* its callback.  pc says what the innermost one is doing.  The callback   *)
(* is the program's own code, so it may do anything legal: write, fail a   *)
(* statement and carry on, nest, return nil or an error, panic, recover,   *)
(* or leave by runtime.Goexit.  Contexts expire and connections break at   *)
(* any moment.                                                             *)
(***************************************************************************)
EXTENDS SqlTx

CONSTANTS
  MaxCalls,    (* bound: InTx calls in one behaviour *)
  ScopedCtx    (* TRUE: a nested call may get a context of its own that can
                  expire alone, such as context.WithTimeout(ctx, ...) *)

ASSUME CallsAssumption == MaxCalls \in Nat \ {0}
ASSUME ScopedAssumption == ScopedCtx \in BOOLEAN

VARIABLES
  pc,            (* what the innermost InTx call is doing *)
  frames,        (* the InTx calls whose callback is running, outermost first *)
  calls,         (* InTx calls made so far; a call is named by its number *)
  savepointSeq,  (* the process-wide savepoint counter *)
  dead,          (* contexts that expired; a context is named by the call it
                    was made for, and 1 is the one the transaction began with *)
  acked,         (* history: the writes whose statement reported success *)
  path,          (* history: the calls that enclosed each write *)
  outcome,       (* history: how each call ended *)
  stray          (* history: calls whose closing statement was refused because
                    their own context had expired, the transaction's had not *)

callVars == <<pc, frames, calls, savepointSeq>>
history == <<acked, path, stray>>
vars == <<sqlVars, callVars, dead, history, outcome>>

Calls == 1..MaxCalls
Root == 1
Frame == [id : Calls, sp : Nat, ctx : Calls]

Running == {"fn", "unwind", "commit", "rollback",
            "release", "rollbackTo", "releaseAfterRollback"}
Outcomes == {"open", "nil", "err", "panic", "goexit", "doubt"}

Top == frames[Len(frames)]
Nested == Len(frames) > 1
OpenCalls == {frames[d].id : d \in DOMAIN frames}

(* A context is dead when it, or one it derives from, has expired. *)
CtxDead == \E d \in DOMAIN frames : frames[d].ctx \in dead
OnlyOwnCtxDead == CtxDead /\ Root \notin dead

(* Tx.ExecContext sends nothing once its context is dead or the Tx is done. *)
Sends == txOpen /\ ~CtxDead

(* Mutant of Return: the call ends without handing control to its caller. *)
ReturnKeepsFrame(res, next) ==
  /\ frames' = frames
  /\ outcome' = [outcome EXCEPT ![Top.id] = res]
  /\ pc' = next
  /\ UNCHANGED <<calls, savepointSeq, dead, acked, path>>

(***************************************************************************)
(* The innermost call returns to its caller with the result res.           *)
(***************************************************************************)
Return(res, next) ==
  /\ frames' = SubSeq(frames, 1, Len(frames) - 1)
  /\ outcome' = [outcome EXCEPT ![Top.id] = res]
  /\ pc' = next
  /\ UNCHANGED <<calls, savepointSeq, dead, acked, path>>

ReturnToParent(res, next) ==
  /\ Return(res, next)
  /\ UNCHANGED stray

(* The closing statement of the innermost call was refused. *)
ReturnRefused(res, next) ==
  /\ Return(res, next)
  /\ stray' = IF OnlyOwnCtxDead THEN stray \cup {Top.id} ELSE stray

-----------------------------------------------------------------------------
Init ==
  /\ SqlInit
  /\ pc = "start"
  /\ frames = << >>
  /\ calls = 0
  /\ savepointSeq = 0
  /\ dead = {}
  /\ acked = {}
  /\ path = [w \in Writes |-> {}]
  /\ outcome = [c \in Calls |-> "open"]
  /\ stray = {}

(* InTx on a *DB or *Conn: BeginTx, then the callback. *)
Begin ==
  /\ pc = "start"
  /\ SqlBegin
  /\ frames' = <<[id |-> Root, sp |-> 0, ctx |-> Root]>>
  /\ calls' = Root
  /\ pc' = "fn"
  /\ UNCHANGED <<savepointSeq, dead, history, outcome>>

BeginFails ==
  /\ pc = "start"
  /\ calls' = Root
  /\ outcome' = [outcome EXCEPT ![Root] = "err"]
  /\ pc' = "done"
  /\ UNCHANGED <<sqlVars, frames, savepointSeq, dead, history>>

-----------------------------------------------------------------------------
(* What the callback does while it is the innermost one.                   *)

(* It may pass any context to a statement, so only txOpen matters here. *)
Write(w) ==
  /\ pc = "fn"
  /\ txOpen
  /\ w \notin acked
  /\ SqlWrite(w)
  /\ acked' = acked \cup {w}
  /\ path' = [path EXCEPT ![w] = OpenCalls]
  /\ UNCHANGED <<callVars, dead, outcome, stray>>

WriteFails ==
  /\ pc = "fn"
  /\ txOpen
  /\ SqlStatementFails
  /\ UNCHANGED <<callVars, dead, history, outcome>>

(* Mutant of NextName: every nested call uses the same name. *)
SameName == 1

(* savepointSeq.Add(1): the name of a nested call's savepoint. *)
NextName == savepointSeq + 1

(* A call made with the context of its parent, or with one of its own. *)
CtxChoices(id) == {Top.ctx} \cup (IF ScopedCtx THEN {id} ELSE {})

Nest ==
  /\ pc = "fn"
  /\ calls < MaxCalls
  /\ Sends
  /\ SqlSavepoint(NextName)
  /\ \E c \in CtxChoices(calls + 1) :
       frames' = Append(frames, [id |-> calls + 1, sp |-> NextName, ctx |-> c])
  /\ calls' = calls + 1
  /\ savepointSeq' = savepointSeq + 1
  /\ UNCHANGED <<pc, dead, history, outcome>>

(* nest returns before the callback: SAVEPOINT failed, at the engine or
   before it was sent. *)
NestFails ==
  /\ pc = "fn"
  /\ calls < MaxCalls
  /\ \/ txOpen /\ SqlStatementFails
     \/ UNCHANGED sqlVars
  /\ calls' = calls + 1
  /\ savepointSeq' = savepointSeq + 1
  /\ outcome' = [outcome EXCEPT ![calls + 1] = "err"]
  /\ UNCHANGED <<pc, frames, dead, history>>

(* InTx on a *Tx refuses options, and dialects without savepoints. *)
NestRejected ==
  /\ pc = "fn"
  /\ calls < MaxCalls
  /\ calls' = calls + 1
  /\ outcome' = [outcome EXCEPT ![calls + 1] = "err"]
  /\ UNCHANGED <<sqlVars, pc, frames, savepointSeq, dead, history>>

FnReturnsNil ==
  /\ pc = "fn"
  /\ pc' = IF Nested THEN "release" ELSE "commit"
  /\ UNCHANGED <<sqlVars, frames, calls, savepointSeq, dead, history, outcome>>

FnReturnsError ==
  /\ pc = "fn"
  /\ pc' = IF Nested THEN "rollbackTo" ELSE "rollback"
  /\ UNCHANGED <<sqlVars, frames, calls, savepointSeq, dead, history, outcome>>

FnPanics ==
  /\ pc = "fn"
  /\ pc' = "unwind"
  /\ UNCHANGED <<sqlVars, frames, calls, savepointSeq, dead, history, outcome>>

(* The callback recovers a panic, its own or one a nested call re-raised. *)
FnRecovers ==
  /\ pc = "unwind"
  /\ pc' = "fn"
  /\ UNCHANGED <<sqlVars, frames, calls, savepointSeq, dead, history, outcome>>

(* runtime.Goexit, for example testing.T.FailNow: deferred functions run,
   recover() gives nil in each of them, so none sends anything. *)
FnGoexits ==
  /\ pc = "fn"
  /\ outcome' = [c \in Calls |-> IF c \in OpenCalls THEN "goexit" ELSE outcome[c]]
  /\ frames' = << >>
  /\ pc' = "done"
  /\ UNCHANGED <<sqlVars, calls, savepointSeq, dead, history>>

-----------------------------------------------------------------------------
(* How a nested call closes: one statement per step.                       *)

(* The callback returned nil: RELEASE SAVEPOINT. *)
Release ==
  /\ pc = "release"
  /\ Sends
  /\ SqlRelease(Top.sp)
  /\ ReturnToParent("nil", "fn")

(* Mutant of ReleaseRefused: a RELEASE the engine rejects is tried again. *)
ReleaseRetried ==
  /\ pc = "release"
  /\ ~Sends
  /\ ReturnRefused("err", "fn")
  /\ UNCHANGED sqlVars

ReleaseRefused ==
  /\ pc = "release"
  /\ ~Sends \/ srv # "open"
  /\ ReturnRefused("err", "fn")
  /\ UNCHANGED sqlVars

(* Mutants of RollbackTo: the statement left out, and the statement given the
   savepoint of the enclosing call (t.savepoint in place of name). *)
RollbackToLeftOut ==
  /\ pc = "rollbackTo"
  /\ Sends
  /\ pc' = "releaseAfterRollback"
  /\ UNCHANGED <<sqlVars, frames, calls, savepointSeq, dead, history, outcome>>

RollbackToParent ==
  /\ pc = "rollbackTo"
  /\ Sends
  /\ SqlRollbackTo(IF Len(frames) > 2 THEN frames[Len(frames) - 1].sp ELSE Top.sp)
  /\ pc' = "releaseAfterRollback"
  /\ UNCHANGED <<frames, calls, savepointSeq, dead, history, outcome>>

(* The callback returned an error: ROLLBACK TO SAVEPOINT ... *)
RollbackTo ==
  /\ pc = "rollbackTo"
  /\ Sends
  /\ SqlRollbackTo(Top.sp)
  /\ pc' = "releaseAfterRollback"
  /\ UNCHANGED <<frames, calls, savepointSeq, dead, history, outcome>>

RollbackToRefused ==
  /\ pc = "rollbackTo"
  /\ ~Sends \/ srv = "closed"
  /\ ReturnRefused("err", "fn")
  /\ UNCHANGED sqlVars

(* Mutant of ReleaseAfterRollback: it releases the enclosing call's savepoint. *)
ReleaseParentAfterRollback ==
  /\ pc = "releaseAfterRollback"
  /\ \/ Sends /\ SqlRelease(IF Len(frames) > 2 THEN frames[Len(frames) - 1].sp ELSE Top.sp)
     \/ (~Sends \/ srv # "open") /\ UNCHANGED sqlVars
  /\ ReturnToParent("err", "fn")

(* ... then RELEASE SAVEPOINT, whose own failure is ignored. *)
ReleaseAfterRollback ==
  /\ pc = "releaseAfterRollback"
  /\ \/ Sends /\ SqlRelease(Top.sp)
     \/ (~Sends \/ srv # "open") /\ UNCHANGED sqlVars
  /\ ReturnToParent("err", "fn")

(* Mutant of UnwindNested: the panic passes through nest as it is. *)
UnwindNestedBare ==
  /\ pc = "unwind"
  /\ Nested
  /\ ReturnToParent("panic", "unwind")
  /\ UNCHANGED sqlVars

(* The callback panicked: ROLLBACK TO SAVEPOINT with its failure ignored, no
   RELEASE, and the panic goes on in the callback of the parent. *)
UnwindNested ==
  /\ pc = "unwind"
  /\ Nested
  /\ \/ /\ Sends
        /\ SqlRollbackTo(Top.sp)
        /\ ReturnToParent("panic", "unwind")
     \/ /\ ~Sends \/ srv = "closed"
        /\ ReturnRefused("panic", "unwind")
        /\ UNCHANGED sqlVars

-----------------------------------------------------------------------------
(* How the outermost call closes.                                          *)

(* Commit looks at the transaction's context first and leaves the Tx to the
   rollback database/sql makes when that context expires. *)
CommitAfterExpiry ==
  /\ pc = "commit"
  /\ Root \in dead
  /\ ReturnToParent("err", "done")
  /\ UNCHANGED sqlVars

Commit ==
  /\ pc = "commit"
  /\ Root \notin dead
  /\ \/ SqlCommitAccepted /\ ReturnToParent("nil", "done")
     \/ SqlCommitRefused /\ ReturnToParent("err", "done")
     \/ SqlCommitInDoubt /\ ReturnToParent("doubt", "done")

(* Rollback on a Tx that is already done is sql.ErrTxDone, which InTx drops. *)
RollbackIfOpen ==
  \/ txOpen /\ SqlRollback
  \/ ~txOpen /\ UNCHANGED sqlVars

Rollback ==
  /\ pc = "rollback"
  /\ RollbackIfOpen
  /\ ReturnToParent("err", "done")

(* Mutant of UnwindRoot: the panic passes through InTx as it is. *)
UnwindRootBare ==
  /\ pc = "unwind"
  /\ ~Nested
  /\ ReturnToParent("panic", "done")
  /\ UNCHANGED sqlVars

UnwindRoot ==
  /\ pc = "unwind"
  /\ ~Nested
  /\ RollbackIfOpen
  /\ ReturnToParent("panic", "done")

-----------------------------------------------------------------------------
(* The surroundings.                                                       *)

(* A context expires or is cancelled; those derived from it die with it. *)
Expire(c) ==
  /\ pc # "start"
  /\ c = Root \/ c \in {frames[d].ctx : d \in DOMAIN frames}
  /\ c \notin dead
  /\ dead' = dead \cup {c}
  /\ UNCHANGED <<sqlVars, callVars, history, outcome>>

(* The goroutine BeginTx left behind rolls back when its context is dead. *)
AwaitDone ==
  /\ Root \in dead
  /\ txOpen
  /\ SqlRollback
  /\ UNCHANGED <<callVars, dead, history, outcome>>

ConnectionLost ==
  /\ txOpen
  /\ SqlConnectionLost
  /\ UNCHANGED <<callVars, dead, history, outcome>>

(* InTx is over and nothing of it is left. *)
Finished ==
  /\ pc = "done"
  /\ ~txOpen
  /\ UNCHANGED vars

Callback ==
  \/ \E w \in Writes : Write(w)
  \/ WriteFails \/ Nest \/ NestFails \/ NestRejected
  \/ FnReturnsNil \/ FnReturnsError \/ FnPanics \/ FnRecovers \/ FnGoexits

Closing ==
  \/ Release \/ ReleaseRefused
  \/ RollbackTo \/ RollbackToRefused \/ ReleaseAfterRollback
  \/ UnwindNested \/ UnwindRoot
  \/ CommitAfterExpiry \/ Commit \/ Rollback

Surroundings == (\E c \in Calls : Expire(c)) \/ AwaitDone \/ ConnectionLost

Next == Begin \/ BeginFails \/ Callback \/ Closing \/ Surroundings \/ Finished

Spec == Init /\ [][Next]_vars

(* The runtime runs a closing step that is due.  Nothing obliges the callback to
   return. *)
FairSpec == Spec /\ WF_vars(Closing)
=============================================================================
