------------------------------ MODULE RowRetry ------------------------------
(***************************************************************************)
(* InTxRetry of tx.go.  Each attempt is one InTx, of which only what       *)
(* NestedTx promises is used: RowTx implements that.  What is added here   *)
(* is the loop: which failures are retried, how often, after what delay,   *)
(* what a cancelled context does to it, and the way of an error from the   *)
(* engine through row and the callback to the decision.                    *)
(***************************************************************************)
EXTENDS Classify

CONSTANTS
  Reports,   (* what each engine may report of a failure *)
  Rows,      (* what the callback may write, in every attempt anew *)
  Policies,  (* the retry policies of the callers *)
  Half       (* the first number a time.Duration does not hold, 2^63 in the code *)

Durations == (-Half)..(Half - 1)

ASSUME HalfAssumption == Half \in Nat \ {0}
ASSUME PoliciesAssumption ==
  Policies \subseteq [attempts : Int, base : Durations, max : Durations]

(* The result codes SQLite has for a database that is busy or locked. *)
ASSUME ReportsAssumption ==
  /\ Reports["sqlite"] \subseteq Int
  /\ \A r \in Reports["sqlite"] :
       Primary(r) \in {5, 6} => r \in {5, 261, 517, 773, 6, 262, 518}

VARIABLES
  engine,    (* the engine of the handle *)
  policy,    (* the RetryPolicy given *)
  tries,     (* attempts started *)
  late,      (* history: those of them started with a context that was done *)
  delay,     (* the backoff before the next attempt, not yet capped *)
  pc,        (* "attempt", "decide", "panicking", "backoff", "waiting" or "returned" *)
  last,      (* the error of the last attempt, without layers for nil *)
  cause,     (* history: what the engine reported, and whether the error still tells *)
  result,    (* how InTxRetry ended *)
  canceled,  (* the context is done *)
  made,      (* history: the writes of the attempt at work *)
  status, work, db   (* the transaction of the attempt, see NestedTx *)

loopVars == <<engine, policy, tries, late, delay>>
errVars == <<last, cause>>
txVars == <<status, work, db>>
vars == <<loopVars, pc, errVars, result, canceled, made, txVars>>

(* An attempt's writes are its own: the same row written twice is two writes. *)
T == INSTANCE NestedTx WITH Writes <- Nat \X Rows

Attempts == IF policy.attempts < 1 THEN 1 ELSE policy.attempts

(* Arithmetic on durations wraps. *)
Signed(x) == ((x + Half) % (2 * Half)) - Half

Nil == << >>

(* No report: SQLITE_OK and successful_completion. *)
Nothing == [sqlite |-> 0, postgres |-> "00000"]
NoCause == [report |-> Nothing[engine], kept |-> FALSE]

Results == {"none", "nil", "error", "gave up", "canceled", "panic", "badDelay"}

Init ==
  /\ engine \in Engines
  /\ policy \in Policies
  /\ tries = 0
  /\ late = 0
  /\ delay = policy.base
  /\ pc = "attempt"
  /\ last = Nil
  /\ cause = NoCause
  /\ result = "none"
  /\ canceled = FALSE
  /\ made = {}
  /\ T!Init

-----------------------------------------------------------------------------
(* How an attempt fails.                                                   *)

(* What row makes of a report, from a statement, BeginTx or Commit. *)
Annotated(report) == Wrap(engine, <<Reported(engine, report)>>)

Fail(err, report, kept) == [err |-> err, cause |-> [report |-> report, kept |-> kept]]

(* Row's own failures: a done context, a lost connection, an empty result. *)
RowFails == Fail(Wrap(engine, <<Other>>), Nothing[engine], FALSE)

EngineFails == {Fail(Annotated(r), r, TRUE) : r \in Reports[engine]}

(* What a callback returns: the error of row as it is or with its own text in
   front (InTx adds one too, when Rollback fails), an error of its own, one that
   only quotes the report, or one it got by Tx.SQL() behind row's back. *)
FnFails ==
  {RowFails, Fail(<<Other>>, Nothing[engine], FALSE)} \cup EngineFails \cup
  UNION {{ Fail(<<Text>> \o Annotated(r), r, TRUE),
           Fail(<<Other>>, r, FALSE),
           Fail(<<Text, Reported(engine, r)>>, r, FALSE) } : r \in Reports[engine]}

EndAttempt(failure) ==
  /\ last' = failure.err
  /\ cause' = failure.cause
  /\ pc' = "decide"
  /\ UNCHANGED <<loopVars, result, canceled, made>>

-----------------------------------------------------------------------------
(* One attempt.  A BeginTx on a context that is done fails, and so does its
   Commit.                                                                   *)

Count ==
  /\ tries' = tries + 1
  /\ late' = IF canceled THEN late + 1 ELSE late
  /\ made' = {}

AttemptBegins ==
  /\ pc = "attempt"
  /\ ~canceled
  /\ T!Start
  /\ Count
  /\ UNCHANGED <<engine, policy, delay, pc, errVars, result, canceled>>

AttemptRefused ==
  /\ pc = "attempt"
  /\ T!Refuse
  /\ Count
  /\ \E f \in {RowFails} \cup IF canceled THEN {} ELSE EngineFails :
       last' = f.err /\ cause' = f.cause
  /\ pc' = "decide"
  /\ UNCHANGED <<engine, policy, delay, result, canceled>>

FnWrites(r) ==
  /\ pc = "attempt"
  /\ T!Do(<<tries, r>>)
  /\ made' = made \cup {<<tries, r>>}
  /\ UNCHANGED <<loopVars, pc, errVars, result, canceled>>

AttemptCommits ==
  /\ pc = "attempt"
  /\ ~canceled
  /\ T!Commit
  /\ EndAttempt(Fail(Nil, Nothing[engine], FALSE))

(* Committed, but the reply never came: no dialect classifies that error. *)
CommitReplyLost ==
  /\ pc = "attempt"
  /\ ~canceled
  /\ T!Commit
  /\ EndAttempt(RowFails)

(* The callback fails, or the engine at Commit. *)
AttemptAborts ==
  /\ pc = "attempt"
  /\ T!Abort
  /\ \E f \in FnFails : EndAttempt(f)

FnPanics ==
  /\ pc = "attempt"
  /\ T!Abort
  /\ pc' = "panicking"
  /\ UNCHANGED <<loopVars, errVars, result, canceled, made>>

-----------------------------------------------------------------------------
(* The loop around it.                                                     *)

(* Mutant of Return: a break that leaves the select and not the loop. *)
ReturnFromSelect(how) ==
  /\ result' = how
  /\ pc' = "attempt"
  /\ UNCHANGED <<loopVars, errVars, canceled, made, txVars>>

Return(how) ==
  /\ result' = how
  /\ pc' = "returned"
  /\ UNCHANGED <<loopVars, errVars, canceled, made, txVars>>

Succeed == pc = "decide" /\ last = Nil /\ Return("nil")

Repanic == pc = "panicking" /\ Return("panic")

PassOn == pc = "decide" /\ last # Nil /\ ~Retryable(CodeOf(last)) /\ Return("error")

WorthRetrying == last # Nil /\ Retryable(CodeOf(last))

GiveUp == pc = "decide" /\ WorthRetrying /\ tries >= Attempts /\ Return("gave up")

(* Mutants of TryAgain: one attempt more than asked for, and every failure that
   is not classified held to be one that a retry can fix. *)
TryOnceMore ==
  /\ pc = "decide"
  /\ WorthRetrying
  /\ tries <= Attempts
  /\ pc' = "backoff"
  /\ UNCHANGED <<loopVars, errVars, result, canceled, made, txVars>>

TryAfterAnyFailure ==
  /\ pc = "decide"
  /\ last # Nil
  /\ WorthRetrying \/ CodeOf(last) = "Unknown"
  /\ tries < Attempts
  /\ pc' = "backoff"
  /\ UNCHANGED <<loopVars, errVars, result, canceled, made, txVars>>

TryAgain ==
  /\ pc = "decide"
  /\ WorthRetrying
  /\ tries < Attempts
  /\ pc' = "backoff"
  /\ UNCHANGED <<loopVars, errVars, result, canceled, made, txVars>>

Capped == IF policy.max > 0 /\ delay > policy.max THEN policy.max ELSE delay

(* rand.Int64N panics unless its argument is positive. *)
DelayOverflows == pc = "backoff" /\ Signed(Capped + 1) <= 0 /\ Return("badDelay")

Wait ==
  /\ pc = "backoff"
  /\ Signed(Capped + 1) > 0
  /\ pc' = "waiting"
  /\ UNCHANGED <<loopVars, errVars, result, canceled, made, txVars>>

(* Mutants of WaitOver: a delay that stays, and a select without the timer. *)
WaitWithoutDoubling ==
  /\ pc = "waiting"
  /\ pc' = "attempt"
  /\ status' = "idle"
  /\ UNCHANGED <<engine, policy, tries, late, delay, errVars, result, canceled, made, work, db>>

WaitWithoutTimer ==
  /\ pc = "waiting"
  /\ canceled
  /\ delay' = Signed(delay * 2)
  /\ pc' = "attempt"
  /\ status' = "idle"
  /\ UNCHANGED <<engine, policy, tries, late, errVars, result, canceled, made, work, db>>

(* select takes any ready case, so the timer may win over a done context. *)
WaitOver ==
  /\ pc = "waiting"
  /\ delay' = Signed(delay * 2)
  /\ pc' = "attempt"
  /\ status' = "idle"
  /\ UNCHANGED <<engine, policy, tries, late, errVars, result, canceled, made, work, db>>

WaitCanceled == pc = "waiting" /\ canceled /\ Return("canceled")

Cancel ==
  /\ ~canceled
  /\ pc # "returned"
  /\ canceled' = TRUE
  /\ UNCHANGED <<loopVars, pc, errVars, result, made, txVars>>

Loop ==
  \/ AttemptBegins \/ AttemptRefused
  \/ AttemptCommits \/ CommitReplyLost \/ AttemptAborts \/ FnPanics
  \/ Succeed \/ PassOn \/ Repanic \/ GiveUp \/ TryAgain
  \/ DelayOverflows \/ Wait \/ WaitOver \/ WaitCanceled

Next == Loop \/ (\E r \in Rows : FnWrites(r)) \/ Cancel

Spec == Init /\ [][Next]_vars

(* The callback ends some time, and timers fire. *)
FairSpec == Spec /\ WF_vars(Loop)

-----------------------------------------------------------------------------
(* The state is well formed, an attempt's work is what it wrote, and there is
   a result exactly when InTxRetry has returned. *)
TypeOK ==
  /\ engine \in Engines
  /\ policy \in Policies
  /\ tries \in Nat
  /\ late \in Nat
  /\ delay \in Durations
  /\ pc \in {"attempt", "decide", "panicking", "backoff", "waiting", "returned"}
  /\ \A i \in DOMAIN last : last[i].kind = "row" => last[i].code \in Codes
  /\ cause.report \in Reports[engine] \cup {Nothing[engine]}
  /\ result \in Results
  /\ result = "none" <=> pc # "returned"
  /\ canceled \in BOOLEAN
  /\ made \in SUBSET (Nat \X Rows)
  /\ status \in {"idle", "running", "over"}
  /\ work \in Seq(SUBSET made)
  /\ db \in SUBSET (Nat \X Rows)

PowerOfTwo[n \in Nat] == IF n = 0 THEN 1 ELSE 2 * PowerOfTwo[n - 1]

(* Retrying never applies the callback twice: a nil means the database gained
   the writes of the last attempt, all of them and no other attempt's; any
   other end means it gained nothing, except that an error other than giving
   up may hide one commit whose reply was lost. *)
ExactlyOnce ==
  /\ result = "nil" => db = made
  /\ result = "error" => db \in {{}, made}
  /\ result \in {"gave up", "canceled", "panic", "badDelay"} => db = {}
  /\ result = "none" /\ pc # "decide" => db = {}

(* The callback runs at most Attempts times, at least once is counted even
   when Attempts is not positive, and giving up means all were used. *)
AttemptsCounted ==
  /\ tries <= Attempts
  /\ result = "gave up" => tries = Attempts
  /\ pc = "returned" => tries >= 1

(* "BaseDelay is the delay before the second attempt.  It doubles each time,
   up to MaxDelay" (tx.go, RetryPolicy): whatever the policy, no wait is drawn from
   another range.  The code doubles on past the cap, and panics when a Duration does
   not hold the doubled delay, or not the range that ends with it; it panics for
   no other reason, and never sleeps on what an overflow left. *)
BackoffDoublesToMax ==
  LET doubled == policy.base * PowerOfTwo[tries - 1]
      due == IF policy.max > 0 /\ doubled > policy.max THEN policy.max ELSE doubled
      held == doubled \in 0..(Half - 1)
  IN /\ pc = "waiting" => Capped = due
     /\ result = "badDelay" => ~held \/ due = Half - 1

(* "InTxRetry runs fn in a transaction, retrying when the engine reports a
   failure that a retry can fix: a serialization failure, a deadlock, or a locked
   SQLite database" (tx.go), whichever call of row met it and whatever text the
   callback put around it with %w; and nothing else is tried again.  Of the
   locked databases of SQLite the adapter leaves out a table locked in a shared
   cache (262) or by a virtual table (518), and takes a lock wait that ran out
   (773) for a timeout. *)
TransientReports ==
  [postgres |-> {"40001", "40P01", "55P03"},
   sqlite |-> {r \in Reports["sqlite"] : Primary(r) \in {5, 6}} \ {262, 518, 773}]

RetriesWhatHelps ==
  [][pc = "decide" =>
       LET transient == cause.report \in TransientReports[engine] IN
       /\ pc' = "backoff" \/ result' = "gave up" => transient
       /\ result' = "error" => ~(transient /\ cause.kept)]_vars

(* A context that is done ends the retrying, also when the timer of the backoff
   wins the select over it, or the engine's failure was one to retry: at most one
   more attempt is started, it does not come to the callback, the context's error
   passes for none to retry, and InTxRetry returns it with nothing written. *)
CancelEndsRetrying ==
  /\ late <= 1
  /\ late = 1 => made = {} /\ db = {} /\ result \in {"none", "error"}

(* Whatever fails, InTxRetry comes back. *)
Returns == <>(pc = "returned")
=============================================================================
