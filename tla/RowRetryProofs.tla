---------------------------- MODULE RowRetryProofs --------------------------
(***************************************************************************)
(* The promises of InTxRetry, proved for any retry policy, any callback    *)
(* and whatever the engines report.                                        *)
(*                                                                         *)
(* What the database holds follows from where the loop is (TxInv), how     *)
(* many attempts are left from the same (CountInv), and the error the loop *)
(* decides on still tells what the engine reported, as far as the callback *)
(* let it through (CauseInv).                                              *)
(***************************************************************************)
EXTENDS RowRetry, SequenceTheorems, WellFoundedInduction, TLAPS

(* The transaction of the attempt.  A commit whose reply was lost leaves writes
   behind an error, which is then none to retry. *)
TxInv ==
  /\ pc = "attempt" =>
       /\ db = {}
       /\ \/ status = "idle" /\ work = << >>
          \/ status = "running" /\ work = <<made>>
  /\ pc # "attempt" => status = "over" /\ work = << >>
  /\ pc = "decide" =>
       /\ last = Nil => db = made
       /\ last # Nil => db \in {{}, made}
       /\ WorthRetrying => db = {}
  /\ pc \in {"panicking", "backoff", "waiting"} => db = {}

(* An attempt is started only when there is one left. *)
CountInv ==
  /\ tries <= Attempts
  /\ pc = "attempt" /\ status = "idle" => tries < Attempts
  /\ pc \in {"backoff", "waiting"} => tries < Attempts
  /\ status # "idle" => tries >= 1

(* A report is taken for one to retry only if it is, and is not missed when the
   error kept it. *)
Tells(err, why) ==
  /\ Retryable(CodeOf(err)) => why.report \in TransientReports[engine]
  /\ why.kept /\ why.report \in TransientReports[engine] => Retryable(CodeOf(err))

CauseInv == pc = "decide" /\ last # Nil => Tells(last, cause)

(* How often the delay was doubled: once less than there were attempts, and once
   more when the wait is over. *)
Doublings == IF pc = "attempt" /\ status = "idle" THEN tries ELSE tries - 1

(* The delay is what the doublings make of it while a Duration holds that: nothing
   is doubled that is negative or overflowed, since rand.Int64N panics before. *)
DelayInv ==
  /\ Doublings > 0 => policy.base >= 0
  /\ policy.base * PowerOfTwo[Doublings] < Half
       => delay = policy.base * PowerOfTwo[Doublings]
  /\ policy.base * PowerOfTwo[Doublings] >= Half => delay < 0
  /\ pc = "waiting" => delay >= 0

PanicInv == result = "badDelay" => Signed(Capped + 1) <= 0

(* An attempt on a context that is done fails for good before the callback. *)
LateInv ==
  /\ ~canceled => late = 0
  /\ late <= 1
  /\ late = 1 =>
       /\ pc \in {"decide", "returned"}
       /\ made = {} /\ db = {}
       /\ last # Nil /\ ~Retryable(CodeOf(last))
       /\ result \in {"none", "error"}

IInv == TypeOK /\ TxInv /\ ExactlyOnce /\ CountInv /\ AttemptsCounted /\ CauseInv

-----------------------------------------------------------------------------
(* What the adapters make of a report: exactly the transient ones are worth
   another attempt. *)
LEMMA PrimaryCodes ==
  /\ \A r \in {5, 261, 517, 773} : Primary(r) = 5
  /\ \A r \in {6, 262, 518} : Primary(r) = 6
BY DEF Primary

LEMMA RetryableAreTransient ==
  ASSUME NEW e \in Engines, NEW r \in Reports[e]
  PROVE  Retryable(Recognise(e, r)) <=> r \in TransientReports[e]
<1>1. CASE e = "postgres"
  <2>1. Recognise(e, r) = ClassifySqlState(r)
    BY <1>1 DEF Recognise
  <2>2. TransientReports[e] = {"40001", "40P01", "55P03"}
    BY <1>1 DEF TransientReports
  <2> QED
    BY <2>1, <2>2 DEF ClassifySqlState, Retryable
<1>2. CASE e = "sqlite"
  <2>1. Recognise(e, r) = ClassifyResultCode(r)
    BY <1>2 DEF Recognise
  <2>2. r \in TransientReports[e] <=> Primary(r) \in {5, 6} /\ r \notin {262, 518, 773}
    BY <1>2 DEF TransientReports
  <2>3. Retryable(ClassifyResultCode(r)) <=> r \in {5, 261, 517, 6}
    BY DEF ClassifyResultCode, Retryable
  <2>4. Primary(r) \in {5, 6} => r \in {5, 261, 517, 773, 6, 262, 518}
    BY <1>2, ReportsAssumption
  <2> QED
    BY <2>1, <2>2, <2>3, <2>4, PrimaryCodes
<1> QED
  BY <1>1, <1>2 DEF Engines

LEMMA RecogniseType == \A e, r : Recognise(e, r) \in Codes
BY DEF Recognise, ClassifySqlState, ClassifyResultCode, Codes

-----------------------------------------------------------------------------
(* The way of an error from the driver to the decision. *)
WellFormed(err) == \A i \in DOMAIN err : err[i].kind = "row" => err[i].code \in Codes

(* Row's annotation is found where nothing or one text is in front of it. *)
LEMMA CodeInFront ==
  ASSUME NEW code \in Codes, NEW below, below.kind # "row"
  PROVE  /\ CodeOf(<<RowError(code), below>>) = code
         /\ WellFormed(<<RowError(code), below>>)
<1> DEFINE err == <<RowError(code), below>>
<1>1. /\ DOMAIN err = {1, 2} /\ err[1] = RowError(code) /\ err[2] = below
      /\ err[1].kind = "row" /\ err[1].code = code
  BY DEF RowError
<1> HIDE DEF err
<1>2. Has(err, "row")
  BY <1>1 DEF Has
<1>3. As(err, "row") = err[1]
  <2> DEFINE P(i) == err[i].kind = "row" /\ \A j \in DOMAIN err : err[j].kind = "row" => i <= j
  <2>1. \A i \in DOMAIN err : P(i) <=> i = 1
    BY <1>1
  <2>2. (CHOOSE i \in DOMAIN err : P(i)) = 1
    BY <1>1, <2>1
  <2> QED
    BY <2>2 DEF As
<1>4. CodeOf(err) = code /\ WellFormed(err)
  BY <1>1, <1>2, <1>3 DEF CodeOf, WellFormed
<1> QED
  BY <1>4 DEF err

LEMMA CodeBehindText ==
  ASSUME NEW code \in Codes, NEW below, below.kind # "row"
  PROVE  /\ CodeOf(<<Text, RowError(code), below>>) = code
         /\ WellFormed(<<Text, RowError(code), below>>)
<1> DEFINE err == <<Text, RowError(code), below>>
<1>1. /\ DOMAIN err = {1, 2, 3}
      /\ err[1] = Text /\ err[2] = RowError(code) /\ err[3] = below
      /\ err[1].kind # "row" /\ err[2].kind = "row" /\ err[2].code = code
  BY DEF RowError, Text
<1> HIDE DEF err
<1>2. Has(err, "row")
  BY <1>1 DEF Has
<1>3. As(err, "row") = err[2]
  <2> DEFINE P(i) == err[i].kind = "row" /\ \A j \in DOMAIN err : err[j].kind = "row" => i <= j
  <2>1. \A i \in DOMAIN err : P(i) <=> i = 2
    BY <1>1
  <2>2. (CHOOSE i \in DOMAIN err : P(i)) = 2
    BY <1>1, <2>1
  <2> QED
    BY <2>2 DEF As
<1>4. CodeOf(err) = code /\ WellFormed(err)
  BY <1>1, <1>2, <1>3 DEF CodeOf, WellFormed
<1> QED
  BY <1>4 DEF err

LEMMA CodeOfNothing ==
  ASSUME NEW err, \A i \in DOMAIN err : err[i].kind # "row"
  PROVE  CodeOf(err) = "Unknown" /\ WellFormed(err)
BY DEF CodeOf, Has, WellFormed

LEMMA Joined ==
  /\ \A a, b : <<a>> \o <<b>> = <<a, b>>
  /\ \A a, b, c : <<a>> \o <<b, c>> = <<a, b, c>>
<1>1. ASSUME NEW a, NEW b
      PROVE  <<a>> \o <<b>> = <<a, b>>
  <2> DEFINE S == {a, b}
  <2>1. <<a>> \in Seq(S) /\ <<b>> \in Seq(S) /\ <<a, b>> \in Seq(S)
    OBVIOUS
  <2> HIDE DEF S
  <2>2. /\ <<a>> \o <<b>> \in Seq(S) /\ Len(<<a>> \o <<b>>) = 2
        /\ (<<a>> \o <<b>>)[1] = a /\ (<<a>> \o <<b>>)[2] = b
    BY <2>1, ConcatProperties
  <2>3. /\ Len(<<a, b>>) = 2 /\ Len(<<a>> \o <<b>>) = Len(<<a, b>>)
        /\ \A i \in 1..Len(<<a>> \o <<b>>) : (<<a>> \o <<b>>)[i] = <<a, b>>[i]
    BY <2>2
  <2> QED
    BY <2>1, <2>2, <2>3, SeqEqual
<1>2. ASSUME NEW a, NEW b, NEW c
      PROVE  <<a>> \o <<b, c>> = <<a, b, c>>
  <2> DEFINE S == {a, b, c}
  <2>1. <<a>> \in Seq(S) /\ <<b, c>> \in Seq(S) /\ <<a, b, c>> \in Seq(S)
    OBVIOUS
  <2> HIDE DEF S
  <2>2. /\ <<a>> \o <<b, c>> \in Seq(S) /\ Len(<<a>> \o <<b, c>>) = 3
        /\ (<<a>> \o <<b, c>>)[1] = a /\ (<<a>> \o <<b, c>>)[2] = b
        /\ (<<a>> \o <<b, c>>)[3] = c
    BY <2>1, ConcatProperties
  <2>3. /\ Len(<<a, b, c>>) = 3 /\ Len(<<a>> \o <<b, c>>) = Len(<<a, b, c>>)
        /\ \A i \in 1..Len(<<a>> \o <<b, c>>) : (<<a>> \o <<b, c>>)[i] = <<a, b, c>>[i]
    BY <2>2
  <2> QED
    BY <2>1, <2>2, <2>3, SeqEqual
<1> QED
  BY <1>1, <1>2

(* The dialect is shown what the driver returned, one layer. *)
LEMMA WrapFact ==
  ASSUME NEW e \in Engines, NEW layer, layer.kind # "row"
  PROVE  Wrap(e, <<layer>>) =
           <<RowError(IF layer.kind = e THEN Recognise(e, layer.report) ELSE "Unknown"), layer>>
<1> DEFINE err == <<layer>>
<1>1. DOMAIN err = {1} /\ err[1] = layer
  OBVIOUS
<1>2. ~Has(err, "row") /\ (Has(err, e) <=> layer.kind = e)
  BY <1>1 DEF Has
<1>3. layer.kind = e => As(err, e) = layer
  <2> SUFFICES ASSUME layer.kind = e
               PROVE  As(err, e) = layer
    OBVIOUS
  <2> DEFINE P(i) == err[i].kind = e /\ \A j \in DOMAIN err : err[j].kind = e => i <= j
  <2>1. \A i \in DOMAIN err : P(i) <=> i = 1
    BY <1>1
  <2>2. (CHOOSE i \in DOMAIN err : P(i)) = 1
    BY <1>1, <2>1
  <2> QED
    BY <1>1, <2>2 DEF As
<1>4. ClassifyError(e, err) =
        IF layer.kind = e THEN Recognise(e, layer.report) ELSE "Unknown"
  BY <1>2, <1>3 DEF ClassifyError
<1> QED
  BY <1>2, <1>4, Joined DEF Wrap

(* A failure an attempt may end with. *)
Failing(f) ==
  /\ f.err # Nil
  /\ WellFormed(f.err)
  /\ f.cause.report \in Reports[engine] \cup {Nothing[engine]}
  /\ Tells(f.err, f.cause)

LEMMA AnnotatedFact ==
  ASSUME engine \in Engines, NEW r \in Reports[engine]
  PROVE  /\ Recognise(engine, r) \in Codes
         /\ Annotated(r) = <<RowError(Recognise(engine, r)), Reported(engine, r)>>
         /\ Reported(engine, r).kind = engine
         /\ Reported(engine, r).kind # "row"
<1>1. /\ Reported(engine, r).kind = engine /\ Reported(engine, r).report = r
      /\ Reported(engine, r).kind # "row"
  BY DEF Reported, Engines
<1> QED
  BY <1>1, WrapFact, RecogniseType DEF Annotated

LEMMA RowFailsFact ==
  ASSUME engine \in Engines
  PROVE  /\ Failing(RowFails)
         /\ ~Retryable(CodeOf(RowFails.err))
<1>1. Other.kind # "row" /\ Other.kind # engine
  BY DEF Other, Engines
<1>2. Wrap(engine, <<Other>>) = <<RowError("Unknown"), Other>>
  BY <1>1, WrapFact
<1>3. /\ CodeOf(<<RowError("Unknown"), Other>>) = "Unknown"
      /\ WellFormed(<<RowError("Unknown"), Other>>)
  BY <1>1, CodeInFront DEF Codes
<1>4. ~Retryable("Unknown")
  BY DEF Retryable
<1>5. /\ RowFails.err = <<RowError("Unknown"), Other>>
      /\ RowFails.cause.report = Nothing[engine] /\ RowFails.cause.kept = FALSE
  BY <1>2 DEF RowFails, Fail
<1> QED
  BY <1>3, <1>4, <1>5 DEF Failing, Tells, Nil

LEMMA EngineFailsFact ==
  ASSUME engine \in Engines, NEW f \in EngineFails
  PROVE  Failing(f)
<1>1. PICK r \in Reports[engine] : f = Fail(Annotated(r), r, TRUE)
  BY DEF EngineFails
<1>2. CodeOf(Annotated(r)) = Recognise(engine, r) /\ WellFormed(Annotated(r)) /\ Annotated(r) # Nil
  BY AnnotatedFact, CodeInFront DEF Nil
<1> QED
  BY <1>1, <1>2, RetryableAreTransient DEF Failing, Tells, Fail

LEMMA FnFailsFact ==
  ASSUME engine \in Engines, NEW f \in FnFails
  PROVE  Failing(f)
<1>1. ASSUME NEW err, err # Nil, \A i \in DOMAIN err : err[i].kind # "row",
             NEW r \in Reports[engine] \cup {Nothing[engine]}, f = Fail(err, r, FALSE)
      PROVE  Failing(f)
  BY <1>1, CodeOfNothing DEF Failing, Tells, Fail, Retryable
<1>2. <<Other>> # Nil /\ \A i \in DOMAIN <<Other>> : <<Other>>[i].kind # "row"
  BY DEF Other, Nil
<1>3. ASSUME NEW r \in Reports[engine] \cup {Nothing[engine]}, f = Fail(<<Other>>, r, FALSE)
      PROVE  Failing(f)
  BY <1>1, <1>2, <1>3
<1>4. ASSUME NEW r \in Reports[engine], f = Fail(<<Text, Reported(engine, r)>>, r, FALSE)
      PROVE  Failing(f)
  <2>1. Reported(engine, r).kind # "row" /\ Text.kind # "row"
    BY AnnotatedFact DEF Text
  <2> DEFINE err == <<Text, Reported(engine, r)>>
  <2>2. err # Nil /\ \A i \in DOMAIN err : err[i].kind # "row"
    BY <2>1 DEF Nil
  <2> QED
    BY <1>1, <1>4, <2>2
<1>5. ASSUME NEW r \in Reports[engine], f = Fail(<<Text>> \o Annotated(r), r, TRUE)
      PROVE  Failing(f)
  <2> DEFINE err == <<Text, RowError(Recognise(engine, r)), Reported(engine, r)>>
  <2>1. <<Text>> \o Annotated(r) = err
    BY AnnotatedFact, Joined
  <2>2. CodeOf(err) = Recognise(engine, r) /\ WellFormed(err) /\ err # Nil
    BY AnnotatedFact, CodeBehindText DEF Nil
  <2> QED
    BY <1>5, <2>1, <2>2, RetryableAreTransient DEF Failing, Tells, Fail
<1> QED
  BY <1>3, <1>4, <1>5, RowFailsFact, EngineFailsFact DEF FnFails

-----------------------------------------------------------------------------
LEMMA SignedFact == \A x \in Int : Signed(x) \in Durations
BY HalfAssumption DEF Signed, Durations

LEMMA PolicyFact ==
  ASSUME policy \in Policies
  PROVE  Attempts \in Int /\ Attempts >= 1 /\ policy.base \in Durations
BY PoliciesAssumption DEF Attempts

(* An attempt that is over leaves a failure, or the success of its commit. *)
LEMMA EndKeeps ==
  ASSUME IInv, pc = "attempt", status # "idle", NEW f, EndAttempt(f),
         status' = "over", work' = << >>,
         \/ f.err = Nil /\ f.cause = NoCause /\ db' = made
         \/ Failing(f) /\ db' \in {{}, made} /\ (Retryable(CodeOf(f.err)) => db' = {})
  PROVE  IInv'
<1>1. /\ pc' = "decide" /\ last' = f.err /\ cause' = f.cause
      /\ engine' = engine /\ policy' = policy /\ tries' = tries /\ delay' = delay
      /\ late' = late /\ result' = result /\ canceled' = canceled /\ made' = made
  BY DEF EndAttempt, loopVars
<1>2. WellFormed(f.err) /\ f.cause.report \in Reports[engine] \cup {Nothing[engine]}
  BY DEF Failing, WellFormed, NoCause, Nil
<1>3. TypeOK'
  <2>1. db' \in SUBSET (Nat \X Rows) /\ work' \in Seq(SUBSET made)
    BY DEF IInv, TypeOK
  <2> QED
    BY <1>1, <1>2, <2>1 DEF IInv, TypeOK, WellFormed
<1>4. TxInv' /\ ExactlyOnce'
  BY <1>1 DEF IInv, TypeOK, ExactlyOnce, TxInv, WorthRetrying, Failing
<1>5. CountInv' /\ AttemptsCounted'
  BY <1>1 DEF IInv, CountInv, AttemptsCounted, Attempts
<1>6. CauseInv'
  BY <1>1 DEF CauseInv, Failing, Tells
<1> QED
  BY <1>3, <1>4, <1>5, <1>6 DEF IInv

LEMMA Squeezed == \A m \in Nat, n \in Int : m <= n /\ m >= n => m = n
OBVIOUS

LEMMA ReturnKeeps ==
  ASSUME IInv, NEW how \in Results \ {"none"}, Return(how), status = "over",
         pc \notin {"attempt", "returned"},
         how = "nil" => db = made,
         how = "error" => db \in {{}, made},
         how \in {"gave up", "canceled", "panic", "badDelay"} => db = {},
         how = "gave up" => tries >= Attempts
  PROVE  IInv'
<1>1. /\ pc' = "returned" /\ result' = how
      /\ engine' = engine /\ policy' = policy /\ tries' = tries /\ delay' = delay
      /\ late' = late /\ last' = last /\ cause' = cause /\ canceled' = canceled /\ made' = made
      /\ status' = status /\ work' = work /\ db' = db
  BY DEF Return, loopVars, errVars, txVars
<1>2. TypeOK'
  BY <1>1 DEF IInv, TypeOK
<1>3. TxInv' /\ ExactlyOnce' /\ CauseInv'
  BY <1>1 DEF IInv, TxInv, ExactlyOnce, CauseInv
<1>4. CountInv' /\ AttemptsCounted'
  <2>1. tries \in Nat /\ Attempts \in Int /\ tries <= Attempts /\ tries >= 1
    BY PolicyFact DEF IInv, TypeOK, CountInv
  <2>2. tries >= Attempts => tries = Attempts
    BY <2>1, Squeezed
  <2>3. Attempts' = Attempts
    BY <1>1 DEF Attempts
  <2> QED
    BY <1>1, <2>1, <2>2, <2>3 DEF CountInv, AttemptsCounted
<1> QED
  BY <1>2, <1>3, <1>4 DEF IInv

-----------------------------------------------------------------------------
LEMMA InitHolds == Init => IInv
<1> SUFFICES ASSUME Init
             PROVE  IInv
  OBVIOUS
<1> USE DEF Init
<1>1. Attempts \in Int /\ Attempts >= 1 /\ policy.base \in Durations
  BY PolicyFact
<1>2. status = "idle" /\ work = << >> /\ db = {}
  BY DEF T!Init
<1>3. cause.report = Nothing[engine]
  BY DEF NoCause
<1>4. TypeOK
  <2>1. /\ made \in SUBSET (Nat \X Rows) /\ work \in Seq(SUBSET made)
        /\ db \in SUBSET (Nat \X Rows)
    BY <1>2
  <2>2. \A i \in DOMAIN last : last[i].kind = "row" => last[i].code \in Codes
    BY DEF Nil
  <2> QED
    BY <1>1, <1>2, <1>3, <2>1, <2>2 DEF TypeOK, Results
<1>5. TxInv /\ ExactlyOnce /\ CauseInv
  BY <1>2 DEF TxInv, ExactlyOnce, CauseInv
<1>6. CountInv /\ AttemptsCounted
  BY <1>1, <1>2 DEF CountInv, AttemptsCounted
<1> QED
  BY <1>4, <1>5, <1>6 DEF IInv

(* What the steps of the loop leave to be shown: the transaction they end is that
   of the attempt, and there is an attempt left when they start one. *)
LEMMA StepKeeps == IInv /\ [Next]_vars => IInv'
<1> SUFFICES ASSUME IInv, [Next]_vars
             PROVE  IInv'
  OBVIOUS
<1>1. /\ Attempts \in Int /\ Attempts >= 1 /\ tries \in Nat /\ engine \in Engines
      /\ tries <= Attempts
  BY PolicyFact DEF IInv, TypeOK, CountInv
<1>0. late' \in Nat
  <2>1. late \in Nat
    BY DEF IInv, TypeOK
  <2>2. late' = late \/ late' = late + 1
    BY DEF Next, Loop, AttemptBegins, AttemptRefused, Count, AttemptCommits, CommitReplyLost,
       AttemptAborts, FnPanics, FnWrites, EndAttempt, Succeed, PassOn, Repanic, GiveUp,
       TryAgain, DelayOverflows, Wait, WaitOver, WaitCanceled, Return, Cancel, loopVars, vars
  <2> QED
    BY <2>1, <2>2
<1>2. CASE AttemptBegins
  <2>1. /\ pc = "attempt" /\ status = "idle" /\ work = << >> /\ db = {}
        /\ status' = "running" /\ work' = <<{}>> /\ db' = {}
        /\ tries' = tries + 1 /\ made' = {} /\ pc' = "attempt"
        /\ engine' = engine /\ policy' = policy /\ delay' = delay
        /\ last' = last /\ cause' = cause /\ result' = result /\ canceled' = canceled
    BY <1>2 DEF AttemptBegins, Count, T!Start, errVars, IInv, TxInv
  <2>2. TypeOK'
    BY <1>0, <2>1 DEF IInv, TypeOK
  <2>3. TxInv' /\ ExactlyOnce' /\ CauseInv'
    BY <2>1 DEF IInv, TypeOK, TxInv, ExactlyOnce, CauseInv
  <2>4. tries < Attempts /\ Attempts' = Attempts
    BY <2>1 DEF IInv, CountInv, Attempts
  <2>5. tries' <= Attempts' /\ tries' >= 1
    BY <1>1, <2>1, <2>4
  <2>6. CountInv' /\ AttemptsCounted'
    BY <2>1, <2>5 DEF CountInv, AttemptsCounted, IInv, TypeOK
  <2> QED
    BY <2>2, <2>3, <2>6 DEF IInv
<1>3. CASE AttemptRefused
  <2>1. PICK f \in {RowFails} \cup IF canceled THEN {} ELSE EngineFails :
          last' = f.err /\ cause' = f.cause
    BY <1>3 DEF AttemptRefused
  <2>2. Failing(f)
    BY <1>1, <2>1, RowFailsFact, EngineFailsFact
  <2>3. /\ pc = "attempt" /\ status = "idle" /\ work = << >> /\ db = {}
        /\ status' = "over" /\ work' = << >> /\ db' = {}
        /\ tries' = tries + 1 /\ made' = {} /\ pc' = "decide"
        /\ engine' = engine /\ policy' = policy /\ delay' = delay
        /\ result' = result /\ canceled' = canceled
    BY <1>3 DEF AttemptRefused, Count, T!Refuse, T!End, IInv, TxInv
  <2>4. TypeOK'
    <3>1. work' \in Seq(SUBSET made') /\ db' \in SUBSET (Nat \X Rows) /\ made' \in SUBSET (Nat \X Rows)
      BY <2>3
    <3> QED
      BY <1>0, <1>1, <2>1, <2>2, <2>3, <3>1 DEF IInv, TypeOK, Failing, WellFormed
  <2>5. TxInv' /\ ExactlyOnce' /\ CauseInv'
    BY <2>1, <2>2, <2>3 DEF IInv, TypeOK, TxInv, ExactlyOnce, CauseInv, Failing, Tells
  <2>6. tries < Attempts /\ Attempts' = Attempts
    BY <2>3 DEF IInv, CountInv, Attempts
  <2>7. tries' <= Attempts' /\ tries' >= 1
    BY <1>1, <2>3, <2>6
  <2>8. CountInv' /\ AttemptsCounted'
    BY <2>3, <2>7 DEF CountInv, AttemptsCounted, IInv, TypeOK
  <2> QED
    BY <2>4, <2>5, <2>8 DEF IInv
<1>4. ASSUME NEW r \in Rows, FnWrites(r)
      PROVE  IInv'
  <2>1. /\ pc = "attempt" /\ status = "running" /\ work = <<made>>
        /\ made' = made \cup {<<tries, r>>}
        /\ work' = [work EXCEPT ![Len(work)] = @ \cup {<<tries, r>>}]
        /\ status' = status /\ db' = db /\ pc' = pc
        /\ engine' = engine /\ policy' = policy /\ tries' = tries /\ delay' = delay
        /\ last' = last /\ cause' = cause /\ result' = result /\ canceled' = canceled
    BY <1>4 DEF FnWrites, T!Do, T!Innermost, errVars, loopVars, IInv, TxInv
  <2>2. work' = <<made'>>
    <3>1. Len(work) = 1 /\ work[1] = made
      BY <2>1
    <3>2. work \in Seq({made})
      BY <2>1
    <3>3. work' \in Seq({made, made'}) /\ Len(work') = 1 /\ work'[1] = made'
      BY <2>1, <3>1, <3>2
    <3> QED
      BY <3>3
  <2>3. TypeOK'
    BY <1>0, <1>1, <2>1, <2>2 DEF IInv, TypeOK
  <2>4. TxInv' /\ ExactlyOnce' /\ CauseInv'
    BY <2>1, <2>2 DEF IInv, TypeOK, TxInv, ExactlyOnce, CauseInv
  <2>5. CountInv' /\ AttemptsCounted'
    BY <2>1 DEF IInv, CountInv, AttemptsCounted, Attempts
  <2> QED
    BY <2>3, <2>4, <2>5 DEF IInv
<1>5. CASE AttemptCommits \/ CommitReplyLost
  <2>1. /\ pc = "attempt" /\ status = "running" /\ work = <<made>> /\ db = {}
        /\ status' = "over" /\ work' = << >> /\ db' = db \cup work[1]
    BY <1>5 DEF AttemptCommits, CommitReplyLost, T!Commit, T!End, IInv, TxInv
  <2>2. db' = made
    BY <2>1
  <2>3. CASE AttemptCommits
    <3> DEFINE f == Fail(Nil, Nothing[engine], FALSE)
    <3>1. EndAttempt(f) /\ f.err = Nil /\ f.cause = NoCause
      BY <2>3 DEF AttemptCommits, Fail, NoCause
    <3> HIDE DEF f
    <3> QED
      BY <2>1, <2>2, <3>1, EndKeeps
  <2>4. CASE CommitReplyLost
    BY <1>1, <2>1, <2>2, <2>4, RowFailsFact, EndKeeps DEF CommitReplyLost
  <2> QED
    BY <1>5, <2>3, <2>4
<1>6. CASE AttemptAborts
  <2>1. PICK f \in FnFails : EndAttempt(f)
    BY <1>6 DEF AttemptAborts
  <2>2. /\ pc = "attempt" /\ status = "running" /\ db = {}
        /\ status' = "over" /\ work' = << >> /\ db' = {}
    BY <1>6 DEF AttemptAborts, T!Abort, T!End, IInv, TxInv
  <2> QED
    BY <1>1, <2>1, <2>2, FnFailsFact, EndKeeps
<1>7. CASE FnPanics
  <2>1. /\ pc = "attempt" /\ status = "running" /\ db = {}
        /\ status' = "over" /\ work' = << >> /\ db' = db /\ pc' = "panicking"
        /\ engine' = engine /\ policy' = policy /\ tries' = tries /\ delay' = delay
        /\ last' = last /\ cause' = cause /\ result' = result /\ canceled' = canceled
        /\ made' = made
    BY <1>7 DEF FnPanics, T!Abort, T!End, IInv, TxInv, errVars, loopVars
  <2>2. TypeOK'
    BY <1>0, <2>1 DEF IInv, TypeOK
  <2>3. TxInv' /\ ExactlyOnce' /\ CauseInv'
    BY <2>1 DEF IInv, TypeOK, TxInv, ExactlyOnce, CauseInv
  <2>4. CountInv' /\ AttemptsCounted'
    BY <2>1 DEF IInv, CountInv, AttemptsCounted, Attempts
  <2> QED
    BY <2>2, <2>3, <2>4 DEF IInv
<1>8. CASE Succeed
  BY <1>8, ReturnKeeps DEF Succeed, Results, IInv, TxInv
<1>9. CASE PassOn
  BY <1>9, ReturnKeeps DEF PassOn, Results, IInv, TxInv
<1>10. CASE Repanic
  BY <1>10, ReturnKeeps DEF Repanic, Results, IInv, TxInv
<1>11. CASE GiveUp
  BY <1>11, ReturnKeeps DEF GiveUp, Results, IInv, TxInv
<1>12. CASE DelayOverflows
  BY <1>12, ReturnKeeps DEF DelayOverflows, Results, IInv, TxInv
<1>13. CASE WaitCanceled
  BY <1>13, ReturnKeeps DEF WaitCanceled, Results, IInv, TxInv
<1>14. CASE TryAgain \/ Wait
  <2>1. /\ pc \in {"decide", "backoff"} /\ pc' \in {"backoff", "waiting"}
        /\ tries < Attempts /\ db = {}
        /\ engine' = engine /\ policy' = policy /\ tries' = tries /\ delay' = delay
        /\ last' = last /\ cause' = cause /\ result' = result /\ canceled' = canceled
        /\ made' = made /\ status' = status /\ work' = work /\ db' = db
    BY <1>14 DEF TryAgain, Wait, loopVars, errVars, txVars, IInv, TxInv, CountInv
  <2>2. TypeOK'
    BY <1>0, <2>1 DEF IInv, TypeOK
  <2>3. TxInv' /\ ExactlyOnce' /\ CauseInv'
    BY <2>1 DEF IInv, TypeOK, TxInv, ExactlyOnce, CauseInv
  <2>4. CountInv' /\ AttemptsCounted'
    BY <2>1 DEF IInv, CountInv, AttemptsCounted, Attempts
  <2> QED
    BY <2>2, <2>3, <2>4 DEF IInv
<1>15. CASE WaitOver
  <2>1. /\ pc = "waiting" /\ pc' = "attempt" /\ status' = "idle" /\ work = << >>
        /\ tries < Attempts /\ db = {} /\ delay' = Signed(delay * 2)
        /\ engine' = engine /\ policy' = policy /\ tries' = tries
        /\ last' = last /\ cause' = cause /\ result' = result /\ canceled' = canceled
        /\ made' = made /\ work' = work /\ db' = db
    BY <1>15 DEF WaitOver, errVars, IInv, TxInv, CountInv
  <2>2. delay' \in Durations
    <3>1. delay * 2 \in Int
      BY HalfAssumption DEF IInv, TypeOK, Durations
    <3> QED
      BY <2>1, <3>1, SignedFact
  <2>3. TypeOK'
    BY <1>0, <2>1, <2>2 DEF IInv, TypeOK
  <2>4. TxInv' /\ ExactlyOnce' /\ CauseInv'
    BY <2>1 DEF IInv, TypeOK, TxInv, ExactlyOnce, CauseInv
  <2>5. CountInv' /\ AttemptsCounted'
    BY <2>1 DEF IInv, CountInv, AttemptsCounted, Attempts
  <2> QED
    BY <2>3, <2>4, <2>5 DEF IInv
<1>16. CASE Cancel \/ UNCHANGED vars
  <2>1. /\ engine' = engine /\ policy' = policy /\ tries' = tries /\ delay' = delay
        /\ pc' = pc /\ last' = last /\ cause' = cause /\ result' = result
        /\ made' = made /\ status' = status /\ work' = work /\ db' = db
        /\ canceled' \in BOOLEAN
    BY <1>16 DEF Cancel, vars, loopVars, errVars, txVars, IInv, TypeOK
  <2>2. TypeOK'
    BY <1>0, <2>1 DEF IInv, TypeOK
  <2>3. TxInv' /\ ExactlyOnce'
    BY <2>1 DEF IInv, TxInv, ExactlyOnce, WorthRetrying
  <2>4. CauseInv'
    BY <2>1 DEF IInv, CauseInv, Tells
  <2>5. CountInv' /\ AttemptsCounted'
    BY <2>1 DEF IInv, CountInv, AttemptsCounted, Attempts
  <2> QED
    BY <2>2, <2>3, <2>4, <2>5 DEF IInv
<1> QED
  BY <1>2, <1>3, <1>4, <1>5, <1>6, <1>7, <1>8, <1>9, <1>10, <1>11, <1>12, <1>13,
     <1>14, <1>15, <1>16 DEF Next, Loop

-----------------------------------------------------------------------------
(* The inductive invariant of the loop of InTxRetry: what the database holds, the
   attempts left, and the error it decides on. *)
THEOREM Invariant == Spec => []IInv
BY InitHolds, StepKeeps, PTL DEF Spec

(* TypeOK, for any policies, callbacks and reports. *)
THEOREM TypeCorrect == Spec => []TypeOK
BY Invariant, PTL DEF IInv

(* ExactlyOnce: whatever fails, is cancelled, panics or loses its reply, InTxRetry
   leaves the writes of one attempt or of none, as its result says. *)
THEOREM AppliedAtMostOnce == Spec => []ExactlyOnce
BY Invariant, PTL DEF IInv

(* AttemptsCounted: the loop of InTxRetry respects Attempts of the policy. *)
THEOREM AttemptsBounded == Spec => []AttemptsCounted
BY Invariant, PTL DEF IInv

(* RetriesWhatHelps: through every layer row and the callback put around it, a
   report decides whether there is another attempt. *)
THEOREM TransientRetried == Spec => RetriesWhatHelps
<1> DEFINE transient == cause.report \in TransientReports[engine]
           Decides == pc = "decide" =>
             /\ pc' = "backoff" \/ result' = "gave up" => transient
             /\ result' = "error" => ~(transient /\ cause.kept)
<1>1. IInv /\ [Next]_vars => [Decides]_vars
  <2> SUFFICES ASSUME IInv, Next, pc = "decide"
               PROVE  /\ pc' = "backoff" \/ result' = "gave up" => transient
                      /\ result' = "error" => ~(transient /\ cause.kept)
    OBVIOUS
  <2>1. result = "none" /\ (last # Nil => Tells(last, cause))
    BY DEF IInv, TypeOK, CauseInv
  <2>2. \/ Succeed \/ PassOn \/ GiveUp \/ TryAgain \/ Cancel
    BY DEF Next, Loop, AttemptBegins, AttemptRefused, AttemptCommits, CommitReplyLost,
       AttemptAborts, FnPanics, FnWrites, Repanic, DelayOverflows, Wait, WaitOver, WaitCanceled
  <2>3. CASE Succeed
    BY <2>3 DEF Succeed, Return
  <2>4. CASE PassOn
    BY <2>1, <2>4 DEF PassOn, Return, Tells
  <2>5. CASE GiveUp \/ TryAgain
    BY <2>1, <2>5 DEF GiveUp, TryAgain, Return, Tells, WorthRetrying
  <2>6. CASE Cancel
    BY <2>1, <2>6 DEF Cancel
  <2> QED
    BY <2>2, <2>3, <2>4, <2>5, <2>6
<1>2. RetriesWhatHelps <=> [][Decides]_vars
  BY DEF RetriesWhatHelps
<1> QED
  BY <1>1, <1>2, Invariant, PTL DEF Spec

LEMMA LateStep == IInv /\ LateInv /\ [Next]_vars => LateInv'
<1> SUFFICES ASSUME IInv, LateInv, [Next]_vars
             PROVE  LateInv'
  OBVIOUS
<1>1. late \in Nat /\ engine \in Engines
  BY DEF IInv, TypeOK
<1>2. CASE AttemptBegins
  BY <1>1, <1>2 DEF AttemptBegins, Count, LateInv
<1>3. CASE AttemptRefused
  <2>1. /\ pc = "attempt" /\ made' = {} /\ db' = {} /\ pc' = "decide"
        /\ result' = "none" /\ canceled' = canceled
        /\ late' = IF canceled THEN late + 1 ELSE late
    BY <1>3 DEF AttemptRefused, Count, T!Refuse, T!End, IInv, TypeOK, TxInv
  <2>2. late = 0
    BY <1>1, <2>1 DEF LateInv
  <2>3. canceled => last' # Nil /\ ~Retryable(CodeOf(last'))
    BY <1>1, <1>3, RowFailsFact DEF AttemptRefused, Failing
  <2> QED
    BY <2>1, <2>2, <2>3 DEF LateInv
<1>4. CASE AttemptCommits \/ CommitReplyLost \/ AttemptAborts \/ FnPanics
            \/ \E r \in Rows : FnWrites(r)
  <2>1. pc = "attempt" /\ late' = late /\ canceled' = canceled
    BY <1>4 DEF AttemptCommits, CommitReplyLost, AttemptAborts, FnPanics, FnWrites,
       EndAttempt, loopVars
  <2> QED
    BY <1>1, <2>1 DEF LateInv
<1>5. CASE PassOn
  BY <1>5 DEF PassOn, Return, loopVars, errVars, txVars, LateInv
<1>6. CASE Succeed \/ Repanic \/ GiveUp \/ TryAgain \/ DelayOverflows \/ Wait \/ WaitOver
            \/ WaitCanceled
  <2>1. late' = late /\ canceled' = canceled /\ late # 1
    BY <1>6 DEF Succeed, Repanic, GiveUp, TryAgain, DelayOverflows, Wait, WaitOver,
       WaitCanceled, WorthRetrying, Return, loopVars, LateInv
  <2> QED
    BY <1>1, <2>1 DEF LateInv
<1>7. CASE Cancel \/ UNCHANGED vars
  <2>1. /\ late' = late /\ pc' = pc /\ made' = made /\ db' = db /\ last' = last
        /\ result' = result /\ (canceled' = FALSE => canceled = FALSE)
    BY <1>7 DEF Cancel, vars, loopVars, errVars, txVars
  <2> QED
    BY <1>1, <2>1 DEF LateInv
<1> QED
  BY <1>2, <1>3, <1>4, <1>5, <1>6, <1>7 DEF Next, Loop

(* CancelEndsRetrying: a context that is done lets InTxRetry start one more attempt
   at most, which fails for good without a write. *)
THEOREM CancelStopsRetrying == Spec => []CancelEndsRetrying
<1>1. Init => LateInv
  BY DEF Init, LateInv
<1>2. LateInv => CancelEndsRetrying
  BY DEF LateInv, CancelEndsRetrying
<1> QED
  BY <1>1, <1>2, Invariant, InitHolds, StepKeeps, LateStep, PTL DEF Spec

-----------------------------------------------------------------------------
(* Induction over the natural numbers, for a set that holds 0 and n + 1 with n. *)
LEMMA SetInduction ==
  ASSUME NEW S, 0 \in S, \A n \in Nat : n \in S => n + 1 \in S
  PROVE  Nat \subseteq S
<1> SUFFICES ASSUME Nat \ S # {}
             PROVE  FALSE
  OBVIOUS
<1> DEFINE R == OpToRel(<, Nat)
<1>1. IsWellFoundedOn(R, Nat)
  BY NatLessThanWellFounded
<1>2. \A x, y \in Nat : x < y => <<x, y>> \in R
  BY DEF OpToRel
<1> HIDE DEF R
<1>3. PICK m \in Nat \ S : \A y \in Nat \ S : ~(<<y, m>> \in R)
  <2>1. Nat \ S \subseteq Nat
    OBVIOUS
  <2> QED
    BY <1>1, <2>1, WFMin
<1>4. m - 1 \in Nat /\ m - 1 < m /\ (m - 1) + 1 = m
  BY <1>3
<1>5. m - 1 \in S
  BY <1>2, <1>3, <1>4
<1> QED
  BY <1>3, <1>4, <1>5

(* g lists the powers of two from the 0th to the n-th. *)
Powers(g, n) ==
  g \in [0..n -> Nat] /\ \A k \in 0..n : g[k] = IF k = 0 THEN 1 ELSE 2 * g[k - 1]

LEMMA PowersExist == \A n \in Nat : \E g : Powers(g, n)
<1> DEFINE S == {n \in Nat : \E g : Powers(g, n)}
<1>1. 0 \in S
  <2>1. Powers([k \in 0..0 |-> 1], 0)
    BY DEF Powers
  <2> QED
    BY <2>1
<1>2. ASSUME NEW n \in Nat, n \in S
      PROVE  n + 1 \in S
  <2>1. PICK g : Powers(g, n)
    BY <1>2
  <2> DEFINE h == [k \in 0..(n + 1) |-> IF k = n + 1 THEN 2 * g[n] ELSE g[k]]
  <2>2. Powers(h, n + 1)
    BY <2>1 DEF Powers
  <2> HIDE DEF h
  <2> QED
    BY <2>2
<1> HIDE DEF S
<1>3. Nat \subseteq S
  BY <1>1, <1>2, SetInduction
<1> QED
  BY <1>3 DEF S

(* Two such lists agree on what both hold. *)
LEMMA PowersAgree ==
  ASSUME NEW t, \A n \in Nat : Powers(t[n], n)
  PROVE  \A n, k \in Nat : k <= n => t[n][k] = t[k][k]
<1> DEFINE S == {k \in Nat : \A m \in Nat : k <= m => t[m][k] = t[k][k]}
<1>1. 0 \in S
  BY DEF Powers
<1>2. ASSUME NEW k \in Nat, k \in S
      PROVE  k + 1 \in S
  <2>1. ASSUME NEW m \in Nat, k + 1 <= m
        PROVE  t[m][k + 1] = t[k + 1][k + 1]
    <3>1. /\ k <= m /\ k <= k + 1 /\ k + 1 \in 0..m /\ k + 1 \in 0..(k + 1)
          /\ (k + 1) - 1 = k
      BY <2>1
    <3>2. t[m][k + 1] = 2 * t[m][k]
      BY <3>1 DEF Powers
    <3>3. t[k + 1][k + 1] = 2 * t[k + 1][k]
      BY <3>1 DEF Powers
    <3> QED
      BY <1>2, <3>1, <3>2, <3>3
  <2> QED
    BY <2>1
<1> HIDE DEF S
<1>3. Nat \subseteq S
  BY <1>1, <1>2, SetInduction
<1> QED
  BY <1>3 DEF S

(* The recursive function is defined, and is what its definition says. *)
LEMMA PowerOfTwoFact ==
  /\ PowerOfTwo[0] = 1
  /\ \A n \in Nat : PowerOfTwo[n] \in Nat /\ PowerOfTwo[n + 1] = 2 * PowerOfTwo[n]
<1> DEFINE F(f) == [n \in Nat |-> IF n = 0 THEN 1 ELSE 2 * f[n - 1]]
           t == [n \in Nat |-> CHOOSE g : Powers(g, n)]
           f == [n \in Nat |-> t[n][n]]
<1>1. \A n \in Nat : Powers(t[n], n)
  BY PowersExist
<1> HIDE DEF t
<1>2. \A n \in Nat : f[n] = IF n = 0 THEN 1 ELSE 2 * f[n - 1]
  <2> TAKE n \in Nat
  <2>1. CASE n = 0
    BY <1>1, <2>1 DEF Powers
  <2>2. CASE n # 0
    <3>1. n - 1 \in Nat /\ n - 1 <= n /\ n \in 0..n
      BY <2>2
    <3>2. t[n][n] = 2 * t[n][n - 1]
      BY <1>1, <2>2, <3>1 DEF Powers
    <3>3. t[n][n - 1] = t[n - 1][n - 1]
      BY <1>1, <3>1, PowersAgree
    <3> QED
      BY <2>2, <3>1, <3>2, <3>3
  <2> QED
    BY <2>1, <2>2
<1>3. f = F(f)
  BY <1>2
<1> HIDE DEF f
<1>4. PowerOfTwo = F(PowerOfTwo)
  <2>1. PowerOfTwo = CHOOSE p : p = F(p)
    BY DEF PowerOfTwo
  <2> QED
    BY <1>3, <2>1
<1> HIDE DEF F
<1>5. \A n \in Nat : PowerOfTwo[n] = IF n = 0 THEN 1 ELSE 2 * PowerOfTwo[n - 1]
  BY <1>4 DEF F
<1>6. \A n \in Nat : PowerOfTwo[n + 1] = 2 * PowerOfTwo[n]
  <2> TAKE n \in Nat
  <2>1. n + 1 \in Nat /\ n + 1 # 0 /\ (n + 1) - 1 = n
    OBVIOUS
  <2> QED
    BY <1>5, <2>1
<1>7. \A n \in Nat : PowerOfTwo[n] \in Nat
  <2> DEFINE S == {k \in Nat : PowerOfTwo[k] \in Nat}
  <2>1. 0 \in S
    BY <1>5
  <2>2. ASSUME NEW k \in Nat, k \in S
        PROVE  k + 1 \in S
    BY <1>6, <2>2
  <2> HIDE DEF S
  <2>3. Nat \subseteq S
    BY <2>1, <2>2, SetInduction
  <2> QED
    BY <2>3 DEF S
<1> QED
  BY <1>5, <1>6, <1>7

(* A number that a Duration holds is what it is, the next ones are negative. *)
LEMMA Remainder ==
  /\ \A m \in Nat, x \in Nat : x < m => x % m = x
  /\ \A m \in Nat \ {0}, x \in Nat : x < m => (m + x) % m = x
OBVIOUS

LEMMA SignedValue ==
  /\ \A x \in Durations : Signed(x) = x
  /\ \A x \in Int : Half <= x /\ x < 2 * Half => Signed(x) < 0
<1>1. Half \in Nat \ {0} /\ 2 * Half \in Nat \ {0} /\ Half + Half = 2 * Half
  BY HalfAssumption
<1>2. ASSUME NEW x \in Durations
      PROVE  Signed(x) = x
  <2>1. x \in Int /\ x + Half \in Nat /\ x + Half < 2 * Half
    BY <1>1 DEF Durations
  <2>2. (x + Half) % (2 * Half) = x + Half
    BY <1>1, <2>1, Remainder
  <2> QED
    BY <1>1, <2>1, <2>2 DEF Signed
<1>3. ASSUME NEW x \in Int, Half <= x, x < 2 * Half
      PROVE  Signed(x) < 0
  <2>1. x - Half \in Nat /\ x - Half < 2 * Half /\ x + Half = 2 * Half + (x - Half)
    BY <1>1, <1>3
  <2>2. (2 * Half + (x - Half)) % (2 * Half) = x - Half
    BY <1>1, <2>1, Remainder
  <2>3. Signed(x) = (x - Half) - Half
    BY <2>1, <2>2 DEF Signed
  <2> QED
    BY <1>1, <1>3, <2>3
<1> QED
  BY <1>2, <1>3

(* rand.Int64N takes no delay that is negative. *)
LEMMA WaitsForward ==
  ASSUME TypeOK, Signed(Capped + 1) > 0
  PROVE  delay >= 0
<1>1. /\ Half \in Nat \ {0} /\ delay \in Durations /\ policy.max \in Durations
  BY HalfAssumption, PoliciesAssumption DEF TypeOK
<1>2. Capped \in Durations
  BY <1>1 DEF Capped
<1>3. Capped + 1 \in Int /\ (Capped + 1 \in Durations \/ (Half <= Capped + 1 /\ Capped + 1 < 2 * Half))
  BY <1>1, <1>2 DEF Durations
<1>4. Signed(Capped + 1) = Capped + 1 \/ Signed(Capped + 1) < 0
  BY <1>3, SignedValue
<1>5. Capped + 1 > 0
  <2>1. Signed(Capped + 1) \in Int
    BY <1>3, SignedFact DEF Durations
  <2> QED
    BY <1>4, <2>1
<1> QED
  BY <1>1, <1>2, <1>5 DEF Capped, Durations

LEMMA TimesTwo == \A a, b \in Int : a * (2 * b) = 2 * (a * b)
OBVIOUS

LEMMA TimesType == \A a \in Int, b \in Nat : a * b \in Int /\ (a >= 0 => a * b >= 0)
OBVIOUS

(* Every other step leaves the delay and the number of its doublings. *)
LEMMA OnlyWaitDoubles ==
  ASSUME IInv, Next, ~WaitOver
  PROVE  /\ delay' = delay /\ policy' = policy /\ Doublings' = Doublings
         /\ pc' = "waiting" => pc = "waiting" \/ (pc = "backoff" /\ Signed(Capped + 1) > 0)
<1>1. tries \in Nat /\ (pc # "attempt" => status = "over")
  BY DEF IInv, TypeOK, TxInv
<1>2. CASE AttemptBegins \/ AttemptRefused
  <2>1. /\ tries' = tries + 1 /\ pc = "attempt" /\ status = "idle" /\ status' # "idle"
        /\ delay' = delay /\ policy' = policy /\ pc' # "waiting"
    BY <1>2 DEF AttemptBegins, AttemptRefused, Count, T!Start, T!Refuse, T!End
  <2> QED
    BY <1>1, <2>1 DEF Doublings
<1>3. CASE AttemptCommits \/ CommitReplyLost \/ AttemptAborts \/ FnPanics
            \/ \E r \in Rows : FnWrites(r)
  <2>1. /\ tries' = tries /\ status = "running" /\ status' # "idle"
        /\ delay' = delay /\ policy' = policy /\ pc' # "waiting"
    BY <1>3 DEF AttemptCommits, CommitReplyLost, AttemptAborts, FnPanics, FnWrites,
       EndAttempt, loopVars, T!Commit, T!Abort, T!Do, T!End
  <2> QED
    BY <2>1 DEF Doublings
<1>4. CASE Succeed \/ PassOn \/ Repanic \/ GiveUp \/ TryAgain \/ DelayOverflows \/ Wait
            \/ WaitCanceled
  <2>1. /\ tries' = tries /\ status' = status /\ pc # "attempt" /\ pc' # "attempt"
        /\ delay' = delay /\ policy' = policy
    BY <1>4 DEF Succeed, PassOn, Repanic, GiveUp, TryAgain, DelayOverflows, Wait,
       WaitCanceled, Return, loopVars, txVars
  <2>2. pc' = "waiting" => pc = "backoff" /\ Signed(Capped + 1) > 0
    BY <1>4 DEF Succeed, PassOn, Repanic, GiveUp, TryAgain, DelayOverflows, Wait,
       WaitCanceled, Return
  <2> QED
    BY <2>1, <2>2 DEF Doublings
<1>5. CASE Cancel
  BY <1>5 DEF Cancel, Doublings, loopVars, txVars
<1> QED
  BY <1>2, <1>3, <1>4, <1>5 DEF Next, Loop

LEMMA DelayStep == IInv /\ DelayInv /\ [Next]_vars => DelayInv'
<1> SUFFICES ASSUME IInv, DelayInv, [Next]_vars
             PROVE  DelayInv'
  OBVIOUS
<1>1. CASE UNCHANGED vars
  BY <1>1 DEF vars, loopVars, txVars, DelayInv, Doublings
<1>2. CASE Next /\ ~WaitOver
  <2>1. /\ delay' = delay /\ policy' = policy /\ Doublings' = Doublings
        /\ pc' = "waiting" => pc = "waiting" \/ (pc = "backoff" /\ Signed(Capped + 1) > 0)
    BY <1>2, OnlyWaitDoubles
  <2>2. pc' = "waiting" => delay' >= 0
    BY <2>1, WaitsForward DEF DelayInv, IInv
  <2> QED
    BY <2>1, <2>2 DEF DelayInv
<1>3. CASE WaitOver
  <2>1. /\ pc = "waiting" /\ pc' = "attempt" /\ status' = "idle" /\ delay >= 0
        /\ tries' = tries /\ policy' = policy /\ delay' = Signed(delay * 2)
    BY <1>3 DEF WaitOver, DelayInv
  <2> DEFINE k == tries - 1
             base == policy.base
  <2>2. /\ tries \in Nat /\ tries >= 1 /\ k \in Nat /\ k + 1 = tries
        /\ base \in Int /\ delay \in Durations /\ Half \in Nat \ {0} /\ delay \in Int
    BY <2>1, HalfAssumption, PoliciesAssumption DEF IInv, TypeOK, CountInv, TxInv, Durations
  <2>3. Doublings = k /\ Doublings' = k + 1
    BY <2>1, <2>2 DEF Doublings
  <2>4. /\ PowerOfTwo[k] \in Nat /\ PowerOfTwo[k + 1] = 2 * PowerOfTwo[k]
        /\ PowerOfTwo[0] = 1
    BY <2>2, PowerOfTwoFact
  <2>5. base >= 0
    <3>1. CASE k = 0
      <4>1. base * PowerOfTwo[0] = base /\ base < Half
        BY <2>2, <2>4, PoliciesAssumption DEF IInv, TypeOK, Durations
      <4> QED
        BY <2>1, <2>3, <3>1, <4>1 DEF DelayInv
    <3>2. CASE k # 0
      BY <2>2, <2>3, <3>2 DEF DelayInv
    <3> QED
      BY <3>1, <3>2
  <2> DEFINE reached == base * PowerOfTwo[k]
             next == base * PowerOfTwo[k + 1]
  <2>6. reached \in Int /\ reached >= 0 /\ next = 2 * reached
    BY <2>2, <2>4, <2>5, TimesTwo, TimesType
  <2>7. reached < Half /\ delay = reached
    <3>1. reached >= Half => delay < 0
      BY <2>3 DEF DelayInv
    <3>2. reached < Half => delay = reached
      BY <2>3 DEF DelayInv
    <3> QED
      BY <2>1, <2>2, <2>6, <3>1, <3>2
  <2> HIDE DEF reached, next
  <2>8. ASSUME next < Half
        PROVE  delay' = next
    <3>1. delay = reached /\ delay * 2 = next
      BY <2>2, <2>6, <2>7, <2>8
    <3>2. delay * 2 \in Durations
      BY <2>1, <2>2, <2>6, <2>8, <3>1 DEF Durations
    <3> QED
      BY <2>1, <3>1, <3>2, SignedValue
  <2>9. ASSUME next >= Half
        PROVE  delay' < 0
    <3>1. delay * 2 = next /\ next \in Int /\ next < 2 * Half
      BY <2>2, <2>6, <2>7
    <3>2. Signed(next) < 0
      BY <2>9, <3>1, SignedValue
    <3> QED
      BY <2>1, <3>1, <3>2
  <2>10. policy'.base * PowerOfTwo[Doublings'] = next
    BY <2>1, <2>3 DEF next
  <2> QED
    BY <2>1, <2>5, <2>8, <2>9, <2>10 DEF DelayInv
<1> QED
  BY <1>1, <1>2, <1>3

(* A range that ends with a delay and its cap is refused only when none holds it. *)
LEMMA CappedFact ==
  ASSUME NEW d \in Int, 0 <= d, d < Half, NEW m \in Durations,
         Signed((IF m > 0 /\ d > m THEN m ELSE d) + 1) <= 0
  PROVE  (IF m > 0 /\ d > m THEN m ELSE d) = Half - 1
<1> DEFINE c == IF m > 0 /\ d > m THEN m ELSE d
<1>1. Half \in Nat /\ m \in Int /\ m < Half
  BY HalfAssumption DEF Durations
<1>2. c \in Int /\ 0 <= c /\ c < Half
  BY <1>1
<1> HIDE DEF c
<1>3. c + 1 < Half => Signed(c + 1) = c + 1
  BY <1>1, <1>2, SignedValue DEF Durations
<1>4. Signed(c + 1) <= 0
  BY DEF c
<1>5. c = Half - 1
  BY <1>1, <1>2, <1>3, <1>4
<1> QED
  BY <1>5 DEF c

LEMMA PanicStep == IInv /\ PanicInv /\ [Next]_vars => PanicInv'
<1> SUFFICES ASSUME IInv, PanicInv, [Next]_vars
             PROVE  PanicInv'
  OBVIOUS
<1>1. CASE UNCHANGED vars
  BY <1>1 DEF vars, loopVars, PanicInv, Capped
<1>2. CASE DelayOverflows
  BY <1>2 DEF DelayOverflows, Return, loopVars, PanicInv, Capped
<1>3. CASE Next /\ ~DelayOverflows
  <2>1. pc # "returned" => result = "none"
    BY DEF IInv, TypeOK
  <2>2. result' # "badDelay"
    BY <1>3, <2>1 DEF Next, Loop, AttemptBegins, AttemptRefused, AttemptCommits,
       CommitReplyLost, AttemptAborts, FnPanics, FnWrites, EndAttempt, Succeed, PassOn,
       Repanic, GiveUp, TryAgain, Wait, WaitOver, WaitCanceled, Return, Cancel
  <2> QED
    BY <2>2 DEF PanicInv
<1> QED
  BY <1>1, <1>2, <1>3

(* BackoffDoublesToMax: the delays of InTxRetry double from BaseDelay up to MaxDelay,
   for any policy, and only a delay or a range that no Duration holds makes it panic
   instead. *)
THEOREM BackoffGrows == Spec => []BackoffDoublesToMax
<1>1. Init => DelayInv /\ PanicInv
  <2> SUFFICES ASSUME Init
               PROVE  DelayInv /\ PanicInv
    OBVIOUS
  <2>1. /\ Doublings = 0 /\ delay = policy.base /\ pc = "attempt" /\ result = "none"
        /\ policy.base \in Int /\ policy.base < Half /\ Half \in Nat
    BY HalfAssumption, PoliciesAssumption DEF Init, T!Init, Doublings, Durations
  <2>2. policy.base * PowerOfTwo[Doublings] = policy.base
    BY <2>1, PowerOfTwoFact
  <2> QED
    BY <2>1, <2>2 DEF DelayInv, PanicInv
<1>2. IInv /\ DelayInv /\ PanicInv => BackoffDoublesToMax
  <2> SUFFICES ASSUME IInv, DelayInv, PanicInv, pc = "waiting" \/ result = "badDelay"
               PROVE  BackoffDoublesToMax
    BY DEF BackoffDoublesToMax
  <2>1. /\ tries \in Nat /\ tries >= 1 /\ tries - 1 \in Nat /\ pc # "attempt"
        /\ Half \in Nat \ {0} /\ delay \in Durations
        /\ policy.base \in Int /\ policy.max \in Durations
    <3>1. tries \in Nat /\ policy \in Policies /\ delay \in Durations
      BY DEF IInv, TypeOK
    <3>2. pc # "attempt"
      BY DEF IInv, TypeOK
    <3>3. tries >= 1
      BY <3>2 DEF IInv, TxInv, CountInv
    <3>4. /\ policy.base \in Durations /\ policy.max \in Durations
      BY <3>1, PoliciesAssumption
    <3>5. tries - 1 \in Nat
      BY <3>1, <3>3
    <3>6. policy.base \in Int
      BY <3>4, HalfAssumption DEF Durations
    <3> QED
      BY <3>1, <3>2, <3>3, <3>4, <3>5, <3>6, HalfAssumption
  <2> DEFINE doubled == policy.base * PowerOfTwo[tries - 1]
             due == IF policy.max > 0 /\ doubled > policy.max THEN policy.max ELSE doubled
  <2>2. doubled \in Int
    BY <2>1, PowerOfTwoFact, TimesType
  <2>3. /\ doubled < Half => delay = doubled
        /\ doubled >= Half => delay < 0
        /\ pc = "waiting" => delay >= 0
    BY <2>1 DEF DelayInv, Doublings
  <2>4. result = "badDelay" => Signed(Capped + 1) <= 0
    BY DEF PanicInv
  <2>5. BackoffDoublesToMax <=>
          /\ pc = "waiting" => Capped = due
          /\ result = "badDelay" => ~(doubled \in 0..(Half - 1)) \/ due = Half - 1
    BY DEF BackoffDoublesToMax
  <2> HIDE DEF doubled
  <2>6. doubled < Half => Capped = due
    BY <2>3 DEF Capped
  <2>7. pc = "waiting" => Capped = due
    BY <2>1, <2>2, <2>3, <2>6 DEF Durations
  <2> HIDE DEF due
  <2>8. ASSUME result = "badDelay", doubled \in 0..(Half - 1)
        PROVE  due = Half - 1
    <3>1. doubled \in Int /\ 0 <= doubled /\ doubled < Half
      BY <2>1, <2>2, <2>8
    <3>2. Signed(due + 1) <= 0
      BY <2>4, <2>6, <2>8, <3>1
    <3> QED
      BY <2>1, <3>1, <3>2, CappedFact DEF due
  <2> QED
    BY <2>5, <2>7, <2>8
<1> QED
  BY <1>1, <1>2, Invariant, InitHolds, StepKeeps, DelayStep, PanicStep, PTL DEF Spec
=============================================================================
