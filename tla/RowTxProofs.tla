----------------------------- MODULE RowTxProofs ----------------------------
(***************************************************************************)
(* The promises of InTx, proved for any number of writes and calls, any    *)
(* engine of the two kinds and any use of contexts.                        *)
(*                                                                         *)
(* None of them is inductive by itself.  AtomicOutcome needs to know what  *)
(* the engine holds when Commit is sent (LogInv), that needs what each     *)
(* savepoint remembers (SavepointsInv), that needs that a name resolves to *)
(* one savepoint only (NamesInv) and that a write is inside every call     *)
(* around the one it was made in (PathInv).                                *)
(***************************************************************************)
EXTENDS RowTxProps, SequenceTheorems, TLAPS

(* The call stack: numbers grow inwards, and a call is open exactly while it
   is on the stack or not made yet. *)
CallsInv ==
  /\ \A d \in 1..Len(frames) : frames[d].id <= calls
  /\ \A d, e \in 1..Len(frames) : d < e => frames[d].id < frames[e].id
  /\ frames # << >> => frames[1].id = Root /\ frames[1].ctx = Root
  /\ \A c \in Calls : outcome[c] = "open" <=> (c > calls \/ c \in OpenCalls)
  /\ \A c \in stray : outcome[c] \in {"err", "panic"}

(* A write was made inside every call that encloses the innermost of its own. *)
PathInv ==
  /\ \A w \in Writes : \A c \in path[w] : c <= calls
  /\ \A w \in acked : Root \in path[w]
  /\ \A w \in Writes \ acked : path[w] = {}
  /\ \A w \in acked : \A d, e \in 1..Len(frames) :
       d < e /\ frames[e].id \in path[w] => frames[d].id \in path[w]

(* Savepoint names are never used twice, in the engine or on the stack. *)
NamesInv ==
  /\ \A i \in 1..Len(sps) : sps[i].name <= savepointSeq
  /\ \A i, j \in 1..Len(sps) : i < j => sps[i].name < sps[j].name
  /\ \A d \in 1..Len(frames) : frames[d].sp <= savepointSeq
  /\ \A d, e \in 1..Len(frames) : 1 < d /\ d < e => frames[d].sp < frames[e].sp

(* What the savepoint of the call with number id must remember. *)
Around(id) == {w \in Standing : id \notin path[w]}

SavepointsInv ==
  srv # "closed" =>
    \A d \in 2..Len(frames) : \E i \in 1..Len(sps) :
      sps[i].name = frames[d].sp /\ sps[i].saved = Around(frames[d].id)

(* Until the context of the transaction expires, a usable transaction holds
   the standing writes; between its two closing statements, a failed nested
   call has its own already taken out. *)
Held == IF pc = "releaseAfterRollback" THEN Around(Top.id) ELSE Standing
LogInv == srv = "open" /\ pc \in Running /\ Root \notin dead => log = Held

StartInv ==
  /\ pc = "start" => calls = 0 /\ ~txOpen /\ acked = {} /\ dead = {} /\ stray = {}
  /\ pc # "start" => calls >= Root
  /\ srv # "closed" => txOpen
  /\ pc \in {"release", "rollbackTo", "releaseAfterRollback"} => Nested
  /\ pc \in {"commit", "rollback"} => ~Nested

IInv ==
  /\ TypeOK
  /\ CallsInv
  /\ PathInv
  /\ NamesInv
  /\ SavepointsInv
  /\ LogInv
  /\ StartInv
  /\ AtomicOutcome
  /\ NothingLeftOpen

-----------------------------------------------------------------------------
(* A prefix of a sequence. *)
LEMMA PrefixFact ==
  ASSUME NEW S, NEW s \in Seq(S), NEW n \in 0..Len(s)
  PROVE  LET t == SubSeq(s, 1, n) IN
           /\ t \in Seq(S)
           /\ Len(t) = n
           /\ \A i \in 1..n : t[i] = s[i]
  BY SubSeqProperties, LenProperties, ElementOfSeq

(* A sequence less its last element. *)
LEMMA PopFact ==
  ASSUME NEW S, NEW s \in Seq(S), s # << >>
  PROVE  LET t == SubSeq(s, 1, Len(s) - 1) IN
           /\ t \in Seq(S)
           /\ Len(t) = Len(s) - 1
           /\ \A i \in 1..Len(t) : t[i] = s[i]
<1>1. Len(s) \in Nat /\ Len(s) # 0
  BY LenProperties, EmptySeq
<1>2. Len(s) - 1 \in 0..Len(s)
  BY <1>1
<1> QED
  BY <1>2, PrefixFact

(* The steps that end a call and take its frame off the stack. *)
PopStep ==
  \/ Release \/ ReleaseRefused \/ RollbackToRefused \/ ReleaseAfterRollback
  \/ UnwindNested \/ UnwindRoot \/ CommitAfterExpiry \/ Commit \/ Rollback

(* The steps that move pc and nothing else. *)
ControlStep == FnReturnsNil \/ FnReturnsError \/ FnPanics \/ FnRecovers

(* Every step of the engine keeps its state well formed. *)
LEMMA SqlTypes ==
  ASSUME SqlTypeOK,
         \/ UNCHANGED sqlVars
         \/ SqlBegin
         \/ \E w \in Writes : SqlWrite(w)
         \/ SqlStatementFails
         \/ \E n \in Nat : SqlSavepoint(n) \/ SqlRollbackTo(n) \/ SqlRelease(n)
         \/ SqlRollback \/ SqlConnectionLost
         \/ SqlCommitAccepted \/ SqlCommitRefused \/ SqlCommitInDoubt
  PROVE  SqlTypeOK'
<1> USE DEF SqlTypeOK
<1>1. CASE UNCHANGED sqlVars
  BY <1>1 DEF sqlVars
<1>2. CASE SqlBegin
  BY <1>2, EmptySeq DEF SqlBegin
<1>3. CASE \E w \in Writes : SqlWrite(w)
  BY <1>3 DEF SqlWrite
<1>4. CASE SqlStatementFails
  BY <1>4 DEF SqlStatementFails
<1>5. ASSUME NEW n \in Nat, SqlSavepoint(n)
      PROVE  SqlTypeOK'
  <2>1. [name |-> n, saved |-> log] \in Savepoint
    BY DEF Savepoint
  <2> QED
    BY <1>5, <2>1, AppendProperties DEF SqlSavepoint
<1>6. ASSUME NEW n \in Nat, SqlRollbackTo(n)
      PROVE  SqlTypeOK'
  <2>1. PICK i \in DOMAIN sps : log' = sps[i].saved /\ sps' = SubSeq(sps, 1, i)
    BY <1>6 DEF SqlRollbackTo
  <2>2. i \in 1..Len(sps) /\ sps[i] \in Savepoint
    BY ElementOfSeq, LenProperties
  <2>3. sps' \in Seq(Savepoint)
    BY <2>1, <2>2, PrefixFact, LenProperties
  <2> QED
    BY <1>6, <2>1, <2>2, <2>3 DEF SqlRollbackTo, Savepoint
<1>7. ASSUME NEW n \in Nat, SqlRelease(n)
      PROVE  SqlTypeOK'
  <2>1. PICK i \in DOMAIN sps : sps' = SubSeq(sps, 1, i - 1)
    BY <1>7 DEF SqlRelease
  <2>2. i - 1 \in 0..Len(sps)
    BY LenProperties
  <2>3. sps' \in Seq(Savepoint)
    BY <2>1, <2>2, PrefixFact
  <2> QED
    BY <1>7, <2>3 DEF SqlRelease
<1>8. CASE \/ SqlRollback \/ SqlConnectionLost
           \/ SqlCommitAccepted \/ SqlCommitRefused \/ SqlCommitInDoubt
  BY <1>8, EmptySeq DEF SqlRollback, SqlConnectionLost, SqlCommitAccepted,
     SqlCommitRefused, SqlCommitInDoubt, EngineEnds
<1> QED
  BY <1>1, <1>2, <1>3, <1>4, <1>5, <1>6, <1>7, <1>8

-----------------------------------------------------------------------------
(* The innermost call is one of the calls made. *)
LEMMA TopType ==
  ASSUME TypeOK, frames # << >>
  PROVE  /\ Len(frames) \in Nat \ {0}
         /\ Top \in Frame
         /\ Top.id \in Calls /\ Top.sp \in Nat
         /\ OpenCalls \in SUBSET Calls
<1>1. frames \in Seq(Frame)
  BY DEF TypeOK
<1>2. Len(frames) \in Nat \ {0}
  BY <1>1, LenProperties, EmptySeq
<1>3. Top \in Frame
  BY <1>1, <1>2, ElementOfSeq DEF Top
<1>4. \A d \in DOMAIN frames : frames[d] \in Frame
  BY <1>1, ElementOfSeq, LenProperties
<1> QED
  BY <1>2, <1>3, <1>4 DEF Frame, OpenCalls

(* The call stack as a sequence of numbered frames. *)
LEMMA StackType ==
  ASSUME TypeOK
  PROVE  /\ Len(frames) \in Nat
         /\ \A d \in 1..Len(frames) :
              frames[d].id \in Nat /\ frames[d].id \in Calls /\ frames[d].sp \in Nat
         /\ OpenCalls = {frames[d].id : d \in 1..Len(frames)}
<1>1. frames \in Seq(Frame)
  BY DEF TypeOK
<1>2. \A d \in 1..Len(frames) : frames[d] \in Frame
  BY <1>1, ElementOfSeq
<1>3. \A d \in 1..Len(frames) : frames[d].id \in Calls /\ frames[d].sp \in Nat
  BY <1>2 DEF Frame
<1> QED
  BY <1>1, <1>3, LenProperties DEF OpenCalls, Calls

(* Popping the stack leaves the call variables well formed. *)
LEMMA ReturnType ==
  ASSUME TypeOK, frames # << >>,
         NEW res \in Outcomes, NEW next \in {"fn", "unwind", "done"},
         Return(res, next), next = "done" <=> ~Nested
  PROVE  /\ frames' \in Seq(Frame)
         /\ pc' \in Running \cup {"start", "done"}
         /\ pc' \in Running <=> frames' # << >>
         /\ outcome' \in [Calls -> Outcomes]
<1>1. /\ frames' \in Seq(Frame)
      /\ Len(frames') = Len(frames) - 1
  BY PopFact DEF TypeOK, Return
<1>2. Len(frames) \in Nat \ {0}
  BY TopType
<1>3. frames' # << >> <=> Nested
  BY <1>1, <1>2, EmptySeq DEF Nested
<1>4. outcome' \in [Calls -> Outcomes]
  BY DEF Return, TypeOK
<1> QED
  BY <1>1, <1>3, <1>4 DEF Return, Running

(* The engine step inside every step of the model. *)
LEMMA EngineStep ==
  ASSUME TypeOK, Next
  PROVE  SqlTypeOK'
<1>1. SqlTypeOK
  BY DEF TypeOK
<1>2. UNCHANGED vars => UNCHANGED sqlVars
  BY DEF vars
<1>3. frames # << >> => Top.sp \in Nat
  BY TopType
<1>4. NextName \in Nat
  BY DEF NextName, TypeOK
<1>5. CASE Begin \/ BeginFails
  BY <1>1, <1>5, SqlTypes DEF Begin, BeginFails
<1>6. CASE Callback
  <2>1. CASE \E w \in Writes : Write(w)
    BY <1>1, <2>1, SqlTypes DEF Write
  <2>2. CASE Nest
    BY <1>1, <1>4, <2>2, SqlTypes DEF Nest
  <2>3. CASE WriteFails \/ NestFails
    BY <1>1, <2>3, SqlTypes DEF WriteFails, NestFails
  <2>4. CASE NestRejected \/ ControlStep \/ FnGoexits
    <3>1. UNCHANGED sqlVars
      BY <2>4 DEF NestRejected, ControlStep, FnGoexits,
         FnReturnsNil, FnReturnsError, FnPanics, FnRecovers
    <3> QED
      BY <1>1, <3>1, SqlTypes
  <2> QED
    BY <1>6, <2>1, <2>2, <2>3, <2>4 DEF Callback, ControlStep
<1>7. CASE Closing
  <2>1. frames # << >>
    BY <1>7 DEF Closing, TypeOK, Running, Release, ReleaseRefused, RollbackTo,
       RollbackToRefused, ReleaseAfterRollback, UnwindNested, UnwindRoot,
       CommitAfterExpiry, Commit, Rollback
  <2>2. Top.sp \in Nat
    BY <1>3, <2>1
  <2>3. CASE Release \/ ReleaseRefused \/ RollbackTo \/ RollbackToRefused
    BY <1>1, <2>2, <2>3, SqlTypes DEF Release, ReleaseRefused, RollbackTo, RollbackToRefused
  <2>4. CASE ReleaseAfterRollback \/ UnwindNested \/ UnwindRoot
    BY <1>1, <2>2, <2>4, SqlTypes DEF ReleaseAfterRollback, UnwindNested, UnwindRoot,
       RollbackIfOpen
  <2>5. CASE CommitAfterExpiry \/ Commit \/ Rollback
    BY <1>1, <2>5, SqlTypes DEF CommitAfterExpiry, Commit, Rollback, RollbackIfOpen
  <2> QED
    BY <1>7, <2>3, <2>4, <2>5 DEF Closing
<1>8. CASE Surroundings \/ Finished
  BY <1>1, <1>2, <1>8, SqlTypes DEF Surroundings, Expire, AwaitDone, ConnectionLost, Finished
<1> QED
  BY <1>5, <1>6, <1>7, <1>8 DEF Next

(* The type invariant is inductive once Nested is known of the closing steps. *)
LEMMA TypeStep ==
  ASSUME TypeOK, StartInv, Next
  PROVE  TypeOK'
<1>1. SqlTypeOK'
  BY EngineStep
<1> USE DEF TypeOK
<1>2. CASE Begin \/ BeginFails
  <2>1. Root \in Calls
    BY CallsAssumption DEF Root, Calls
  <2>2. CASE Begin
    <3>1. [id |-> Root, sp |-> 0, ctx |-> Root] \in Frame
      BY <2>1 DEF Frame
    <3>2. frames' \in Seq(Frame) /\ frames' # << >>
      BY <2>2, <3>1 DEF Begin
    <3> QED
      BY <1>1, <2>1, <2>2, <3>2 DEF Begin, Running, history, Calls, Root
  <2>3. CASE BeginFails
    BY <1>1, <2>1, <2>3 DEF BeginFails, Running, Outcomes, history, Calls, Root
  <2> QED
    BY <1>2, <2>2, <2>3
<1>3. CASE Callback
  <2>1. ASSUME NEW w \in Writes, Write(w)
        PROVE  TypeOK'
    <3>1. OpenCalls \in SUBSET Calls
      BY <2>1, TopType DEF Write, Running
    <3> QED
      BY <1>1, <2>1, <3>1 DEF Write, callVars
  <2>2. CASE Nest
    <3>1. calls + 1 \in Calls
      BY <2>2, CallsAssumption DEF Nest, Calls
    <3>2. PICK c \in CtxChoices(calls + 1) :
            frames' = Append(frames, [id |-> calls + 1, sp |-> NextName, ctx |-> c])
      BY <2>2 DEF Nest
    <3>3. Top.ctx \in Calls
      BY <2>2, TopType DEF Nest, Running, Frame
    <3>4. c \in Calls /\ NextName \in Nat
      BY <3>1, <3>3 DEF CtxChoices, NextName
    <3>5. [id |-> calls + 1, sp |-> NextName, ctx |-> c] \in Frame
      BY <3>1, <3>4 DEF Frame
    <3>6. frames' \in Seq(Frame) /\ frames' # << >>
      BY <3>2, <3>5, AppendProperties
    <3> QED
      BY <1>1, <2>2, <3>1, <3>6 DEF Nest, Running, history, Calls
  <2>3. CASE NestFails \/ NestRejected
    <3>1. calls + 1 \in Calls
      BY <2>3, CallsAssumption DEF NestFails, NestRejected, Calls
    <3>2. calls' \in 0..MaxCalls /\ savepointSeq' \in Nat
      BY <2>3, CallsAssumption DEF NestFails, NestRejected
    <3>3. outcome' \in [Calls -> Outcomes]
      BY <2>3, <3>1 DEF NestFails, NestRejected, Outcomes
    <3> QED
      BY <1>1, <2>3, <3>2, <3>3 DEF NestFails, NestRejected, history
  <2>4. CASE WriteFails
    BY <1>1, <2>4 DEF WriteFails, callVars, history
  <2>5. CASE ControlStep
    BY <1>1, <2>5 DEF ControlStep, FnReturnsNil, FnReturnsError, FnPanics, FnRecovers,
       Running, history
  <2>6. CASE FnGoexits
    BY <1>1, <2>6, EmptySeq DEF FnGoexits, Running, Outcomes, history
  <2> QED
    BY <1>3, <2>1, <2>2, <2>3, <2>4, <2>5, <2>6 DEF Callback, ControlStep
<1>4. CASE Closing
  <2>1. frames # << >>
    BY <1>4 DEF Closing, Running, Release, ReleaseRefused, RollbackTo,
       RollbackToRefused, ReleaseAfterRollback, UnwindNested, UnwindRoot,
       CommitAfterExpiry, Commit, Rollback
  <2>2. CASE RollbackTo
    BY <1>1, <2>2 DEF RollbackTo, Running, history
  <2>3. ASSUME NEW res \in Outcomes, NEW next \in {"fn", "unwind", "done"},
               Return(res, next), next = "done" <=> ~Nested,
               stray' \in SUBSET Calls
        PROVE  TypeOK'
    BY <1>1, <2>1, <2>3, ReturnType DEF Return
  <2>4. stray \in SUBSET Calls /\ stray \cup {Top.id} \in SUBSET Calls
    BY <2>1, TopType
  <2>5. CASE Release \/ ReleaseRefused \/ RollbackToRefused \/ ReleaseAfterRollback
    BY <2>3, <2>4, <2>5 DEF Release, ReleaseRefused, RollbackToRefused,
       ReleaseAfterRollback, ReturnToParent, ReturnRefused, Outcomes, StartInv
  <2>6. CASE UnwindNested \/ UnwindRoot
    BY <2>3, <2>4, <2>6 DEF UnwindNested, UnwindRoot, ReturnToParent, ReturnRefused, Outcomes
  <2>7. CASE CommitAfterExpiry \/ Commit \/ Rollback
    BY <2>3, <2>4, <2>7 DEF CommitAfterExpiry, Commit, Rollback, ReturnToParent,
       Outcomes, StartInv
  <2> QED
    BY <1>4, <2>2, <2>5, <2>6, <2>7 DEF Closing
<1>5. CASE Surroundings
  BY <1>1, <1>5 DEF Surroundings, Expire, AwaitDone, ConnectionLost, callVars, history
<1>6. CASE Finished
  BY <1>1, <1>6 DEF Finished, vars, callVars, history
<1> QED
  BY <1>2, <1>3, <1>4, <1>5, <1>6 DEF Next

-----------------------------------------------------------------------------
(* The steps that leave the call stack and every history variable alone. *)
QuietStep ==
  \/ WriteFails \/ ControlStep \/ RollbackTo \/ Surroundings \/ Finished

(* A quiet step leaves the call stack and the history alone. *)
LEMMA QuietFacts ==
  ASSUME QuietStep
  PROVE  UNCHANGED <<frames, calls, savepointSeq, outcome, acked, path, stray>>
BY DEF QuietStep, WriteFails, ControlStep, FnReturnsNil, FnReturnsError, FnPanics,
   FnRecovers, RollbackTo, Surroundings, Expire, AwaitDone, ConnectionLost, Finished,
   callVars, history, vars

(* The steps of InTx by what they do to the stack: begin, write, nest, leave all
   calls at once, pop one, or none of these. *)
LEMMA StepKinds ==
  ASSUME Next
  PROVE  \/ Begin \/ BeginFails
         \/ \E w \in Writes : Write(w)
         \/ Nest \/ NestFails \/ NestRejected \/ FnGoexits
         \/ PopStep
         \/ QuietStep
BY DEF Next, Callback, Closing, PopStep, QuietStep, ControlStep

(* Every step that pops is a Return with an outcome that is not "open". *)
LEMMA PopIsReturn ==
  ASSUME PopStep, TypeOK
  PROVE  /\ frames # << >>
         /\ pc # "done" /\ pc # "start"
         /\ \E res \in Outcomes \ {"open"}, next \in {"fn", "unwind", "done"} :
              /\ Return(res, next)
              /\ \/ stray' = stray
                 \/ /\ stray' = stray \cup {Top.id} /\ res \in {"err", "panic"}
                    /\ OnlyOwnCtxDead /\ UNCHANGED sqlVars
BY DEF PopStep, TypeOK, Running, Release, ReleaseRefused, RollbackToRefused,
   ReleaseAfterRollback, UnwindNested, UnwindRoot, CommitAfterExpiry, Commit, Rollback,
   ReturnToParent, ReturnRefused, Outcomes

(* A step that pops takes the innermost call, and only it, off the stack. *)
LEMMA PoppedStack ==
  ASSUME PopStep, TypeOK, CallsInv
  PROVE  /\ Len(frames) \in Nat \ {0}
         /\ Len(frames') = Len(frames) - 1
         /\ \A d \in 1..Len(frames') : frames'[d] = frames[d]
         /\ OpenCalls' = OpenCalls \ {Top.id}
         /\ Top.id \in Calls /\ Top.id <= calls
         /\ UNCHANGED <<calls, savepointSeq, dead, acked, path>>
<1>1. frames # << >> /\ UNCHANGED <<calls, savepointSeq, dead, acked, path>>
      /\ frames' = SubSeq(frames, 1, Len(frames) - 1)
  BY PopIsReturn DEF Return
<1>2. /\ frames' \in Seq(Frame)
      /\ Len(frames') = Len(frames) - 1
      /\ \A d \in 1..Len(frames') : frames'[d] = frames[d]
  <2>1. frames \in Seq(Frame)
    BY DEF TypeOK
  <2> QED
    BY <1>1, <2>1, PopFact
<1>3. Len(frames) \in Nat \ {0} /\ Top.id \in Calls
  BY <1>1, TopType
<1>4. \A d \in 1..Len(frames) : frames[d].id \in Nat
  BY StackType
<1>5. \A d \in 1..(Len(frames) - 1) : frames[d].id # Top.id
  BY <1>3, <1>4 DEF CallsInv, Top
<1>6. /\ OpenCalls = {frames[d].id : d \in 1..Len(frames)}
      /\ OpenCalls' = {frames'[d].id : d \in 1..Len(frames')}
  BY <1>2, LenProperties DEF OpenCalls, TypeOK
<1>7. OpenCalls' = OpenCalls \ {Top.id}
  BY <1>2, <1>3, <1>5, <1>6 DEF Top
<1>8. Top.id <= calls
  BY <1>3 DEF Top, CallsInv
<1> QED
  BY <1>1, <1>2, <1>3, <1>7, <1>8

(* A nested call is pushed with the next number and the next savepoint name. *)
LEMMA PushedStack ==
  ASSUME Nest, TypeOK, CallsInv
  PROVE  /\ Len(frames) \in Nat \ {0}
         /\ Len(frames') = Len(frames) + 1
         /\ \A d \in 1..Len(frames) : frames'[d] = frames[d]
         /\ frames'[Len(frames) + 1].id = calls + 1
         /\ frames'[Len(frames) + 1].sp = savepointSeq + 1
         /\ OpenCalls' = OpenCalls \cup {calls + 1}
         /\ calls + 1 \in Calls
         /\ calls' = calls + 1 /\ savepointSeq' = savepointSeq + 1
<1>1. PICK c \in CtxChoices(calls + 1) :
        frames' = Append(frames, [id |-> calls + 1, sp |-> NextName, ctx |-> c])
  BY DEF Nest
<1>2. frames # << >> /\ frames \in Seq(Frame)
  BY DEF Nest, TypeOK, Running
<1>3. Len(frames) \in Nat \ {0}
  BY <1>2, TopType
<1>4. calls + 1 \in Calls /\ calls' = calls + 1 /\ savepointSeq' = savepointSeq + 1
  BY CallsAssumption DEF Nest, Calls, TypeOK
<1>5. c \in Calls /\ NextName \in Nat
  BY <1>2, <1>4, TopType DEF CtxChoices, NextName, TypeOK, Frame
<1>6. [id |-> calls + 1, sp |-> NextName, ctx |-> c] \in Frame
  BY <1>4, <1>5 DEF Frame
<1>7. /\ frames' \in Seq(Frame)
      /\ Len(frames') = Len(frames) + 1
      /\ \A d \in 1..Len(frames) : frames'[d] = frames[d]
      /\ frames'[Len(frames) + 1] = [id |-> calls + 1, sp |-> NextName, ctx |-> c]
  BY <1>1, <1>2, <1>6, AppendProperties
<1>8. /\ OpenCalls = {frames[d].id : d \in 1..Len(frames)}
      /\ OpenCalls' = {frames'[d].id : d \in 1..Len(frames')}
  BY <1>2, <1>7, LenProperties DEF OpenCalls
<1>9. OpenCalls' = OpenCalls \cup {calls + 1}
  BY <1>3, <1>7, <1>8
<1> QED
  BY <1>3, <1>4, <1>7, <1>9 DEF NextName

(* Begin makes the outermost call the only one. *)
LEMMA FirstStack ==
  ASSUME Begin
  PROVE  /\ Len(frames') = 1 /\ frames'[1].id = Root /\ frames'[1].sp = 0
         /\ frames'[1].ctx = Root
         /\ frames' # << >>
         /\ \A d \in 1..Len(frames') : d = 1
         /\ OpenCalls' = {Root}
<1>1. /\ Len(frames') = 1 /\ frames'[1].id = Root /\ frames'[1].sp = 0
      /\ frames'[1].ctx = Root
      /\ frames' # << >>
      /\ OpenCalls' = {Root}
  BY DEF Begin, OpenCalls
<1> QED
  BY <1>1

(* Every step keeps StartInv: InTx begins once, and what pc says of the
   innermost call agrees with how deep it is nested. *)
LEMMA StartStep ==
  ASSUME TypeOK, StartInv, Next
  PROVE  StartInv'
<1> USE DEF StartInv
<1>1. CASE Begin \/ BeginFails
  <2>1. CASE Begin
    BY <2>1 DEF Begin, SqlBegin, Root
  <2>2. CASE BeginFails
    BY <2>2 DEF BeginFails, sqlVars, history, Root
  <2> QED
    BY <1>1, <2>1, <2>2
<1>2. ASSUME NEW w \in Writes, Write(w)
      PROVE  StartInv'
  BY <1>2 DEF Write, SqlWrite, callVars
<1>3. CASE Nest
  <2>1. calls' >= Root /\ pc' = "fn" /\ pc # "start"
    BY <1>3 DEF Nest, TypeOK, Root
  <2> QED
    BY <1>3, <2>1 DEF Nest, SqlSavepoint
<1>4. CASE NestFails \/ NestRejected
  <2>1. calls' >= Root /\ pc' = "fn"
    BY <1>4 DEF NestFails, NestRejected, TypeOK, Root
  <2>2. srv' # "closed" => txOpen'
    BY <1>4 DEF NestFails, NestRejected, SqlStatementFails, sqlVars
  <2> QED
    BY <2>1, <2>2
<1>5. CASE FnGoexits
  BY <1>5 DEF FnGoexits, sqlVars
<1>6. CASE PopStep
  <2>1. pc' \in {"fn", "unwind", "done"} /\ calls' = calls /\ pc # "start"
    BY <1>6, PopIsReturn DEF Return
  <2>2. srv' # "closed" => txOpen'
    BY <1>6 DEF PopStep, Release, ReleaseRefused, RollbackToRefused, ReleaseAfterRollback,
       UnwindNested, UnwindRoot, CommitAfterExpiry, Commit, Rollback, RollbackIfOpen,
       SqlRelease, SqlRollbackTo, SqlRollback, SqlCommitAccepted, SqlCommitRefused,
       SqlCommitInDoubt, EngineEnds, sqlVars
  <2> QED
    BY <2>1, <2>2
<1>7. CASE QuietStep
  <2>1. CASE WriteFails \/ ControlStep \/ Finished
    BY <2>1 DEF WriteFails, SqlStatementFails, ControlStep, FnReturnsNil, FnReturnsError,
       FnPanics, FnRecovers, Finished, vars, sqlVars, callVars, history, Nested
  <2>2. CASE RollbackTo
    <3>1. txOpen' /\ pc' = "releaseAfterRollback" /\ Nested'
      BY <2>2 DEF RollbackTo, Sends, SqlRollbackTo, Nested
    <3> QED
      BY <2>2, <3>1 DEF RollbackTo
  <2>3. CASE Surroundings
    BY <2>3 DEF Surroundings, Expire, AwaitDone, ConnectionLost, SqlRollback,
       SqlConnectionLost, EngineEnds, sqlVars, callVars, history, Nested
  <2> QED
    BY <1>7, <2>1, <2>2, <2>3 DEF QuietStep
<1> QED
  BY <1>1, <1>2, <1>3, <1>4, <1>5, <1>6, <1>7, StepKinds

(* Every step keeps CallsInv: a call is open exactly while it is on the stack. *)
LEMMA CallsStep ==
  ASSUME TypeOK, CallsInv, StartInv, Next
  PROVE  CallsInv'
<1>1. CASE Begin
  <2>1. outcome' = outcome /\ stray' = stray /\ calls = 0 /\ calls' = Root
    BY <1>1 DEF Begin, StartInv, history
  <2>2. frames = << >>
    BY <1>1 DEF Begin, TypeOK, Running
  <2>3. OpenCalls = {}
    BY <2>2 DEF OpenCalls
  <2>4. \A c \in Calls : c \in Nat \ {0}
    BY DEF Calls
  <2>5. \A c \in Calls : outcome'[c] = "open" <=> (c > calls' \/ c \in OpenCalls')
    BY <2>1, <2>3, <2>4, <1>1, FirstStack DEF CallsInv, Root
  <2>6. \A d \in 1..Len(frames') : d = 1 /\ frames'[d].id <= calls'
    <3>1. \A d \in 1..Len(frames') : d = 1
      BY <1>1, FirstStack
    <3>2. frames'[1].id = 1 /\ calls' = 1
      BY <1>1, <2>1, FirstStack DEF Root
    <3> QED
      BY <3>1, <3>2
  <2>7. \A c \in stray' : outcome'[c] \in {"err", "panic"}
    BY <2>1 DEF CallsInv
  <2> QED
    BY <1>1, <2>5, <2>6, <2>7, FirstStack DEF CallsInv
<1>2. CASE BeginFails
  <2>1. frames = << >> /\ frames' = << >> /\ stray = {} /\ stray' = {} /\ calls = 0
    BY <1>2 DEF BeginFails, TypeOK, Running, StartInv, history
  <2>2. OpenCalls = {} /\ OpenCalls' = {}
    BY <2>1 DEF OpenCalls
  <2>3. \A c \in Calls : c \in Nat \ {0}
    BY DEF Calls
  <2>4. \A c \in Calls : outcome'[c] = "open" <=> c > Root
    BY <1>2, <2>1, <2>2, <2>3 DEF BeginFails, CallsInv, Root, TypeOK
  <2> QED
    BY <1>2, <2>1, <2>2, <2>4 DEF BeginFails, CallsInv
<1>3. CASE Nest
  <2>1. outcome' = outcome /\ stray' = stray
    BY <1>3 DEF Nest, history
  <2>2. calls \in Nat /\ \A c \in Calls : c \in Nat
    BY DEF TypeOK, Calls
  <2>3. \A c \in Calls : outcome'[c] = "open" <=> (c > calls' \/ c \in OpenCalls')
    BY <1>3, <2>1, <2>2, PushedStack DEF CallsInv
  <2>4. \A d \in 1..Len(frames') : frames'[d].id <= calls'
    <3>1. \A d \in 1..Len(frames) : frames[d].id \in Nat
      BY StackType
    <3> QED
      BY <1>3, <2>2, <3>1, PushedStack DEF CallsInv
  <2>5. ASSUME NEW d \in 1..Len(frames'), NEW e \in 1..Len(frames'), d < e
        PROVE  frames'[d].id < frames'[e].id
    <3>1. /\ Len(frames) \in Nat /\ Len(frames') = Len(frames) + 1
          /\ \A i \in 1..Len(frames) : frames'[i] = frames[i]
          /\ frames'[Len(frames) + 1].id = calls + 1
      BY <1>3, PushedStack, StackType
    <3>2. d \in 1..Len(frames) /\ frames'[d].id = frames[d].id
      BY <2>5, <3>1
    <3>3. CASE e = Len(frames) + 1
      <4>1. frames[d].id <= calls /\ frames[d].id \in Nat
        BY <3>2, StackType DEF CallsInv
      <4> QED
        BY <2>2, <3>1, <3>2, <3>3, <4>1
    <3>4. CASE e # Len(frames) + 1
      <4>1. e \in 1..Len(frames) /\ frames'[e].id = frames[e].id
        BY <3>1, <3>4
      <4> QED
        BY <2>5, <3>2, <4>1 DEF CallsInv
    <3> QED
      BY <3>3, <3>4
  <2>6. frames # << >> /\ frames'[1].id = Root /\ frames'[1].ctx = Root
    BY <1>3, PushedStack DEF CallsInv, Nest, TypeOK, Running
  <2> QED
    BY <2>1, <2>3, <2>4, <2>5, <2>6 DEF CallsInv
<1>4. CASE NestFails \/ NestRejected
  <2>1. /\ frames' = frames /\ stray' = stray /\ calls' = calls + 1
        /\ outcome' = [outcome EXCEPT ![calls + 1] = "err"]
        /\ calls + 1 \in Calls
    BY <1>4, CallsAssumption DEF NestFails, NestRejected, history, Calls, TypeOK
  <2>2. calls \in Nat /\ \A c \in Calls : c \in Nat
    BY DEF TypeOK, Calls
  <2>3. \A d \in 1..Len(frames) : frames[d].id \in Nat
    BY StackType
  <2>4. OpenCalls' = OpenCalls /\ calls + 1 \notin OpenCalls
    <3>1. OpenCalls = {frames[d].id : d \in 1..Len(frames)}
      BY StackType
    <3>2. OpenCalls' = OpenCalls
      BY <2>1 DEF OpenCalls
    <3>3. ASSUME NEW d \in 1..Len(frames)
          PROVE  frames[d].id # calls + 1
      <4>1. frames[d].id <= calls /\ frames[d].id \in Nat
        BY <2>3 DEF CallsInv
      <4> QED
        BY <2>2, <4>1
    <3> QED
      BY <3>1, <3>2, <3>3
  <2>5. \A c \in Calls : outcome'[c] = "open" <=> (c > calls' \/ c \in OpenCalls')
    BY <2>1, <2>2, <2>4 DEF CallsInv, TypeOK
  <2>6. \A c \in stray : outcome'[c] \in {"err", "panic"}
    BY <2>1 DEF CallsInv, TypeOK
  <2>7. \A d \in 1..Len(frames) : frames[d].id <= calls + 1
    BY <2>2, <2>3 DEF CallsInv
  <2> QED
    BY <2>1, <2>5, <2>6, <2>7 DEF CallsInv
<1>5. CASE FnGoexits
  <2>1. frames' = << >> /\ OpenCalls' = {} /\ stray' = stray /\ calls' = calls
    BY <1>5 DEF FnGoexits, OpenCalls, history
  <2>2. \A c \in Calls : outcome'[c] = IF c \in OpenCalls THEN "goexit" ELSE outcome[c]
    BY <1>5 DEF FnGoexits
  <2>3. \A c \in Calls : outcome'[c] = "open" <=> (c > calls' \/ c \in OpenCalls')
    <3>1. \A c \in OpenCalls : ~(c > calls)
      <4>1. OpenCalls = {frames[d].id : d \in 1..Len(frames)}
        BY StackType
      <4>2. \A d \in 1..Len(frames) : frames[d].id \in Nat
        BY StackType
      <4> QED
        BY <4>1, <4>2 DEF CallsInv, TypeOK
    <3> QED
      BY <2>1, <2>2, <3>1 DEF CallsInv
  <2>4. \A c \in stray : outcome'[c] \in {"err", "panic"}
    BY <2>2 DEF CallsInv, TypeOK
  <2> QED
    BY <2>1, <2>3, <2>4 DEF CallsInv
<1>6. CASE PopStep
  <2>1. PICK res \in Outcomes \ {"open"} :
          /\ outcome' = [outcome EXCEPT ![Top.id] = res]
          /\ \/ stray' = stray
             \/ stray' = stray \cup {Top.id} /\ res \in {"err", "panic"}
    BY <1>6, PopIsReturn DEF Return
  <2>2. Len(frames') < Len(frames) /\ Len(frames') \in Nat /\ Len(frames) \in Nat
    BY <1>6, PoppedStack
  <2>3. \A c \in Calls : outcome'[c] = "open" <=> (c > calls' \/ c \in OpenCalls')
    <3>1. ~(Top.id > calls)
      BY <1>6, PoppedStack DEF Calls, TypeOK
    <3>2. outcome' = [outcome EXCEPT ![Top.id] = res] /\ res # "open"
      BY <2>1
    <3> QED
      BY <1>6, <3>1, <3>2, PoppedStack DEF CallsInv, TypeOK
  <2>4. \A c \in stray' : outcome'[c] \in {"err", "panic"}
    <3>1. Top.id \in OpenCalls
      <4>1. Len(frames) \in DOMAIN frames
        BY <1>6, PoppedStack, LenProperties DEF TypeOK
      <4> QED
        BY <4>1 DEF OpenCalls, Top
    <3>2. Top.id \notin stray
      BY <1>6, <3>1, PoppedStack DEF CallsInv
    <3> QED
      BY <1>6, <2>1, <3>2, PoppedStack DEF CallsInv, TypeOK
  <2>5. \A d \in 1..Len(frames') : frames'[d].id <= calls'
    BY <1>6, <2>2, PoppedStack DEF CallsInv
  <2>6. \A d, e \in 1..Len(frames') : d < e => frames'[d].id < frames'[e].id
    BY <1>6, <2>2, PoppedStack DEF CallsInv
  <2>7. frames' # << >> => frames'[1].id = Root /\ frames'[1].ctx = Root
    <3>1. Len(frames') # 0 => frames'[1].id = Root /\ frames'[1].ctx = Root
      BY <1>6, <2>2, PoppedStack, PopIsReturn DEF CallsInv
    <3>2. frames' # << >> => Len(frames') # 0
      <4>1. frames' \in Seq(Frame)
        BY TypeStep DEF TypeOK
      <4> QED
        BY <4>1, LenProperties, EmptySeq
    <3> QED
      BY <3>1, <3>2
  <2> QED
    BY <2>3, <2>4, <2>5, <2>6, <2>7 DEF CallsInv
<1>7. CASE (\E w \in Writes : Write(w)) \/ QuietStep
  <2>1. UNCHANGED <<frames, calls, outcome, stray>>
    BY <1>7, QuietFacts DEF Write, callVars
  <2> QED
    BY <2>1 DEF CallsInv, OpenCalls
<1> QED
  BY <1>1, <1>2, <1>3, <1>4, <1>5, <1>6, <1>7, StepKinds

(* Every step keeps PathInv: writes are filed under all the calls around them. *)
LEMMA PathStep ==
  ASSUME TypeOK, CallsInv, PathInv, StartInv, Next
  PROVE  PathInv'
<1> USE DEF PathInv
<1>0. /\ Len(frames) \in Nat /\ calls \in Nat
      /\ \A w \in Writes : \A c \in path[w] : c \in Nat
      /\ acked \in SUBSET Writes
  BY StackType DEF TypeOK, Calls
<1>1. CASE Begin \/ BeginFails
  <2>1. acked = {} /\ calls = 0 /\ calls' = Root /\ UNCHANGED <<acked, path>>
    BY <1>1 DEF Begin, BeginFails, StartInv, history
  <2> QED
    BY <1>0, <2>1 DEF Root
<1>2. ASSUME NEW w \in Writes, Write(w)
      PROVE  PathInv'
  <2>1. /\ UNCHANGED <<frames, calls>> /\ acked' = acked \cup {w}
        /\ path' = [path EXCEPT ![w] = OpenCalls]
    BY <1>2 DEF Write, callVars
  <2>2. path'[w] = OpenCalls /\ \A v \in Writes \ {w} : path'[v] = path[v]
    BY <2>1 DEF TypeOK
  <2>3. frames # << >> /\ Len(frames) # 0
    BY <1>2, TopType DEF Write, TypeOK, Running
  <2>4. /\ \A d \in 1..Len(frames) : frames[d].id \in OpenCalls
        /\ Root \in OpenCalls
        /\ \A c \in OpenCalls : c <= calls
    BY <1>0, <2>3, StackType DEF CallsInv
  <2> QED
    BY <1>0, <2>1, <2>2, <2>4
<1>3. CASE Nest
  <2>1. UNCHANGED <<acked, path>>
    BY <1>3 DEF Nest, history
  <2>2. ASSUME NEW w \in Writes, calls + 1 \in path[w]
        PROVE  FALSE
    <3>1. calls + 1 <= calls
      BY <2>2
    <3> QED
      BY <1>0, <3>1
  <2>3. /\ Len(frames') = Len(frames) + 1 /\ calls' = calls + 1
        /\ \A i \in 1..Len(frames) : frames'[i] = frames[i]
        /\ frames'[Len(frames) + 1].id = calls + 1
    BY <1>3, PushedStack DEF Nest
  <2>4. \A w \in Writes : \A c \in path[w] : c <= calls'
    BY <1>0, <2>3
  <2>5. ASSUME NEW w \in acked, NEW d \in 1..Len(frames'), NEW e \in 1..Len(frames'),
               d < e, frames'[e].id \in path[w]
        PROVE  frames'[d].id \in path[w]
    <3>1. w \in Writes
      BY <1>0
    <3>2. e # Len(frames) + 1
      BY <2>2, <2>3, <2>5, <3>1
    <3>3. d \in 1..Len(frames) /\ e \in 1..Len(frames)
      <4>1. Len(frames) \in Nat /\ Len(frames') = Len(frames) + 1 /\ d < e
        BY <1>0, <2>3, <2>5
      <4> HIDE DEF PathInv
      <4> QED
        BY <3>2, <4>1
    <3>4. frames[e].id \in path[w]
      BY <2>3, <2>5, <3>3
    <3>5. frames[d].id \in path[w]
      BY <2>5, <3>3, <3>4
    <3> QED
      BY <2>3, <3>3, <3>5
  <2> QED
    BY <2>1, <2>4, <2>5
<1>4. CASE NestFails \/ NestRejected
  <2>1. UNCHANGED <<frames, acked, path>> /\ calls' = calls + 1
    BY <1>4 DEF NestFails, NestRejected, history
  <2> QED
    BY <1>0, <2>1
<1>5. CASE FnGoexits
  <2>1. UNCHANGED <<calls, acked, path>> /\ Len(frames') = 0
    BY <1>5 DEF FnGoexits, history
  <2> QED
    BY <1>0, <2>1
<1>6. CASE PopStep
  <2>1. UNCHANGED <<calls, acked, path>>
    BY <1>6, PoppedStack
  <2>2. \A d \in 1..Len(frames') : d \in 1..Len(frames) /\ frames'[d] = frames[d]
    BY <1>0, <1>6, PoppedStack
  <2>3. \A w \in acked : \A d, e \in 1..Len(frames') :
          d < e /\ frames'[e].id \in path[w] => frames'[d].id \in path[w]
    BY <2>2
  <2> QED
    BY <2>1, <2>3
<1>7. CASE QuietStep
  BY <1>7, QuietFacts
<1> QED
  BY <1>1, <1>2, <1>3, <1>4, <1>5, <1>6, <1>7, StepKinds

(* Except for the SAVEPOINT of a nested call, the engine's stack only shrinks. *)
LEMMA StackOnlyShrinks ==
  ASSUME TypeOK, Next, ~Nest
  PROVE  /\ Len(sps') \in 0..Len(sps)
         /\ \A i \in 1..Len(sps') : sps'[i] = sps[i]
<1>0. sps \in Seq(Savepoint) /\ Len(sps) \in Nat
  BY LenProperties DEF TypeOK, SqlTypeOK
<1>1. CASE UNCHANGED sps
  BY <1>0, <1>1
<1>2. CASE sps' = << >>
  BY <1>0, <1>2
<1>3. ASSUME NEW n, SqlRollbackTo(n)
      PROVE  /\ Len(sps') \in 0..Len(sps)
             /\ \A i \in 1..Len(sps') : sps'[i] = sps[i]
  <2>1. PICK i \in 1..Len(sps) : sps' = SubSeq(sps, 1, i)
    BY <1>0, <1>3, LenProperties DEF SqlRollbackTo
  <2> QED
    BY <1>0, <2>1, PrefixFact
<1>4. ASSUME NEW n, SqlRelease(n)
      PROVE  /\ Len(sps') \in 0..Len(sps)
             /\ \A i \in 1..Len(sps') : sps'[i] = sps[i]
  <2>1. PICK i \in 1..Len(sps) : sps' = SubSeq(sps, 1, i - 1)
    BY <1>0, <1>4, LenProperties DEF SqlRelease
  <2>2. i - 1 \in 0..Len(sps)
    BY <1>0
  <2> QED
    BY <1>0, <2>1, <2>2, PrefixFact
<1>5. CASE Begin \/ BeginFails
  BY <1>1, <1>2, <1>5 DEF Begin, BeginFails, SqlBegin, sqlVars
<1>6. CASE Callback
  BY <1>1, <1>6 DEF Callback, Write, SqlWrite, WriteFails, NestFails, SqlStatementFails,
     NestRejected, FnReturnsNil, FnReturnsError, FnPanics, FnRecovers, FnGoexits, sqlVars
<1>7. CASE Closing
  <2>1. CASE Release \/ ReleaseRefused \/ RollbackTo \/ RollbackToRefused \/ ReleaseAfterRollback
    BY <1>1, <1>3, <1>4, <2>1 DEF Release, ReleaseRefused, RollbackTo, RollbackToRefused,
       ReleaseAfterRollback, sqlVars
  <2>2. CASE UnwindNested \/ UnwindRoot \/ CommitAfterExpiry \/ Commit \/ Rollback
    BY <1>1, <1>2, <1>3, <2>2 DEF UnwindNested, UnwindRoot, CommitAfterExpiry, Commit,
       Rollback, RollbackIfOpen, SqlRollback, SqlCommitAccepted, SqlCommitRefused,
       SqlCommitInDoubt, EngineEnds, sqlVars
  <2> QED
    BY <1>7, <2>1, <2>2 DEF Closing
<1>8. CASE Surroundings \/ Finished
  BY <1>1, <1>2, <1>8 DEF Surroundings, Expire, AwaitDone, ConnectionLost, SqlRollback,
     SqlConnectionLost, EngineEnds, Finished, sqlVars, vars
<1> QED
  BY <1>5, <1>6, <1>7, <1>8 DEF Next

(* Every step keeps NamesInv: the counter of savepointSeq never repeats a name. *)
LEMMA NamesStep ==
  ASSUME TypeOK, CallsInv, NamesInv, StartInv, Next
  PROVE  NamesInv'
<1> USE DEF NamesInv
<1>0. /\ Len(sps) \in Nat /\ Len(frames) \in Nat /\ savepointSeq \in Nat
      /\ \A i \in 1..Len(sps) : sps[i].name \in Nat
      /\ \A d \in 1..Len(frames) : frames[d].sp \in Nat
  <2>1. sps \in Seq(Savepoint)
    BY DEF TypeOK, SqlTypeOK
  <2>2. \A i \in 1..Len(sps) : sps[i] \in Savepoint
    BY <2>1, ElementOfSeq
  <2>3. \A i \in 1..Len(sps) : sps[i].name \in Nat
    BY <2>2 DEF Savepoint
  <2> QED
    BY <2>1, <2>3, LenProperties, StackType DEF TypeOK
<1>1. CASE Nest
  <2>1. sps' = Append(sps, [name |-> savepointSeq + 1, saved |-> log])
    BY <1>1 DEF Nest, SqlSavepoint, NextName
  <2>2. [name |-> savepointSeq + 1, saved |-> log] \in Savepoint
    BY DEF Savepoint, TypeOK, SqlTypeOK
  <2>3. /\ Len(sps') = Len(sps) + 1
        /\ \A i \in 1..Len(sps) : sps'[i] = sps[i]
        /\ sps'[Len(sps) + 1].name = savepointSeq + 1
    BY <2>1, <2>2, AppendProperties DEF TypeOK, SqlTypeOK
  <2>4. savepointSeq' = savepointSeq + 1
    BY <1>1, PushedStack
  <2>5. \A i \in 1..Len(sps') : sps'[i].name <= savepointSeq'
    BY <1>0, <2>3, <2>4
  <2>6. ASSUME NEW i \in 1..Len(sps'), NEW j \in 1..Len(sps'), i < j
        PROVE  sps'[i].name < sps'[j].name
    <3>1. i \in 1..Len(sps) /\ sps'[i] = sps[i] /\ sps[i].name <= savepointSeq
      BY <1>0, <2>3, <2>6
    <3>2. CASE j = Len(sps) + 1
      BY <1>0, <2>3, <3>1, <3>2
    <3>3. CASE j \in 1..Len(sps)
      BY <1>0, <2>3, <2>6, <3>1, <3>3
    <3> QED
      BY <1>0, <2>3, <3>2, <3>3
  <2>7. \A d \in 1..Len(frames') : frames'[d].sp <= savepointSeq'
    BY <1>0, <1>1, PushedStack
  <2>8. ASSUME NEW d \in 1..Len(frames'), NEW e \in 1..Len(frames'), 1 < d, d < e
        PROVE  frames'[d].sp < frames'[e].sp
    <3>1. /\ Len(frames') = Len(frames) + 1
          /\ \A k \in 1..Len(frames) : frames'[k] = frames[k]
          /\ frames'[Len(frames) + 1].sp = savepointSeq + 1
      BY <1>1, PushedStack
    <3>2. d \in 1..Len(frames) /\ frames'[d] = frames[d] /\ frames[d].sp <= savepointSeq
      BY <1>0, <2>8, <3>1
    <3>3. CASE e = Len(frames) + 1
      BY <1>0, <3>1, <3>2, <3>3
    <3>4. CASE e \in 1..Len(frames)
      BY <1>0, <2>8, <3>1, <3>2, <3>4
    <3> QED
      BY <1>0, <3>1, <3>3, <3>4
  <2> QED
    BY <2>5, <2>6, <2>7, <2>8
<1>2. CASE ~Nest
  <2>1. savepointSeq' >= savepointSeq /\ savepointSeq' \in Nat
    <3>1. CASE Begin \/ BeginFails \/ NestRejected \/ FnGoexits \/ PopStep \/ QuietStep
               \/ \E w \in Writes : Write(w)
      BY <1>0, <3>1, QuietFacts, PoppedStack DEF Begin, BeginFails, NestRejected,
         FnGoexits, Write, callVars
    <3>2. CASE NestFails
      BY <1>0, <3>2 DEF NestFails
    <3> QED
      BY <1>2, <3>1, <3>2, StepKinds
  <2>2. /\ Len(sps') \in 0..Len(sps)
        /\ \A i \in 1..Len(sps') : sps'[i] = sps[i]
    BY <1>2, StackOnlyShrinks
  <2>3. \A i \in 1..Len(sps') : sps'[i].name <= savepointSeq'
    BY <1>0, <2>1, <2>2
  <2>4. \A i, j \in 1..Len(sps') : i < j => sps'[i].name < sps'[j].name
    BY <1>0, <2>2
  <2>5. /\ \A d \in 1..Len(frames') : frames'[d].sp <= savepointSeq'
        /\ \A d, e \in 1..Len(frames') : 1 < d /\ d < e => frames'[d].sp < frames'[e].sp
    <3>1. CASE Begin
      <4>1. (\A d \in 1..Len(frames') : d = 1) /\ frames'[1].sp = 0
        BY <3>1, FirstStack
      <4>2. \A d \in 1..Len(frames') : frames'[d].sp <= savepointSeq'
        BY <1>0, <2>1, <4>1
      <4>3. \A d, e \in 1..Len(frames') : ~(d < e)
        BY <4>1
      <4> QED
        BY <4>2, <4>3
    <3>2. CASE Len(frames') \in 0..Len(frames) /\ \A d \in 1..Len(frames') : frames'[d] = frames[d]
      <4>1. \A d \in 1..Len(frames') : d \in 1..Len(frames) /\ frames'[d] = frames[d]
        BY <1>0, <3>2
      <4>2. \A d \in 1..Len(frames') : frames'[d].sp <= savepointSeq'
        BY <1>0, <2>1, <4>1
      <4>3. ASSUME NEW d \in 1..Len(frames'), NEW e \in 1..Len(frames'), 1 < d, d < e
            PROVE  frames'[d].sp < frames'[e].sp
        <5>1. frames[d].sp < frames[e].sp
          BY <4>1, <4>3
        <5> QED
          BY <4>1, <5>1
      <4> QED
        BY <4>2, <4>3
    <3>3. CASE PopStep
      BY <1>0, <3>2, <3>3, PoppedStack
    <3>4. CASE FnGoexits
      <4>1. Len(frames') = 0
        BY <3>4 DEF FnGoexits
      <4> QED
        BY <1>0, <3>2, <4>1
    <3>5. CASE BeginFails \/ NestFails \/ NestRejected \/ QuietStep
               \/ \E w \in Writes : Write(w)
      <4>1. frames' = frames
        BY <3>5, QuietFacts DEF BeginFails, NestFails, NestRejected, Write, callVars
      <4> QED
        BY <1>0, <3>2, <4>1
    <3> QED
      BY <1>2, <3>1, <3>3, <3>4, <3>5, StepKinds
  <2> QED
    BY <2>3, <2>4, <2>5
<1> QED
  BY <1>1, <1>2

-----------------------------------------------------------------------------
(* What the steps do to the standing writes.                               *)

LEMMA StandingSame ==
  ASSUME TypeOK, PathInv,
         \/ UNCHANGED <<acked, path, outcome, stray>>
         \/ NestFails \/ NestRejected
  PROVE  Standing' = Standing /\ acked' = acked /\ path' = path
<1>1. CASE UNCHANGED <<acked, path, outcome, stray>>
  BY <1>1 DEF Standing, LetThrough
<1>2. CASE NestFails \/ NestRejected
  <2>1. /\ UNCHANGED <<acked, path, stray>>
        /\ outcome' = [outcome EXCEPT ![calls + 1] = "err"]
    BY <1>2 DEF NestFails, NestRejected, history
  <2>2. ASSUME NEW w \in acked, NEW c \in path[w]
        PROVE  outcome'[c] = outcome[c]
    <3>1. w \in Writes /\ c \in Calls /\ c <= calls
      BY <2>2 DEF TypeOK, PathInv
    <3>2. c # calls + 1
      BY <3>1 DEF Calls, TypeOK
    <3> QED
      BY <2>1, <3>1, <3>2 DEF TypeOK
  <2> QED
    BY <2>1, <2>2 DEF Standing, LetThrough
<1> QED
  BY <1>1, <1>2

(* A write joins the standing ones, inside every running call. *)
LEMMA StandingWrite ==
  ASSUME TypeOK, CallsInv, NEW w \in Writes, Write(w)
  PROVE  /\ Standing' = Standing \cup {w}
         /\ \A d \in 1..Len(frames) : frames[d].id \in path'[w]
         /\ \A v \in acked : path'[v] = path[v]
<1>1. /\ acked' = acked \cup {w} /\ w \notin acked
      /\ path' = [path EXCEPT ![w] = OpenCalls]
      /\ UNCHANGED <<outcome, stray>>
  BY DEF Write
<1>2. path'[w] = OpenCalls /\ \A v \in acked : path'[v] = path[v]
  BY <1>1 DEF TypeOK
<1>3. \A c \in OpenCalls : outcome[c] = "open"
  <2>1. OpenCalls \in SUBSET Calls
    BY StackType
  <2> QED
    BY <2>1 DEF CallsInv
<1>4. Standing' = Standing \cup {w}
  BY <1>1, <1>2, <1>3 DEF Standing, LetThrough
<1> QED
  BY <1>2, <1>4, StackType

(* How the writes around an open call fare when the innermost call closes. *)
LEMMA AroundPop ==
  ASSUME TypeOK, CallsInv, PathInv, PopStep,
         NEW d \in 1..(Len(frames) - 1)
  PROVE  {v \in Standing' : frames[d].id \notin path'[v]} = Around(frames[d].id)
<1>1. PICK res \in Outcomes \ {"open"} :
        /\ outcome' = [outcome EXCEPT ![Top.id] = res]
        /\ stray' = stray \/ stray' = stray \cup {Top.id}
  BY PopIsReturn DEF Return
<1>2. acked' = acked /\ path' = path /\ Top.id \in Calls /\ Len(frames) \in Nat \ {0}
  BY PoppedStack
<1>3. ASSUME NEW v \in acked, frames[d].id \notin path[v], NEW c \in path[v]
      PROVE  c \in Calls /\ outcome'[c] = outcome[c] /\ (c \in stray' <=> c \in stray)
  <2>1. Top.id \notin path[v]
    BY <1>2, <1>3 DEF PathInv, Top
  <2>2. c \in Calls /\ c # Top.id
    BY <1>3, <2>1 DEF TypeOK
  <2>3. outcome'[c] = outcome[c]
    BY <1>1, <2>2 DEF TypeOK
  <2> QED
    BY <1>1, <2>2, <2>3
<1>4. ASSUME NEW v \in acked, frames[d].id \notin path[v]
      PROVE  v \in Standing' <=> v \in Standing
  BY <1>2, <1>3, <1>4 DEF Standing, LetThrough
<1> QED
  BY <1>2, <1>4 DEF Around, Standing

(* What the end of a call does to the standing writes: nothing when it returns
   nil or its closing statement went astray; else they lose the writes of the call. *)
LEMMA StandingPop ==
  ASSUME TypeOK, CallsInv, PathInv, PopStep
  PROVE  /\ outcome'[Top.id] = "nil" => Standing' = Standing
         /\ Top.id \in stray' => Standing' = Standing
         /\ outcome'[Top.id] # "nil" /\ stray' = stray => Standing' = Around(Top.id)
<1>1. PICK res \in Outcomes \ {"open"} :
        /\ outcome' = [outcome EXCEPT ![Top.id] = res]
        /\ stray' = stray \/ stray' = stray \cup {Top.id}
  BY PopIsReturn DEF Return
<1>2. /\ acked' = acked /\ path' = path /\ Top.id \in Calls
      /\ Len(frames) \in Nat \ {0}
  BY PoppedStack
<1>3. outcome'[Top.id] = res /\ \A c \in Calls \ {Top.id} : outcome'[c] = outcome[c]
  BY <1>1, <1>2 DEF TypeOK
<1>4. Top.id \in OpenCalls
  BY <1>2, StackType DEF Top
<1>5. outcome[Top.id] = "open"
  BY <1>2, <1>4 DEF CallsInv
<1>6. Top.id \notin stray
  BY <1>5 DEF CallsInv
<1>7. \A c \in Calls \ {Top.id} : c \in stray' <=> c \in stray
  BY <1>1
<1>8. \A w \in acked : path[w] \in SUBSET Calls
  BY DEF TypeOK
<1>9. \A c \in Calls \ {Top.id} :
        (outcome'[c] = "open" \/ outcome'[c] = "nil" \/ c \in stray')
        <=> (outcome[c] = "open" \/ outcome[c] = "nil" \/ c \in stray)
  BY <1>3, <1>7
<1>10. ASSUME outcome'[Top.id] = "nil" \/ Top.id \in stray'
       PROVE  Standing' = Standing
  <2>1. \A c \in Calls :
          (outcome'[c] = "open" \/ outcome'[c] = "nil" \/ c \in stray')
          <=> (outcome[c] = "open" \/ outcome[c] = "nil" \/ c \in stray)
    BY <1>5, <1>9, <1>10
  <2> QED
    BY <1>2, <1>8, <2>1 DEF Standing, LetThrough
<1>11. ASSUME outcome'[Top.id] # "nil", stray' = stray
       PROVE  Standing' = Around(Top.id)
  <2>1. ~(outcome'[Top.id] = "open" \/ outcome'[Top.id] = "nil" \/ Top.id \in stray')
    BY <1>3, <1>6, <1>11
  <2> QED
    BY <1>2, <1>8, <1>9, <2>1 DEF Standing, LetThrough, Around
<1> QED
  BY <1>10, <1>11

(* A name on the engine's stack resolves to the one savepoint that bears it. *)
LEMMA NameIsUnique ==
  ASSUME TypeOK, NamesInv, NEW i \in 1..Len(sps), NEW j \in 1..Len(sps),
         sps[i].name <= sps[j].name
  PROVE  i <= j
<1>1. sps \in Seq(Savepoint) /\ Len(sps) \in Nat
  BY LenProperties DEF TypeOK, SqlTypeOK
<1>2. sps[i] \in Savepoint /\ sps[j] \in Savepoint
  BY <1>1, ElementOfSeq
<1>3. sps[i].name \in Nat /\ sps[j].name \in Nat
  BY <1>2 DEF Savepoint
<1>4. j < i => sps[j].name < sps[i].name
  BY <1>1 DEF NamesInv
<1> QED
  BY <1>1, <1>3, <1>4

(* ROLLBACK TO leaves what the savepoint of the innermost call remembers. *)
LEMMA OwnSavepoint ==
  ASSUME TypeOK, NamesInv, SavepointsInv, Nested, SqlRollbackTo(Top.sp)
  PROVE  log' = Around(Top.id)
<1>1. sps \in Seq(Savepoint) /\ Len(sps) \in Nat /\ Len(frames) \in Nat
  BY LenProperties, StackType DEF TypeOK, SqlTypeOK
<1>2. PICK i \in 1..Len(sps) : sps[i].name = Top.sp /\ log' = sps[i].saved
  BY <1>1, LenProperties DEF SqlRollbackTo, Resolves
<1>3. Len(frames) \in 2..Len(frames)
  BY <1>1 DEF Nested
<1>4. PICK j \in 1..Len(sps) : sps[j].name = Top.sp /\ sps[j].saved = Around(Top.id)
  BY <1>3 DEF SavepointsInv, SqlRollbackTo, Top
<1>5. sps[i].name <= sps[j].name /\ sps[j].name <= sps[i].name
  <2>1. Top.sp \in Nat
    BY <1>3, StackType DEF Top
  <2> QED
    BY <1>2, <1>4, <2>1
<1>6. i = j
  BY <1>5, NameIsUnique
<1> QED
  BY <1>2, <1>4, <1>6

(* The savepoint of an enclosing call outlives the closing statements of the
   innermost; ROLLBACK TO keeps the innermost call's own as well. *)
LEMMA SavepointSurvives ==
  ASSUME TypeOK, NamesInv, NEW d \in 2..Len(frames), NEW k \in 1..Len(sps),
         sps[k].name = frames[d].sp,
         \/ SqlRollbackTo(Top.sp)
         \/ SqlRelease(Top.sp) /\ d < Len(frames)
  PROVE  k \in 1..Len(sps') /\ sps'[k] = sps[k]
<1>1. /\ sps \in Seq(Savepoint) /\ Len(sps) \in Nat /\ Len(frames) \in Nat
      /\ \A e \in 1..Len(frames) : frames[e].sp \in Nat
  BY LenProperties, StackType DEF TypeOK, SqlTypeOK
<1>2. d \in 1..Len(frames) /\ Len(frames) \in 1..Len(frames)
  BY <1>1
<1>3. d < Len(frames) => frames[d].sp < Top.sp
  BY <1>1, <1>2 DEF NamesInv, Top
<1>4. frames[d].sp <= Top.sp
  <2>1. d < Len(frames) \/ d = Len(frames)
    BY <1>1, <1>2
  <2> QED
    BY <1>1, <1>2, <1>3, <2>1 DEF Top
<1>5. CASE SqlRollbackTo(Top.sp)
  <2>1. PICK i \in 1..Len(sps) : sps[i].name = Top.sp /\ sps' = SubSeq(sps, 1, i)
    BY <1>1, <1>5, LenProperties DEF SqlRollbackTo, Resolves
  <2>2. k <= i
    BY <1>4, <2>1, NameIsUnique
  <2>3. i \in 0..Len(sps)
    BY <1>1
  <2>4. Len(sps') = i /\ \A j \in 1..i : sps'[j] = sps[j]
    BY <1>1, <2>1, <2>3, PrefixFact
  <2> QED
    BY <1>1, <2>2, <2>4
<1>6. CASE SqlRelease(Top.sp) /\ d < Len(frames)
  <2>1. PICK i \in 1..Len(sps) : sps[i].name = Top.sp /\ sps' = SubSeq(sps, 1, i - 1)
    BY <1>1, <1>6, LenProperties DEF SqlRelease, Resolves
  <2>2. k <= i
    BY <1>4, <2>1, NameIsUnique
  <2>3. k # i
    BY <1>1, <1>2, <1>3, <1>6, <2>1
  <2>4. i - 1 \in 0..Len(sps)
    BY <1>1
  <2>5. Len(sps') = i - 1 /\ \A j \in 1..(i - 1) : sps'[j] = sps[j]
    BY <1>1, <2>1, <2>4, PrefixFact
  <2>6. k \in 1..(i - 1)
    BY <1>1, <2>2, <2>3
  <2> QED
    BY <2>5, <2>6
<1> QED
  BY <1>5, <1>6

(* What a step that pops may do to the engine's savepoints. *)
LEMMA PopEngine ==
  ASSUME TypeOK, StartInv, PopStep, srv' # "closed", Len(frames) > 1
  PROVE  UNCHANGED sqlVars \/ SqlRollbackTo(Top.sp) \/ SqlRelease(Top.sp)
BY DEF PopStep, StartInv, Nested, Release, ReleaseRefused, RollbackToRefused,
   ReleaseAfterRollback, UnwindNested, UnwindRoot, CommitAfterExpiry, Commit, Rollback

(* Every step keeps SavepointsInv: each running nested call finds its savepoint
   again, with what it held when the call began. *)
LEMMA SavepointsStep ==
  ASSUME TypeOK, CallsInv, PathInv, NamesInv, SavepointsInv, LogInv, StartInv, Next
  PROVE  SavepointsInv'
<1>0. /\ Len(sps) \in Nat /\ Len(frames) \in Nat /\ sps \in Seq(Savepoint)
  BY LenProperties, StackType DEF TypeOK, SqlTypeOK
<1> SUFFICES ASSUME srv' # "closed", NEW d \in 2..Len(frames')
             PROVE  \E i \in 1..Len(sps') :
                      /\ sps'[i].name = frames'[d].sp
                      /\ sps'[i].saved = {v \in Standing' : frames'[d].id \notin path'[v]}
  BY DEF SavepointsInv, Around
<1>1. CASE Begin
  <2>1. Len(frames') = 1
    BY <1>1, FirstStack
  <2> QED
    BY <2>1
<1>2. CASE FnGoexits
  <2>1. Len(frames') = 0
    BY <1>2 DEF FnGoexits
  <2> QED
    BY <2>1
<1>3. CASE PopStep
  <2>1. /\ Len(frames') = Len(frames) - 1 /\ frames'[d] = frames[d]
        /\ d \in 1..(Len(frames) - 1) /\ d \in 2..Len(frames) /\ d < Len(frames)
    BY <1>0, <1>3, PoppedStack
  <2>2. {v \in Standing' : frames[d].id \notin path'[v]} = Around(frames[d].id)
    BY <1>3, <2>1, AroundPop
  <2>3. srv # "closed" /\ (UNCHANGED sqlVars \/ SqlRollbackTo(Top.sp) \/ SqlRelease(Top.sp))
    BY <1>0, <1>3, <2>1, PopEngine DEF SqlRollbackTo, SqlRelease, sqlVars
  <2>4. PICK i \in 1..Len(sps) :
          sps[i].name = frames[d].sp /\ sps[i].saved = Around(frames[d].id)
    BY <2>1, <2>3 DEF SavepointsInv
  <2>5. i \in 1..Len(sps') /\ sps'[i] = sps[i]
    BY <2>1, <2>3, <2>4, SavepointSurvives DEF sqlVars
  <2> QED
    BY <2>1, <2>2, <2>4, <2>5
<1>4. CASE RollbackTo
  <2>1. /\ UNCHANGED <<frames, acked, path, outcome, stray>>
        /\ SqlRollbackTo(Top.sp) /\ srv # "closed"
    BY <1>4 DEF RollbackTo, history, SqlRollbackTo
  <2>2. PICK i \in 1..Len(sps) :
          sps[i].name = frames[d].sp /\ sps[i].saved = Around(frames[d].id)
    BY <2>1 DEF SavepointsInv
  <2>3. i \in 1..Len(sps') /\ sps'[i] = sps[i]
    BY <2>1, <2>2, SavepointSurvives
  <2> QED
    BY <2>1, <2>2, <2>3, StandingSame DEF Around
<1>5. CASE Nest
  <2>1. /\ sps' = Append(sps, [name |-> savepointSeq + 1, saved |-> log])
        /\ srv = "open" /\ pc = "fn" /\ Sends
        /\ UNCHANGED <<acked, path, outcome, stray>>
    BY <1>5 DEF Nest, SqlSavepoint, NextName, history
  <2>2. [name |-> savepointSeq + 1, saved |-> log] \in Savepoint
    BY DEF Savepoint, TypeOK, SqlTypeOK
  <2>3. /\ Len(sps') = Len(sps) + 1
        /\ \A i \in 1..Len(sps) : sps'[i] = sps[i]
        /\ sps'[Len(sps) + 1] = [name |-> savepointSeq + 1, saved |-> log]
    BY <1>0, <2>1, <2>2, AppendProperties
  <2>4. Standing' = Standing /\ path' = path
    BY <2>1, StandingSame
  <2>5. CASE d = Len(frames) + 1
    <3>1. frames # << >> /\ 1 \in DOMAIN frames /\ frames[1].ctx = Root
      <4>1. frames # << >>
        BY <2>1 DEF TypeOK, Running
      <4>2. Len(frames) # 0
        BY <4>1, TopType
      <4> QED
        BY <1>0, <4>1, <4>2, LenProperties DEF CallsInv, TypeOK
    <3>2. Root \notin dead
      BY <2>1, <3>1 DEF Sends, CtxDead
    <3>3. log = Standing
      BY <2>1, <3>2 DEF LogInv, Held, Running
    <3>4. \A v \in Standing : calls + 1 \notin path[v]
      <4>1. ASSUME NEW v \in Standing, calls + 1 \in path[v]
            PROVE  FALSE
        <5>1. calls + 1 <= calls
          BY <4>1 DEF PathInv, Standing, TypeOK
        <5> QED
          BY <5>1 DEF TypeOK
      <4> QED
        BY <4>1
    <3>5. frames'[d].id = calls + 1 /\ frames'[d].sp = savepointSeq + 1
      BY <1>5, <2>5, PushedStack
    <3>6. {v \in Standing' : frames'[d].id \notin path'[v]} = Standing
      BY <2>4, <3>4, <3>5
    <3> QED
      BY <1>0, <2>3, <3>3, <3>5, <3>6
  <2>6. CASE d \in 2..Len(frames)
    <3>1. frames'[d] = frames[d]
      BY <1>0, <1>5, <2>6, PushedStack
    <3>2. PICK i \in 1..Len(sps) :
            sps[i].name = frames[d].sp /\ sps[i].saved = Around(frames[d].id)
      BY <2>1, <2>6 DEF SavepointsInv
    <3>3. i \in 1..Len(sps') /\ sps'[i] = sps[i]
      BY <1>0, <2>3
    <3> QED
      BY <2>4, <3>1, <3>2, <3>3 DEF Around
  <2>7. d = Len(frames) + 1 \/ d \in 2..Len(frames)
    BY <1>0, <1>5, PushedStack
  <2> QED
    BY <2>5, <2>6, <2>7
<1>6. ASSUME NEW w \in Writes, Write(w)
      PROVE  \E i \in 1..Len(sps') :
               /\ sps'[i].name = frames'[d].sp
               /\ sps'[i].saved = {v \in Standing' : frames'[d].id \notin path'[v]}
  <2>1. UNCHANGED <<frames, sps>> /\ srv = "open"
    BY <1>6 DEF Write, SqlWrite, callVars
  <2>2. {v \in Standing' : frames[d].id \notin path'[v]} = Around(frames[d].id)
    <3>1. d \in 1..Len(frames)
      BY <1>0, <2>1
    <3>2. /\ Standing' = Standing \cup {w}
          /\ frames[d].id \in path'[w]
          /\ \A v \in acked : path'[v] = path[v]
      BY <1>6, <3>1, StandingWrite
    <3> QED
      BY <3>2 DEF Around, Standing
  <2> QED
    BY <2>1, <2>2 DEF SavepointsInv
<1>7. CASE BeginFails \/ NestFails \/ NestRejected \/ (QuietStep /\ ~RollbackTo)
  <2>1. frames' = frames
    BY <1>7, QuietFacts DEF BeginFails, NestFails, NestRejected
  <2>2. Standing' = Standing /\ path' = path
    <3>1. CASE BeginFails
      <4>1. UNCHANGED <<acked, path, stray>> /\ acked = {}
        BY <3>1 DEF BeginFails, StartInv, history
      <4> QED
        BY <4>1 DEF Standing
    <3>2. CASE ~BeginFails
      BY <1>7, <3>2, QuietFacts, StandingSame
    <3> QED
      BY <3>1, <3>2
  <2>3. sps' = sps /\ srv # "closed"
    BY <1>7 DEF BeginFails, NestFails, NestRejected, QuietStep, WriteFails, SqlStatementFails,
       ControlStep, FnReturnsNil, FnReturnsError, FnPanics, FnRecovers, Surroundings, Expire,
       AwaitDone, ConnectionLost, SqlRollback, SqlConnectionLost, EngineEnds, Finished,
       sqlVars, vars
  <2> QED
    BY <2>1, <2>2, <2>3 DEF SavepointsInv, Around
<1> QED
  BY <1>1, <1>2, <1>3, <1>4, <1>5, <1>6, <1>7, StepKinds

(* A closing statement that was not sent to a usable transaction whose
   context lives was held back by a context of a nested call. *)
LEMMA RefusedByOwnCtx ==
  ASSUME StartInv, srv = "open", Root \notin dead, ~Sends
  PROVE  OnlyOwnCtxDead
BY DEF StartInv, Sends, OnlyOwnCtxDead

(* Every step keeps LogInv: the engine holds exactly the standing writes. *)
LEMMA LogStep ==
  ASSUME TypeOK, CallsInv, PathInv, NamesInv, SavepointsInv, LogInv, StartInv, Next
  PROVE  LogInv'
<1> SUFFICES ASSUME srv' = "open", pc' \in Running, Root \notin dead'
             PROVE  log' = Held'
  BY DEF LogInv
<1>1. CASE Begin
  <2>1. log' = {} /\ pc' = "fn" /\ UNCHANGED <<acked, path, outcome, stray>> /\ acked = {}
    BY <1>1 DEF Begin, SqlBegin, StartInv, history
  <2> QED
    BY <2>1 DEF Held, Standing
<1>2. CASE \E w \in Writes : Write(w)
  <2>1. PICK w \in Writes : Write(w)
    BY <1>2
  <2>2. /\ pc = "fn" /\ pc' = "fn" /\ srv = "open" /\ dead' = dead
        /\ log' = log \cup {w}
    BY <2>1 DEF Write, SqlWrite, callVars
  <2>3. log = Standing
    BY <2>2 DEF LogInv, Held, Running
  <2> QED
    BY <2>1, <2>2, <2>3, StandingWrite DEF Held
<1>3. CASE Nest \/ NestFails \/ NestRejected \/ WriteFails
  <2>1. /\ pc = "fn" /\ pc' = "fn" /\ srv = "open" /\ dead' = dead /\ log' = log
    BY <1>3 DEF Nest, NestFails, NestRejected, WriteFails, SqlSavepoint, SqlStatementFails,
       sqlVars, callVars
  <2>2. log = Standing
    BY <2>1 DEF LogInv, Held, Running
  <2>3. Standing' = Standing
    BY <1>3, StandingSame DEF Nest, WriteFails, history
  <2> QED
    BY <2>1, <2>2, <2>3 DEF Held
<1>4. CASE ControlStep
  <2>1. /\ pc \in {"fn", "unwind"} /\ pc' # "releaseAfterRollback"
        /\ UNCHANGED <<srv, log, dead, acked, path, outcome, stray>>
    BY <1>4 DEF ControlStep, FnReturnsNil, FnReturnsError, FnPanics, FnRecovers, sqlVars,
       history
  <2> QED
    BY <2>1, StandingSame DEF LogInv, Held, Running
<1>5. CASE RollbackTo
  <2>1. /\ SqlRollbackTo(Top.sp) /\ Nested /\ pc' = "releaseAfterRollback"
        /\ UNCHANGED <<frames, acked, path, outcome, stray>>
    BY <1>5 DEF RollbackTo, StartInv, history
  <2>2. log' = Around(Top.id)
    BY <2>1, OwnSavepoint
  <2> QED
    BY <2>1, <2>2, StandingSame DEF Around, Top, Held
<1>6. CASE PopStep /\ pc' # "done"
  <2>1. dead' = dead /\ pc' # "releaseAfterRollback" /\ pc' \in {"fn", "unwind"}
    BY <1>6, PopIsReturn DEF Return
  <2>2. Top.id \in Calls
    BY <1>6, PoppedStack
  <2>3. CASE Release
    <3>1. log' = log /\ srv = "open" /\ pc = "release" /\ outcome'[Top.id] = "nil"
      BY <2>2, <2>3 DEF Release, SqlRelease, ReturnToParent, Return, TypeOK
    <3> QED
      BY <1>6, <2>1, <3>1, StandingPop DEF LogInv, Held, Running
  <2>4. CASE /\ ReleaseRefused \/ RollbackToRefused
                \/ (UnwindNested /\ UNCHANGED sqlVars /\ ReturnRefused("panic", "unwind"))
             /\ ~Sends
    <3>1. /\ log' = log /\ srv = "open" /\ pc \in Running
          /\ pc # "releaseAfterRollback"
      BY <2>4 DEF ReleaseRefused, RollbackToRefused, UnwindNested, sqlVars, Running
    <3>2. Top.id \in stray'
      BY <2>1, <2>4, <3>1, RefusedByOwnCtx DEF ReleaseRefused, RollbackToRefused, ReturnRefused
    <3> QED
      BY <1>6, <2>1, <3>1, <3>2, StandingPop DEF LogInv, Held
  <2>5. CASE ReleaseAfterRollback
    <3>1. /\ log' = log /\ srv = "open" /\ pc = "releaseAfterRollback"
          /\ outcome'[Top.id] # "nil" /\ stray' = stray
      BY <2>2, <2>5 DEF ReleaseAfterRollback, SqlRelease, ReturnToParent, Return, TypeOK,
         sqlVars
    <3> QED
      BY <1>6, <2>1, <3>1, StandingPop DEF LogInv, Held, Running
  <2>6. CASE UnwindNested /\ SqlRollbackTo(Top.sp) /\ ReturnToParent("panic", "unwind")
    <3>1. log' = Around(Top.id)
      BY <2>6, OwnSavepoint DEF UnwindNested
    <3>2. outcome'[Top.id] # "nil" /\ stray' = stray
      BY <2>2, <2>6 DEF ReturnToParent, Return, TypeOK
    <3> QED
      BY <1>6, <2>1, <3>1, <3>2, StandingPop DEF Held
  <2>7. \/ Release \/ ReleaseAfterRollback
        \/ /\ ReleaseRefused \/ RollbackToRefused
              \/ (UnwindNested /\ UNCHANGED sqlVars /\ ReturnRefused("panic", "unwind"))
           /\ ~Sends
        \/ UnwindNested /\ SqlRollbackTo(Top.sp) /\ ReturnToParent("panic", "unwind")
    BY <1>6 DEF PopStep, ReleaseRefused, RollbackToRefused, UnwindNested, UnwindRoot,
       CommitAfterExpiry, Commit, Rollback, ReturnToParent, Return, sqlVars
  <2> QED
    BY <2>3, <2>4, <2>5, <2>6, <2>7
<1>7. CASE Surroundings \/ Finished
  <2>1. /\ UNCHANGED <<srv, log, pc, frames, acked, path, outcome, stray>>
        /\ Root \notin dead
    BY <1>7 DEF Surroundings, Expire, AwaitDone, ConnectionLost, SqlRollback,
       SqlConnectionLost, EngineEnds, Finished, sqlVars, callVars, history, vars
  <2> QED
    BY <2>1, StandingSame DEF LogInv, Held, Around, Top
<1>8. CASE BeginFails \/ FnGoexits \/ (PopStep /\ pc' = "done")
  BY <1>8 DEF BeginFails, FnGoexits, Running
<1> QED
  BY <1>1, <1>2, <1>3, <1>4, <1>5, <1>6, <1>7, <1>8, StepKinds DEF QuietStep

-----------------------------------------------------------------------------
(* While it runs, the outermost call is open, and it is the first frame. *)
LEMMA RootIsOpen ==
  ASSUME TypeOK, CallsInv, frames # << >>
  PROVE  /\ Root \in OpenCalls /\ Root \in Calls /\ outcome[Root] = "open"
         /\ Nested => Top.id # Root
         /\ ~Nested => Top.id = Root
<1>1. /\ Len(frames) \in Nat \ {0}
      /\ \A d \in 1..Len(frames) : frames[d].id \in Nat /\ frames[d].id \in Calls
      /\ OpenCalls = {frames[d].id : d \in 1..Len(frames)}
  BY TopType, StackType
<1>2. frames[1].id = Root /\ 1 \in 1..Len(frames)
  BY <1>1 DEF CallsInv
<1>3. Root \in OpenCalls /\ Root \in Calls /\ outcome[Root] = "open"
  BY <1>1, <1>2 DEF CallsInv
<1>4. Nested => frames[1].id < Top.id
  BY <1>1, <1>2 DEF Nested, CallsInv, Top
<1>5. ~Nested => Len(frames) = 1
  <2>1. \A n \in Nat \ {0} : n > 1 \/ n = 1
    OBVIOUS
  <2> QED
    BY <2>1, TopType DEF Nested
<1> QED
  BY <1>1, <1>2, <1>3, <1>4, <1>5 DEF Top, Root

(* When the outermost call is the only one left, the writes it would commit
   are those that stand. *)
LEMMA StandingIsKept ==
  ASSUME TypeOK, CallsInv, PathInv, frames # << >>, ~Nested
  PROVE  Standing = Kept
<1>1. OpenCalls = {Root}
  <2>1. Len(frames) \in Nat \ {0} /\ frames[1].id = Root
    BY TopType DEF CallsInv
  <2>2. Len(frames) = 1
    <3>1. \A n \in Nat \ {0} : n > 1 \/ n = 1
      OBVIOUS
    <3> QED
      BY <2>1, <3>1 DEF Nested
  <2> QED
    BY <2>1, <2>2, StackType
<1>2. outcome[Root] = "open"
  BY RootIsOpen
<1>3. ASSUME NEW w \in acked, NEW c \in path[w] \ {Root}
      PROVE  outcome[c] # "open"
  <2>1. c \in Calls /\ c <= calls /\ c \notin OpenCalls
    BY <1>1, <1>3 DEF PathInv, TypeOK
  <2>2. ~(c > calls)
    BY <2>1 DEF Calls, TypeOK
  <2> QED
    BY <2>1, <2>2 DEF CallsInv
<1> QED
  BY <1>2, <1>3 DEF Standing, Kept

(* Returning from the outermost call does not change what it kept. *)
LEMMA KeptAtReturn ==
  ASSUME TypeOK, CallsInv, PopStep, ~Nested, stray' = stray
  PROVE  Kept' = Kept
<1>1. PICK res \in Outcomes : outcome' = [outcome EXCEPT ![Top.id] = res]
  BY PopIsReturn DEF Return
<1>2. acked' = acked /\ path' = path /\ Top.id = Root
  BY PoppedStack, RootIsOpen, PopIsReturn
<1>3. \A w \in acked : \A c \in path[w] \ {Root} : outcome'[c] = outcome[c]
  BY <1>1, <1>2 DEF TypeOK
<1> QED
  BY <1>2, <1>3 DEF Kept, LetThrough

(* Every step keeps AtomicOutcome; the step that matters is Commit, by LogInv. *)
LEMMA OutcomeStep ==
  ASSUME TypeOK, CallsInv, PathInv, LogInv, StartInv, AtomicOutcome, Next
  PROVE  AtomicOutcome'
<1> USE DEF AtomicOutcome
<1>0. Root \in Calls
  BY CallsAssumption DEF Root, Calls
<1>1. CASE Begin \/ BeginFails
  <2>1. frames = << >> /\ calls = 0
    BY <1>1 DEF Begin, BeginFails, TypeOK, Running, StartInv
  <2>2. outcome[Root] = "open"
    BY <1>0, <2>1 DEF CallsInv, Root
  <2>3. db' = {} /\ outcome'[Root] \in {"open", "err"}
    BY <1>0, <1>1, <2>2 DEF Begin, BeginFails, SqlBegin, sqlVars, TypeOK
  <2> QED
    BY <2>3
<1>2. CASE (\E w \in Writes : Write(w)) \/ Nest \/ NestFails \/ NestRejected
  <2>1. frames # << >> /\ calls # 0
    BY <1>2 DEF Write, Nest, NestFails, NestRejected, TypeOK, Running, StartInv, Root
  <2>2. outcome[Root] = "open" /\ db = {}
    BY <2>1, RootIsOpen
  <2>3. db' = db /\ outcome'[Root] = outcome[Root]
    BY <1>0, <1>2, <2>1 DEF Write, SqlWrite, Nest, SqlSavepoint, NestFails, NestRejected,
       SqlStatementFails, sqlVars, TypeOK, Root
  <2> QED
    BY <2>2, <2>3
<1>3. CASE FnGoexits
  <2>1. frames # << >>
    BY <1>3 DEF FnGoexits, TypeOK, Running
  <2>2. db' = {} /\ outcome'[Root] = "goexit"
    BY <1>0, <1>3, <2>1, RootIsOpen DEF FnGoexits, sqlVars
  <2> QED
    BY <2>2
<1>4. CASE PopStep
  <2>1. frames # << >> /\ Top.id \in Calls
    BY <1>4, PopIsReturn, PoppedStack
  <2>2. outcome[Root] = "open" /\ db = {}
    BY <2>1, RootIsOpen
  <2>3. CASE Commit
    <3>1. pc = "commit" /\ Root \notin dead /\ ~Nested /\ Top.id = Root /\ stray' = stray
      BY <2>1, <2>3, RootIsOpen DEF Commit, ReturnToParent, StartInv
    <3>2. Kept' = Kept /\ Standing = Kept
      BY <1>4, <2>1, <3>1, StandingIsKept, KeptAtReturn
    <3>3. CASE SqlCommitAccepted /\ ReturnToParent("nil", "done")
      <4>1. outcome'[Root] = "nil" /\ db' = log /\ srv = "open"
        BY <1>0, <2>2, <3>1, <3>3 DEF SqlCommitAccepted, EngineEnds, ReturnToParent, Return,
           TypeOK
      <4>2. log = Standing
        BY <3>1, <4>1 DEF LogInv, Held, Running
      <4> QED
        BY <3>2, <4>1, <4>2
    <3>4. CASE SqlCommitRefused /\ ReturnToParent("err", "done")
      BY <1>0, <2>2, <3>1, <3>4 DEF SqlCommitRefused, EngineEnds, ReturnToParent, Return, TypeOK
    <3>5. CASE SqlCommitInDoubt /\ ReturnToParent("doubt", "done")
      <4>1. outcome'[Root] = "doubt" /\ db' \in {{}, log} /\ srv = "open"
        BY <1>0, <2>2, <3>1, <3>5 DEF SqlCommitInDoubt, EngineEnds, ReturnToParent, Return,
           TypeOK
      <4>2. log = Standing
        BY <3>1, <4>1 DEF LogInv, Held, Running
      <4> QED
        BY <3>2, <4>1, <4>2
    <3> QED
      BY <2>3, <3>3, <3>4, <3>5 DEF Commit
  <2>4. CASE CommitAfterExpiry \/ Rollback \/ UnwindRoot
    <3>1. ~Nested /\ Top.id = Root
      BY <2>1, <2>4, RootIsOpen DEF CommitAfterExpiry, Rollback, UnwindRoot, StartInv
    <3>2. outcome'[Root] \in {"err", "panic"} /\ db' = {}
      BY <1>0, <2>2, <2>4, <3>1 DEF CommitAfterExpiry, Rollback, UnwindRoot, RollbackIfOpen,
         SqlRollback, EngineEnds, ReturnToParent, Return, TypeOK, sqlVars
    <3> QED
      BY <3>2
  <2>5. CASE \/ Release \/ ReleaseRefused \/ RollbackToRefused \/ ReleaseAfterRollback
             \/ UnwindNested
    <3>1. Nested /\ Top.id # Root
      BY <2>1, <2>5, RootIsOpen DEF Release, ReleaseRefused, RollbackToRefused,
         ReleaseAfterRollback, UnwindNested, StartInv
    <3>2. outcome'[Root] = "open" /\ db' = {}
      BY <1>0, <2>2, <2>5, <3>1 DEF Release, ReleaseRefused, RollbackToRefused,
         ReleaseAfterRollback, UnwindNested, SqlRelease, SqlRollbackTo, ReturnToParent,
         ReturnRefused, Return, TypeOK, sqlVars
    <3> QED
      BY <3>2
  <2> QED
    BY <1>4, <2>3, <2>4, <2>5 DEF PopStep
<1>5. CASE QuietStep
  <2>1. db' = db
    BY <1>5 DEF QuietStep, WriteFails, SqlStatementFails, ControlStep, FnReturnsNil,
       FnReturnsError, FnPanics, FnRecovers, RollbackTo, SqlRollbackTo, Surroundings, Expire,
       AwaitDone, ConnectionLost, SqlRollback, SqlConnectionLost, EngineEnds, Finished,
       sqlVars, vars
  <2> QED
    BY <1>5, <2>1, QuietFacts DEF Kept, LetThrough
<1> QED
  BY <1>1, <1>2, <1>3, <1>4, <1>5, StepKinds

(* Every step keeps NothingLeftOpen: each way out of InTx closes the transaction. *)
LEMMA LeftOpenStep ==
  ASSUME TypeOK, CallsInv, StartInv, NothingLeftOpen, Next
  PROVE  NothingLeftOpen'
<1> USE DEF NothingLeftOpen
<1>1. CASE BeginFails
  BY <1>1 DEF BeginFails, StartInv, sqlVars
<1>2. CASE FnGoexits
  <2>1. frames # << >>
    BY <1>2 DEF FnGoexits, TypeOK, Running
  <2> QED
    BY <1>2, <2>1, RootIsOpen DEF FnGoexits
<1>3. CASE PopStep /\ pc' = "done"
  BY <1>3 DEF PopStep, Release, ReleaseRefused, RollbackToRefused, ReleaseAfterRollback,
     UnwindNested, UnwindRoot, CommitAfterExpiry, Commit, Rollback, RollbackIfOpen,
     SqlRollback, SqlCommitAccepted, SqlCommitRefused, SqlCommitInDoubt, ReturnToParent,
     ReturnRefused, Return, sqlVars
<1>4. CASE Surroundings \/ Finished
  BY <1>4 DEF Surroundings, Expire, AwaitDone, ConnectionLost, SqlRollback,
     SqlConnectionLost, Finished, sqlVars, callVars, vars
<1>5. CASE \/ Begin \/ Nest \/ NestFails \/ NestRejected \/ WriteFails \/ ControlStep
           \/ RollbackTo \/ (PopStep /\ pc' # "done") \/ \E w \in Writes : Write(w)
  <2>1. pc' # "done"
    BY <1>5 DEF Begin, Nest, NestFails, NestRejected, WriteFails, ControlStep, FnReturnsNil,
       FnReturnsError, FnPanics, FnRecovers, RollbackTo, Write, callVars
  <2> QED
    BY <2>1
<1> QED
  BY <1>1, <1>2, <1>3, <1>4, <1>5, StepKinds DEF QuietStep

-----------------------------------------------------------------------------
(* The inductive invariant holds at the start. *)
LEMMA InitInv == Init => IInv
<1> SUFFICES ASSUME Init PROVE IInv
  OBVIOUS
<1> USE DEF Init, SqlInit
<1>1. TypeOK
  <2>1. << >> \in Seq(Savepoint) /\ << >> \in Seq(Frame)
    BY EmptySeq
  <2>2. outcome \in [Calls -> Outcomes] /\ path \in [Writes -> SUBSET Calls]
    BY DEF Outcomes
  <2>3. SqlTypeOK
    BY <2>1 DEF SqlTypeOK
  <2>4. calls \in 0..MaxCalls /\ savepointSeq \in Nat
    BY CallsAssumption
  <2>5. frames \in Seq(Frame) /\ (pc \in Running <=> frames # << >>)
    BY <2>1 DEF Running
  <2> QED
    BY <2>2, <2>3, <2>4, <2>5 DEF TypeOK
<1>2. Root \in Calls /\ \A c \in Calls : c > 0
  BY CallsAssumption DEF Root, Calls
<1>3. CallsInv
  BY <1>2 DEF CallsInv
<1>4. PathInv /\ NamesInv /\ SavepointsInv
  BY DEF PathInv, NamesInv, SavepointsInv
<1>5. LogInv /\ StartInv
  BY DEF LogInv, StartInv
<1>6. AtomicOutcome /\ NothingLeftOpen
  BY <1>2 DEF AtomicOutcome, NothingLeftOpen
<1> QED
  BY <1>1, <1>3, <1>4, <1>5, <1>6 DEF IInv

(* Every step keeps it. *)
LEMMA StepInv == IInv /\ [Next]_vars => IInv'
<1> SUFFICES ASSUME IInv, [Next]_vars PROVE IInv'
  OBVIOUS
<1> USE DEF IInv
<1>1. CASE Next
  <2>1. TypeOK' /\ StartInv' /\ CallsInv' /\ PathInv'
    BY <1>1, TypeStep, StartStep, CallsStep, PathStep
  <2>2. NamesInv' /\ SavepointsInv' /\ LogInv'
    BY <1>1, NamesStep, SavepointsStep, LogStep
  <2>3. AtomicOutcome' /\ NothingLeftOpen'
    BY <1>1, OutcomeStep, LeftOpenStep
  <2> QED
    BY <2>1, <2>2, <2>3
<1>2. CASE UNCHANGED vars
  <2> USE <1>2 DEF vars, sqlVars, callVars, history
  <2>1. TypeOK'
    BY DEF TypeOK, SqlTypeOK
  <2>2. CallsInv' /\ PathInv' /\ NamesInv'
    BY DEF CallsInv, OpenCalls, PathInv, NamesInv
  <2>3. SavepointsInv' /\ LogInv'
    BY DEF SavepointsInv, Around, Standing, LetThrough, LogInv, Held, Top
  <2>4. StartInv' /\ AtomicOutcome' /\ NothingLeftOpen'
    BY DEF StartInv, Nested, AtomicOutcome, Kept, LetThrough, NothingLeftOpen
  <2> QED
    BY <2>1, <2>2, <2>3, <2>4
<1> QED
  BY <1>1, <1>2

(* The inductive invariant holds in every behaviour. *)
LEMMA AlwaysIInv == Spec => []IInv
BY InitInv, StepInv, PTL DEF Spec

(* InTx keeps its state well formed, however deep the calls nest. *)
THEOREM TypeCorrect == Spec => []TypeOK
<1>1. IInv => TypeOK
  BY DEF IInv
<1> QED
  BY <1>1, AlwaysIInv, PTL

(* InTx is all or nothing at every depth, for every engine, any use of
   contexts and any failure: what it reports is what the database holds. *)
THEOREM AllOrNothing == Spec => []AtomicOutcome
<1>1. IInv => AtomicOutcome
  BY DEF IInv
<1> QED
  BY <1>1, AlwaysIInv, PTL

(* InTx never ends with its transaction open, a Goexit excepted, unless the
   context's expiry is about to end it. *)
THEOREM NoneLeftOpen == Spec => []NothingLeftOpen
<1>1. IInv => NothingLeftOpen
  BY DEF IInv
<1> QED
  BY <1>1, AlwaysIInv, PTL

(* The name of a running nested call always resolves, in the engine, to the
   savepoint that call set, whatever savepoints panics left behind. *)
THEOREM SavepointsHold == Spec => []SavepointsFollowCalls
<1>1. IInv => SavepointsFollowCalls
  <2> SUFFICES ASSUME IInv, srv # "closed", NEW d \in 2..Len(frames)
               PROVE  \E i \in DOMAIN sps :
                        /\ Resolves(frames[d].sp, i)
                        /\ sps[i].saved = {w \in Standing : frames[d].id \notin path[w]}
    BY DEF SavepointsFollowCalls
  <2>1. TypeOK /\ NamesInv /\ SavepointsInv
    BY DEF IInv
  <2>2. PICK i \in 1..Len(sps) :
          sps[i].name = frames[d].sp /\ sps[i].saved = Around(frames[d].id)
    BY <2>1 DEF SavepointsInv
  <2>3. DOMAIN sps = 1..Len(sps) /\ Len(sps) \in Nat
    BY <2>1, LenProperties DEF TypeOK, SqlTypeOK
  <2>4. \A j \in 1..Len(sps) : j > i => sps[j].name # sps[i].name
    <3>1. ASSUME NEW j \in 1..Len(sps), j > i, sps[j].name = sps[i].name
          PROVE  FALSE
      <4>1. sps[i] \in Savepoint
        BY <2>1, ElementOfSeq DEF TypeOK, SqlTypeOK
      <4>2. sps[j].name <= sps[i].name
        BY <3>1, <4>1 DEF Savepoint
      <4>3. j <= i
        BY <2>1, <4>2, NameIsUnique
      <4> QED
        BY <2>3, <3>1, <4>3
    <3> QED
      BY <3>1
  <2> QED
    BY <2>2, <2>3, <2>4 DEF Resolves, Around
<1> QED
  BY <1>1, AlwaysIInv, PTL

-----------------------------------------------------------------------------
(* Without contexts of their own, nested calls share the fate of the
   outermost call's context, and no closing statement goes astray. *)
OneContext ==
  /\ stray = {}
  /\ \A d \in 1..Len(frames) : frames[d].ctx = Root

(* Without contexts of their own, nested calls never close astray. *)
LEMMA OneContextStep ==
  ASSUME ~ScopedCtx, IInv, OneContext, Next
  PROVE  OneContext'
<1> USE DEF IInv, OneContext
<1>0. Len(frames) \in Nat
  BY StackType
<1>1. CASE Begin
  BY <1>1, FirstStack DEF Begin, history
<1>2. CASE Nest
  <2>1. PICK c \in CtxChoices(calls + 1) :
          frames' = Append(frames, [id |-> calls + 1, sp |-> NextName, ctx |-> c])
    BY <1>2 DEF Nest
  <2>2. frames # << >>
    BY <1>2 DEF Nest, TypeOK, Running
  <2>3. Top.ctx = Root
    BY <2>2, TopType DEF Top
  <2>4. c = Root
    BY <2>1, <2>3 DEF CtxChoices
  <2>5. frames'[Len(frames) + 1].ctx = Root
    <3>1. frames \in Seq(Frame) /\ calls + 1 \in Calls /\ NextName \in Nat
      BY <1>2, PushedStack DEF TypeOK, NextName
    <3>2. [id |-> calls + 1, sp |-> NextName, ctx |-> c] \in Frame
      BY <2>4, <3>1, CallsAssumption DEF Frame, Calls, Root
    <3> QED
      BY <2>1, <2>4, <3>1, <3>2, AppendProperties
  <2>6. stray' = {}
    BY <1>2 DEF Nest, history
  <2> QED
    BY <1>0, <1>2, <2>5, <2>6, PushedStack
<1>3. CASE FnGoexits
  <2>1. Len(frames') = 0 /\ stray' = {}
    BY <1>3 DEF FnGoexits, history
  <2> QED
    BY <2>1
<1>4. CASE PopStep
  <2>1. \A d \in DOMAIN frames : frames[d].ctx = Root
    BY LenProperties DEF TypeOK
  <2>2. ~OnlyOwnCtxDead
    BY <2>1 DEF OnlyOwnCtxDead, CtxDead
  <2>3. stray' = {}
    BY <1>4, <2>2, PopIsReturn
  <2> QED
    BY <1>0, <1>4, <2>3, PoppedStack
<1>5. CASE BeginFails \/ NestFails \/ NestRejected \/ QuietStep \/ \E w \in Writes : Write(w)
  <2>1. UNCHANGED <<frames, stray>>
    BY <1>5, QuietFacts DEF BeginFails, NestFails, NestRejected, Write, callVars, history
  <2> QED
    BY <2>1
<1> QED
  BY <1>1, <1>2, <1>3, <1>4, <1>5, StepKinds

(* "An inner failure undoes only the inner work": true of every nested call as
   long as none is given a context that can expire before the outermost's. *)
THEOREM InnerFailuresAreUndone ==
  ASSUME ~ScopedCtx
  PROVE  Spec => []InnerFailureUndone
<1>1. Init => OneContext
  BY DEF Init, OneContext
<1>2. IInv /\ OneContext /\ [Next]_vars => OneContext'
  <2>1. IInv /\ OneContext /\ Next => OneContext'
    BY OneContextStep
  <2>2. OneContext /\ UNCHANGED vars => OneContext'
    BY DEF OneContext, vars, callVars, history
  <2> QED
    BY <2>1, <2>2
<1>3. IInv /\ OneContext => InnerFailureUndone
  <2> SUFFICES ASSUME IInv, OneContext, NEW w \in db, NEW c \in path[w]
               PROVE  outcome[c] \notin {"err", "panic"}
    BY DEF InnerFailureUndone
  <2>1. outcome[Root] \in {"nil", "doubt"} /\ w \in Kept
    BY CallsAssumption DEF IInv, TypeOK, AtomicOutcome, Outcomes, Calls, Root
  <2>2. c # Root => outcome[c] = "nil"
    BY <2>1 DEF Kept, LetThrough, OneContext
  <2> QED
    BY <2>1, <2>2
<1> QED
  BY <1>1, <1>2, <1>3, AlwaysIInv, PTL DEF Spec

-----------------------------------------------------------------------------
(***************************************************************************)
(* InTx and nest implement the stack of scopes of NestedTx, and a nested   *)
(* call that closes takes only its own work out of the transaction: from   *)
(* the invariant above and two more facts.                                 *)
(***************************************************************************)
(* The running calls below one that encloses a write all enclose it too, and no
   other call in between does: the path of a write is a prefix of the stack. *)
PrefixInv ==
  \A w \in acked : \A d \in 1..Len(frames) : \A c \in path[w] :
    frames[d].id \in path[w] /\ c < frames[d].id => c \in OpenCalls

(* An aborted transaction holds the standing writes, and those of calls that have
   closed since without a word to the engine, which every running call encloses. *)
AbortedInv ==
  srv = "aborted" /\ pc \in Running /\ Root \notin dead =>
    \A w \in log : w \in Standing \/ (w \in acked /\ OpenCalls \subseteq path[w])

-----------------------------------------------------------------------------
(* A write inside the innermost call is inside every running one. *)
LEMMA InsideAll ==
  ASSUME TypeOK, CallsInv, PathInv, frames # << >>, NEW w \in acked, Top.id \in path[w]
  PROVE  OpenCalls \subseteq path[w]
<1>1. /\ Len(frames) \in Nat \ {0}
      /\ OpenCalls = {frames[d].id : d \in 1..Len(frames)}
  BY TopType, StackType
<1>2. ASSUME NEW d \in 1..Len(frames)
      PROVE  frames[d].id \in path[w]
  <2>1. CASE d = Len(frames)
    BY <2>1 DEF Top
  <2>2. CASE d < Len(frames)
    BY <1>1, <2>2 DEF PathInv, Top
  <2> QED
    BY <1>1, <2>1, <2>2
<1> QED
  BY <1>1, <1>2

LEMMA PrefixStep ==
  ASSUME TypeOK, CallsInv, PathInv, PrefixInv, StartInv, Next
  PROVE  PrefixInv'
<1>0. /\ Len(frames) \in Nat /\ calls \in Nat /\ acked \in SUBSET Writes
      /\ \A d \in 1..Len(frames) : frames[d].id \in Nat
  BY StackType DEF TypeOK
<1>1. CASE Begin \/ BeginFails
  <2>1. acked' = {}
    BY <1>1 DEF Begin, BeginFails, StartInv, history
  <2> QED
    BY <2>1 DEF PrefixInv
<1>2. ASSUME NEW w \in Writes, Write(w)
      PROVE  PrefixInv'
  <2>1. /\ UNCHANGED <<frames, calls>> /\ acked' = acked \cup {w}
        /\ path'[w] = OpenCalls /\ \A v \in Writes \ {w} : path'[v] = path[v]
    BY <1>2 DEF Write, callVars, TypeOK
  <2>2. OpenCalls' = OpenCalls
    BY <2>1 DEF OpenCalls
  <2> QED
    BY <1>0, <2>1, <2>2 DEF PrefixInv
<1>3. CASE Nest
  <2>1. /\ UNCHANGED <<acked, path>> /\ OpenCalls \subseteq OpenCalls'
        /\ Len(frames') = Len(frames) + 1
        /\ \A d \in 1..Len(frames) : frames'[d] = frames[d]
        /\ frames'[Len(frames) + 1].id = calls + 1
    BY <1>3, PushedStack DEF Nest, history
  <2>2. ASSUME NEW w \in acked, NEW d \in 1..Len(frames'), NEW c \in path[w],
               frames'[d].id \in path[w], c < frames'[d].id
        PROVE  c \in OpenCalls'
    <3>1. w \in Writes /\ frames'[d].id <= calls
      BY <1>0, <2>2 DEF PathInv
    <3>2. d # Len(frames) + 1
      BY <1>0, <2>1, <3>1
    <3>3. d \in 1..Len(frames)
      BY <1>0, <2>1, <3>2
    <3> QED
      BY <2>1, <2>2, <3>3 DEF PrefixInv
  <2> QED
    BY <2>1, <2>2 DEF PrefixInv
<1>4. CASE FnGoexits
  <2>1. UNCHANGED <<acked, path>> /\ Len(frames') = 0
    BY <1>4 DEF FnGoexits, history
  <2> QED
    BY <2>1 DEF PrefixInv
<1>5. CASE PopStep
  <2>1. /\ UNCHANGED <<acked, path>> /\ OpenCalls' = OpenCalls \ {Top.id}
        /\ Len(frames') = Len(frames) - 1 /\ Len(frames) \in Nat \ {0}
        /\ \A d \in 1..Len(frames') : frames'[d] = frames[d]
    BY <1>5, PoppedStack
  <2>2. ASSUME NEW w \in acked, NEW d \in 1..Len(frames'), NEW c \in path[w],
               frames'[d].id \in path[w], c < frames'[d].id
        PROVE  c \in OpenCalls'
    <3>1. d \in 1..Len(frames) /\ d < Len(frames) /\ Len(frames) \in 1..Len(frames)
      BY <2>1
    <3>2. c \in OpenCalls
      BY <2>1, <2>2, <3>1 DEF PrefixInv
    <3>3. frames[d].id < Top.id
      BY <3>1 DEF CallsInv, Top
    <3>4. c # Top.id
      BY <1>0, <2>1, <2>2, <3>1, <3>3 DEF Top
    <3> QED
      BY <2>1, <3>2, <3>4
  <2> QED
    BY <2>1, <2>2 DEF PrefixInv
<1>6. CASE NestFails \/ NestRejected \/ QuietStep
  <2>1. UNCHANGED <<frames, acked, path>>
    BY <1>6, QuietFacts DEF NestFails, NestRejected, history
  <2> QED
    BY <2>1 DEF PrefixInv, OpenCalls
<1> QED
  BY <1>1, <1>2, <1>3, <1>4, <1>5, <1>6, StepKinds

(* Nobody writes to an aborted transaction, and a call that closes without
   ROLLBACK TO leaves its writes to those around it. *)
LEMMA AbortedStep ==
  ASSUME TypeOK, CallsInv, PathInv, LogInv, StartInv, AbortedInv, Next
  PROVE  AbortedInv'
<1> SUFFICES ASSUME srv' = "aborted", pc' \in Running, Root \notin dead',
                    NEW w \in log'
             PROVE  w \in Standing' \/ (w \in acked' /\ OpenCalls' \subseteq path'[w])
  BY DEF AbortedInv
<1>1. CASE WriteFails \/ NestFails
  <2>1. /\ log' = log /\ pc = "fn" /\ frames' = frames /\ dead' = dead
        /\ srv \in {"open", "aborted"}
    BY <1>1 DEF WriteFails, NestFails, SqlStatementFails, sqlVars, callVars
  <2>2. Standing' = Standing /\ acked' = acked /\ path' = path
    BY <1>1, StandingSame DEF WriteFails, history
  <2>3. pc \in Running
    BY <2>1 DEF Running
  <2>4. CASE srv = "open"
    BY <2>1, <2>2, <2>3, <2>4 DEF LogInv, Held
  <2>5. CASE srv = "aborted"
    BY <2>1, <2>2, <2>3, <2>5 DEF AbortedInv, OpenCalls
  <2> QED
    BY <2>1, <2>4, <2>5
<1>2. CASE PopStep
  <2>1. /\ frames # << >> /\ pc \in Running /\ dead' = dead
        /\ acked' = acked /\ path' = path /\ OpenCalls' = OpenCalls \ {Top.id}
    BY <1>2, PopIsReturn, PoppedStack DEF TypeOK
  <2>2. Nested
    BY <1>2 DEF PopStep, StartInv, Running, Release, ReleaseRefused, RollbackToRefused,
       ReleaseAfterRollback, UnwindNested, UnwindRoot, CommitAfterExpiry, Commit, Rollback,
       ReturnToParent, Return
  <2>3. UNCHANGED <<log, srv>>
    BY <1>2, <2>2, PopEngine DEF Nested, SqlRollbackTo, SqlRelease, sqlVars
  <2>4. w \in Standing \/ (w \in acked /\ OpenCalls \subseteq path[w])
    BY <2>1, <2>3 DEF AbortedInv
  <2>5. Standing' = Standing \/ Standing' = Around(Top.id)
    BY <1>2, PopIsReturn, StandingPop
  <2>6. w \in Standing /\ w \notin Around(Top.id) => w \in acked /\ Top.id \in path[w]
    BY DEF Around, Standing
  <2> QED
    BY <2>1, <2>4, <2>5, <2>6, InsideAll
<1>3. CASE NestRejected \/ ControlStep \/ \E c \in Calls : Expire(c)
  <2>1. UNCHANGED <<log, srv, frames>> /\ Root \notin dead
    BY <1>3 DEF NestRejected, ControlStep, FnReturnsNil, FnReturnsError, FnPanics,
       FnRecovers, Expire, sqlVars, callVars
  <2>2. pc \in Running
    BY <1>3 DEF NestRejected, ControlStep, FnReturnsNil, FnReturnsError, FnPanics,
       FnRecovers, Expire, callVars, Running
  <2>3. Standing' = Standing /\ acked' = acked /\ path' = path
    BY <1>3, StandingSame DEF ControlStep, FnReturnsNil, FnReturnsError, FnPanics,
       FnRecovers, Expire, history
  <2> QED
    BY <2>1, <2>2, <2>3 DEF AbortedInv, OpenCalls
<1>4. CASE Finished
  BY <1>4 DEF Finished, vars, callVars, Running
<1>5. CASE Begin \/ Nest \/ RollbackTo \/ AwaitDone \/ ConnectionLost \/ \E v \in Writes : Write(v)
  BY <1>5 DEF Begin, SqlBegin, Nest, SqlSavepoint, RollbackTo, SqlRollbackTo, AwaitDone,
     SqlRollback, ConnectionLost, SqlConnectionLost, EngineEnds, Write, SqlWrite
<1>6. CASE BeginFails \/ FnGoexits
  BY <1>6 DEF BeginFails, FnGoexits, Running
<1> QED
  BY <1>1, <1>2, <1>3, <1>4, <1>5, <1>6, StepKinds DEF QuietStep, Surroundings

(* All that the theorems below rest on. *)
WholeInv == IInv /\ PrefixInv /\ AbortedInv

LEMMA AlwaysWholeInv == Spec => []WholeInv
<1>1. Init => PrefixInv /\ AbortedInv
  BY DEF Init, SqlInit, PrefixInv, AbortedInv
<1>2. WholeInv /\ [Next]_vars => PrefixInv' /\ AbortedInv'
  <2>1. WholeInv /\ Next => PrefixInv' /\ AbortedInv'
    BY PrefixStep, AbortedStep DEF WholeInv, IInv
  <2>2. WholeInv /\ UNCHANGED vars => PrefixInv' /\ AbortedInv'
    BY DEF WholeInv, PrefixInv, AbortedInv, OpenCalls, Standing, LetThrough,
       vars, sqlVars, callVars, history
  <2> QED
    BY <2>1, <2>2
<1> QED
  BY <1>1, <1>2, InitInv, StepInv, PTL DEF Spec, WholeInv

-----------------------------------------------------------------------------
(* Closing a call by ROLLBACK TO takes out what it wrote and nothing else. *)
LEMMA RollbackTakesOwn ==
  ASSUME WholeInv, frames # << >>, pc \in {"rollbackTo", "unwind"}, Nested,
         Sends, SqlRollbackTo(Top.sp), NEW w \in log \ log'
  PROVE  Top.id \in path[w]
<1>1. log' = Around(Top.id)
  BY OwnSavepoint DEF WholeInv, IInv
<1>2. Root \notin dead
  <2>1. frames[1].ctx = Root /\ 1 \in DOMAIN frames
    BY TopType, LenProperties DEF WholeInv, IInv, CallsInv, TypeOK
  <2> QED
    BY <2>1 DEF Sends, CtxDead
<1>3. Top.id \in OpenCalls
  BY TopType, StackType DEF Top, WholeInv, IInv
<1>4. pc \in Running
  BY DEF Running
<1>5. w \in Standing => Top.id \in path[w]
  BY <1>1 DEF Around
<1>6. srv \in {"open", "aborted"}
  BY DEF SqlRollbackTo, WholeInv, IInv, TypeOK, SqlTypeOK
<1>7. CASE srv = "open"
  BY <1>2, <1>4, <1>5, <1>7 DEF WholeInv, IInv, LogInv, Held
<1>8. CASE srv = "aborted"
  BY <1>2, <1>3, <1>4, <1>5, <1>8 DEF WholeInv, AbortedInv
<1> QED
  BY <1>6, <1>7, <1>8

(* ClosingUndoesOnlyOwn: however a nested InTx closes, and whatever failed, was
   left behind or expired before, the transaction loses no other call's work. *)
THEOREM ClosingTakesOnlyOwn == Spec => ClosingUndoesOnlyOwn
<1> DEFINE Closes == pc \in {"rollbackTo", "unwind", "release", "releaseAfterRollback"}
                       /\ srv' # "closed"
           Own == Closes => \A w \in log \ log' : Top.id \in path[w]
<1>1. WholeInv /\ [Next]_vars => [Own]_vars
  <2> SUFFICES ASSUME WholeInv, Next, Closes, NEW w \in log \ log'
               PROVE  Top.id \in path[w]
    OBVIOUS
  <2>1. frames # << >>
    BY DEF WholeInv, IInv, TypeOK, Running
  <2>2. CASE RollbackTo \/ UnwindNested
    <3>1. Nested /\ Sends /\ SqlRollbackTo(Top.sp) /\ pc \in {"rollbackTo", "unwind"}
      BY <2>2 DEF RollbackTo, UnwindNested, sqlVars, WholeInv, IInv, StartInv
    <3> QED
      BY <2>1, <3>1, RollbackTakesOwn
  <2>3. CASE UnwindRoot \/ AwaitDone \/ ConnectionLost
    BY <2>3 DEF UnwindRoot, RollbackIfOpen, AwaitDone, ConnectionLost, SqlRollback,
       SqlConnectionLost, EngineEnds, sqlVars
  <2>4. CASE Release \/ ReleaseAfterRollback \/ ReleaseRefused \/ RollbackToRefused
    BY <2>4 DEF Release, ReleaseAfterRollback, ReleaseRefused, RollbackToRefused,
       SqlRelease, sqlVars
  <2>5. CASE FnRecovers \/ Finished \/ \E c \in Calls : Expire(c)
    BY <2>5 DEF FnRecovers, Finished, Expire, vars, sqlVars
  <2> QED
    BY <2>2, <2>3, <2>4, <2>5 DEF Next, Callback, Closing, Surroundings, Begin, BeginFails,
       Write, WriteFails, Nest, NestFails, NestRejected, FnReturnsNil, FnReturnsError,
       FnPanics, FnGoexits, CommitAfterExpiry, Commit, Rollback
<1>2. ClosingUndoesOnlyOwn <=> [][Own]_vars
  BY DEF ClosingUndoesOnlyOwn
<1> QED
  BY <1>1, <1>2, AlwaysWholeInv, PTL DEF Spec

-----------------------------------------------------------------------------
(* The scopes of NestedTx, as RowTxProps maps them. *)
Work == [d \in DOMAIN frames |-> WorkOf(frames[d].id)]

LEMMA MappedSeq ==
  ASSUME NEW n \in Nat, NEW S, NEW f \in [1..n -> S]
  PROVE  f \in Seq(S) /\ Len(f) = n /\ DOMAIN f = 1..n
<1>1. f \in Seq(S)
  BY SeqDef
<1>2. DOMAIN f = 1..Len(f) /\ Len(f) \in Nat
  BY <1>1, LenProperties
<1>3. DOMAIN f = 1..n
  OBVIOUS
<1>4. Len(f) = n
  <2> DEFINE m == Len(f)
  <2>1. m \in Nat /\ \A i \in Int : i \in 1..m <=> i \in 1..n
    BY <1>2, <1>3
  <2> HIDE DEF m
  <2>2. m <= n /\ n <= m
    BY <2>1
  <2> QED
    BY <2>1, <2>2 DEF m
<1> QED
  BY <1>1, <1>3, <1>4

LEMMA SameSeq ==
  ASSUME NEW S, NEW s \in Seq(S), NEW t \in Seq(S), NEW n,
         Len(s) = n, Len(t) = n, \A i \in 1..n : s[i] = t[i]
  PROVE  s = t
BY SeqEqual

LEMMA LastGrows ==
  ASSUME NEW S, NEW s \in Seq(S), NEW t \in Seq(S), NEW n \in Nat \ {0}, NEW more,
         Len(s) = n, Len(t) = n,
         \A i \in 1..n : i # n => t[i] = s[i], t[n] = s[n] \cup more
  PROVE  t = [s EXCEPT ![n] = @ \cup more]
<1>1. s \in [1..n -> S] /\ t \in [1..n -> S]
  BY LenProperties
<1>2. DOMAIN s = 1..n /\ DOMAIN t = 1..n /\ n \in 1..n
  BY <1>1
<1>3. t = [i \in 1..n |-> t[i]]
  BY <1>1
<1>4. [s EXCEPT ![n] = @ \cup more] = [i \in 1..n |-> IF i = n THEN s[n] \cup more ELSE s[i]]
  BY <1>2
<1>5. \A i \in 1..n : t[i] = IF i = n THEN s[n] \cup more ELSE s[i]
  OBVIOUS
<1> QED
  BY <1>3, <1>4, <1>5

LEMMA WorkType ==
  ASSUME TypeOK
  PROVE  /\ Work \in Seq(SUBSET Writes)
         /\ Len(Work) = Len(frames) /\ Len(frames) \in Nat
         /\ \A d \in 1..Len(frames) : Work[d] = WorkOf(frames[d].id)
<1>1. Len(frames) \in Nat /\ DOMAIN frames = 1..Len(frames)
  BY LenProperties DEF TypeOK
<1>2. Work \in [1..Len(frames) -> SUBSET Writes]
  BY <1>1 DEF Work, WorkOf, TypeOK
<1>3. Work \in Seq(SUBSET Writes) /\ Len(Work) = Len(frames)
  BY <1>1, <1>2, MappedSeq
<1>4. \A d \in 1..Len(frames) : Work[d] = WorkOf(frames[d].id)
  BY <1>1 DEF Work
<1> QED
  BY <1>1, <1>3, <1>4

LEMMA WorkTypeNext ==
  ASSUME TypeOK'
  PROVE  /\ Work' \in Seq(SUBSET Writes)
         /\ Len(Work') = Len(frames') /\ Len(frames') \in Nat
         /\ \A d \in 1..Len(frames') : Work'[d] = WorkOf(frames[d].id)'
<1>1. Len(frames') \in Nat /\ DOMAIN frames' = 1..Len(frames')
  BY LenProperties DEF TypeOK
<1>2. Work' \in [1..Len(frames') -> SUBSET Writes]
  BY <1>1 DEF Work, WorkOf, TypeOK
<1>3. Work' \in Seq(SUBSET Writes) /\ Len(Work') = Len(frames')
  BY <1>1, <1>2, MappedSeq
<1>4. \A d \in 1..Len(frames') : Work'[d] = WorkOf(frames[d].id)'
  BY <1>1 DEF Work
<1> QED
  BY <1>1, <1>3, <1>4

LEMMA WorkSame ==
  ASSUME TypeOK, PathInv, frames' = frames,
         \/ UNCHANGED <<acked, path, outcome, stray>>
         \/ NestFails \/ NestRejected
  PROVE  Work' = Work
<1>1. /\ acked' = acked /\ path' = path
      /\ \A w \in acked : \A c \in path[w] : LetThrough(c)' <=> LetThrough(c)
  <2>1. CASE UNCHANGED <<acked, path, outcome, stray>>
    BY <2>1 DEF LetThrough
  <2>2. CASE NestFails \/ NestRejected
    <3>1. /\ UNCHANGED <<acked, path, stray>>
          /\ outcome' = [outcome EXCEPT ![calls + 1] = "err"]
      BY <2>2 DEF NestFails, NestRejected, history
    <3>2. ASSUME NEW w \in acked, NEW c \in path[w]
          PROVE  outcome'[c] = outcome[c]
      <4>1. w \in Writes /\ c \in Calls /\ c <= calls
        BY <3>2 DEF TypeOK, PathInv
      <4>2. c # calls + 1
        BY <4>1 DEF Calls, TypeOK
      <4> QED
        BY <3>1, <4>1, <4>2 DEF TypeOK
    <3> QED
      BY <3>1, <3>2 DEF LetThrough
  <2> QED
    BY <2>1, <2>2
<1>2. \A d \in DOMAIN frames : WorkOf(frames[d].id)' = WorkOf(frames[d].id)
  BY <1>1 DEF WorkOf
<1> QED
  BY <1>2 DEF Work

(* A write joins the work of the innermost call only: those around it are still
   to decide on the call, which has let nothing through. *)
LEMMA WorkWrite ==
  ASSUME TypeOK, TypeOK', CallsInv, PathInv, NEW w \in Writes, Write(w)
  PROVE  Work' = [Work EXCEPT ![Len(Work)] = @ \cup {w}]
<1>1. /\ UNCHANGED <<frames, outcome, stray>> /\ w \notin acked /\ acked' = acked \cup {w}
      /\ path'[w] = OpenCalls /\ \A v \in Writes \ {w} : path'[v] = path[v]
      /\ frames # << >>
  BY DEF Write, callVars, TypeOK, Running
<1>2. /\ Len(frames) \in Nat \ {0} /\ Top = frames[Len(frames)]
      /\ \A d \in 1..Len(frames) : frames[d].id \in Nat /\ frames[d].id \in Calls
      /\ OpenCalls = {frames[d].id : d \in 1..Len(frames)}
      /\ acked \in SUBSET Writes
  BY <1>1, TopType, StackType DEF Top, TypeOK
<1>3. \A c \in OpenCalls : ~LetThrough(c)
  BY <1>2 DEF CallsInv, LetThrough, Outcomes
<1>4. \A c \in OpenCalls : c <= Top.id
  <2> SUFFICES ASSUME NEW d \in 1..Len(frames)
               PROVE  frames[d].id <= Top.id
    BY <1>2
  <2>1. CASE d = Len(frames)
    BY <1>2, <2>1
  <2>2. CASE d < Len(frames)
    BY <1>2, <2>2 DEF CallsInv
  <2> QED
    BY <1>2, <2>1, <2>2
<1>5. ASSUME NEW d \in 1..Len(frames)
      PROVE  WorkOf(frames[d].id)' =
               IF d = Len(frames) THEN WorkOf(frames[d].id) \cup {w} ELSE WorkOf(frames[d].id)
  <2> DEFINE id == frames[d].id
  <2>1. WorkOf(frames[d].id)' =
          {v \in acked' : id \in path'[v] /\ \A c \in path'[v] : c > id => LetThrough(c)}
    BY <1>1 DEF WorkOf, LetThrough
  <2>2. id \in OpenCalls /\ id \in Nat /\ Top.id \in Nat /\ Top.id \in OpenCalls
    BY <1>2
  <2>3. CASE d = Len(frames)
    <3>1. \A c \in OpenCalls : ~(c > id)
      <4>1. id = Top.id /\ \A c \in OpenCalls : c \in Nat
        BY <1>2, <2>3
      <4> QED
        BY <1>4, <2>2, <4>1
    <3> QED
      BY <1>1, <1>2, <2>1, <2>2, <2>3, <3>1 DEF WorkOf
  <2>4. CASE d # Len(frames)
    <3>1. Top.id > id
      BY <1>2, <2>4 DEF CallsInv
    <3>2. ~\A c \in OpenCalls : c > id => LetThrough(c)
      BY <1>3, <2>2, <3>1
    <3> QED
      BY <1>1, <1>2, <2>1, <2>4, <3>2 DEF WorkOf
  <2> QED
    BY <2>3, <2>4
<1>6. /\ Work \in Seq(SUBSET Writes) /\ Len(Work) = Len(frames)
      /\ Work' \in Seq(SUBSET Writes) /\ Len(Work') = Len(frames)
      /\ \A d \in 1..Len(frames) : Work[d] = WorkOf(frames[d].id)
      /\ \A d \in 1..Len(frames) : Work'[d] = WorkOf(frames[d].id)'
  BY <1>1, WorkType, WorkTypeNext
<1>7. /\ \A d \in 1..Len(frames) : d # Len(frames) => Work'[d] = Work[d]
      /\ \A d \in 1..Len(frames) : d = Len(frames) => Work'[d] = Work[d] \cup {w}
  BY <1>5, <1>6
<1>8. Len(frames) \in 1..Len(frames)
  BY <1>2
<1>9. Work'[Len(frames)] = Work[Len(frames)] \cup {w}
  BY <1>7, <1>8
<1>10. Work' = [Work EXCEPT ![Len(frames)] = @ \cup {w}]
  BY <1>2, <1>6, <1>7, <1>9, LastGrows
<1> QED
  BY <1>6, <1>10

LEMMA WorkNest ==
  ASSUME TypeOK, TypeOK', CallsInv, PathInv, Nest
  PROVE  Work' = Append(Work, {})
<1>1. /\ UNCHANGED <<acked, path, outcome, stray>>
      /\ Len(frames) \in Nat /\ Len(frames') = Len(frames) + 1
      /\ \A d \in 1..Len(frames) : frames'[d] = frames[d]
      /\ frames'[Len(frames) + 1].id = calls + 1
  BY PushedStack DEF Nest, history
<1>2. \A d \in 1..Len(frames) : WorkOf(frames[d].id)' = WorkOf(frames[d].id)
  BY <1>1 DEF WorkOf, LetThrough
<1>3. ASSUME NEW d \in 1..Len(frames'), d = Len(frames')
      PROVE  WorkOf(frames[d].id)' = {}
  <2>1. \A w \in acked : calls + 1 \notin path[w]
    <3>1. calls \in Nat /\ acked \in SUBSET Writes
      BY DEF TypeOK
    <3>2. \A w \in acked : \A c \in path[w] : c <= calls
      BY <3>1 DEF PathInv
    <3> QED
      BY <3>1, <3>2
  <2>2. frames'[d].id = calls + 1
    BY <1>1, <1>3
  <2> QED
    BY <1>1, <2>1, <2>2 DEF WorkOf
<1>4. /\ Work \in Seq(SUBSET Writes) /\ Len(Work) = Len(frames)
      /\ Work' \in Seq(SUBSET Writes) /\ Len(Work') = Len(frames) + 1
      /\ \A d \in 1..Len(frames) : Work[d] = WorkOf(frames[d].id)
      /\ \A d \in 1..(Len(frames) + 1) : Work'[d] = WorkOf(frames[d].id)'
  BY <1>1, WorkType, WorkTypeNext
<1> DEFINE more == Append(Work, {})
<1>5. /\ more \in Seq(SUBSET Writes) /\ Len(more) = Len(frames) + 1
      /\ more[Len(frames) + 1] = {}
      /\ \A d \in 1..Len(frames) : more[d] = Work[d]
  BY <1>4, AppendProperties
<1>6. \A d \in 1..(Len(frames) + 1) : Work'[d] = more[d]
  <2> SUFFICES ASSUME NEW d \in 1..(Len(frames) + 1)
               PROVE  Work'[d] = more[d]
    OBVIOUS
  <2>1. CASE d \in 1..Len(frames)
    BY <1>2, <1>4, <1>5, <2>1
  <2>2. CASE d = Len(frames) + 1
    BY <1>1, <1>3, <1>4, <1>5, <2>2
  <2>3. \A m \in Nat : \A k \in 1..(m + 1) : k \in 1..m \/ k = m + 1
    OBVIOUS
  <2>4. d \in 1..Len(frames) \/ d = Len(frames) + 1
    BY <1>1, <2>3
  <2> QED
    BY <2>1, <2>2, <2>4
<1> HIDE DEF more
<1> QED
  BY <1>4, <1>5, <1>6, SameSeq

(* A call that ends hands its work to the one around it if it let it through, and
   the calls further out notice nothing yet. *)
LEMMA WorkPop ==
  ASSUME TypeOK, TypeOK', CallsInv, PathInv, PrefixInv, PopStep, Nested
  PROVE  LET Enclosing == SubSeq(Work, 1, Len(Work) - 1)
             through == outcome'[Top.id] = "nil" \/ Top.id \in stray'
         IN  Work' = IF through
                     THEN [Enclosing EXCEPT ![Len(Work) - 1] = @ \cup Work[Len(Work)]]
                     ELSE Enclosing
<1> DEFINE through == outcome'[Top.id] = "nil" \/ Top.id \in stray'
           n == Len(frames)
           Enclosing == SubSeq(Work, 1, Len(Work) - 1)
<1>1. PICK res \in Outcomes \ {"open"} :
        /\ outcome' = [outcome EXCEPT ![Top.id] = res]
        /\ stray' = stray \/ stray' = stray \cup {Top.id}
  BY PopIsReturn DEF Return
<1>2. /\ acked' = acked /\ path' = path /\ Top.id \in Calls /\ Top.id \in OpenCalls
      /\ n \in Nat \ {0} /\ n > 1 /\ Len(frames') = n - 1
      /\ \A d \in 1..(n - 1) : frames'[d] = frames[d]
      /\ \A d \in 1..n : frames[d].id \in Nat /\ frames[d].id \in Calls /\ frames[d].id \in OpenCalls
      /\ Top = frames[n] /\ Top.id \in Nat
      /\ acked \in SUBSET Writes
      /\ \A w \in acked : path[w] \in SUBSET Calls
  BY PoppedStack, StackType DEF Nested, Top, TypeOK
<1>3. /\ \A c \in Calls \ {Top.id} : LetThrough(c)' <=> LetThrough(c)
      /\ LetThrough(Top.id) = FALSE
      /\ \A c \in Calls : c = Top.id => (LetThrough(c)' <=> through)
  BY <1>1, <1>2 DEF TypeOK, LetThrough, CallsInv, Outcomes
<1>4. \A d, e \in 1..n : d < e => frames[d].id < frames[e].id
  BY DEF CallsInv
<1>5. \A d \in 1..(n - 1) :
        WorkOf(frames[d].id)' =
          {w \in acked : frames[d].id \in path[w]
                         /\ \A c \in path[w] : c > frames[d].id => LetThrough(c)'}
  BY <1>2 DEF WorkOf
<1>6. ASSUME NEW d \in 1..(n - 1), d # n - 1
      PROVE  WorkOf(frames[d].id)' = WorkOf(frames[d].id)
  <2>1. n - 1 \in 1..n /\ n \in 1..n /\ d \in 1..n /\ d < n - 1 /\ n - 1 < n
    BY <1>2, <1>6
  <2>2. frames[n - 1].id > frames[d].id /\ frames[n - 1].id # Top.id
    <3>1. frames[d].id < frames[n - 1].id /\ frames[n - 1].id < frames[n].id
      BY <1>4, <2>1
    <3>2. frames[d].id \in Nat /\ frames[n - 1].id \in Nat /\ frames[n].id \in Nat
      BY <1>2, <2>1
    <3> QED
      BY <1>2, <3>1, <3>2
  <2>3. ~LetThrough(frames[n - 1].id)
    BY <1>2, <2>1 DEF CallsInv, LetThrough, Outcomes
  <2>4. \A w \in acked : Top.id \in path[w] => frames[n - 1].id \in path[w]
    BY <1>2, <2>1 DEF PathInv
  <2>5. ASSUME NEW w \in acked
        PROVE  (\A c \in path[w] : c > frames[d].id => LetThrough(c)')
               <=> (\A c \in path[w] : c > frames[d].id => LetThrough(c))
    <3>1. CASE Top.id \in path[w]
      <4>1. frames[n - 1].id \in path[w] /\ frames[n - 1].id \in Calls \ {Top.id}
        BY <1>2, <2>1, <2>2, <2>4, <3>1
      <4> QED
        BY <1>3, <2>2, <2>3, <4>1
    <3>2. CASE Top.id \notin path[w]
      BY <1>2, <1>3, <3>2
    <3> QED
      BY <3>1, <3>2
  <2> QED
    BY <1>5, <2>5 DEF WorkOf
<1>7. ASSUME NEW d \in 1..(n - 1), d = n - 1
      PROVE  WorkOf(frames[d].id)' =
               IF through THEN WorkOf(frames[d].id) \cup WorkOf(Top.id)
                          ELSE WorkOf(frames[d].id)
  <2>1. n \in 1..n /\ d \in 1..n /\ d < n
    BY <1>2, <1>7
  <2>2. frames[d].id < Top.id /\ frames[d].id \in Nat
    BY <1>2, <1>4, <2>1
  <2>3. \A w \in acked : Top.id \in path[w] => frames[d].id \in path[w]
    BY <1>2, <2>1 DEF PathInv
  <2>4. ASSUME NEW w \in acked, Top.id \in path[w], NEW c \in path[w],
               c > frames[d].id, c # Top.id
        PROVE  c > Top.id
    <3>1. c \in Nat
      BY <1>2 DEF Calls
    <3>2. c < Top.id => c \in OpenCalls
      BY <1>2, <2>1, <2>4 DEF PrefixInv
    <3>3. c \notin OpenCalls
      <4> SUFFICES ASSUME NEW e \in 1..n, c = frames[e].id
                   PROVE  FALSE
        BY StackType
      <4>1. e = n \/ e = d \/ e < d
        BY <1>2, <1>7
      <4>2. e < d => frames[e].id < frames[d].id
        BY <1>4, <2>1
      <4>3. frames[e].id \in Nat /\ frames[d].id \in Nat
        BY <1>2, <2>1
      <4> QED
        BY <1>2, <2>4, <4>1, <4>2, <4>3
    <3> QED
      BY <1>2, <2>4, <3>1, <3>2, <3>3
  <2>5. ASSUME NEW w \in acked, Top.id \in path[w]
        PROVE  /\ w \notin WorkOf(frames[d].id)
               /\ w \in WorkOf(frames[d].id)' <=> through /\ w \in WorkOf(Top.id)
    <3>1. w \notin WorkOf(frames[d].id)
      BY <1>3, <2>2, <2>5 DEF WorkOf
    <3>2. w \in WorkOf(frames[d].id)' <=>
            \A c \in path[w] : c > frames[d].id => LetThrough(c)'
      BY <1>5, <2>3, <2>5
    <3>3. \A c \in path[w] : c > frames[d].id <=> c = Top.id \/ c > Top.id
      <4>1. \A c \in path[w] : c \in Nat
        BY <1>2 DEF Calls
      <4> QED
        BY <1>2, <2>2, <2>4, <2>5, <4>1
    <3>4. \A c \in path[w] : c > Top.id => (LetThrough(c)' <=> LetThrough(c))
      BY <1>2, <1>3
    <3>5. w \in WorkOf(Top.id) <=> \A c \in path[w] : c > Top.id => LetThrough(c)
      BY <2>5 DEF WorkOf
    <3> QED
      BY <1>2, <1>3, <2>5, <3>1, <3>2, <3>3, <3>4, <3>5
  <2>6. ASSUME NEW w \in acked, Top.id \notin path[w]
        PROVE  /\ w \notin WorkOf(Top.id)
               /\ w \in WorkOf(frames[d].id)' <=> w \in WorkOf(frames[d].id)
    <3>1. \A c \in path[w] : LetThrough(c)' <=> LetThrough(c)
      BY <1>2, <1>3, <2>6
    <3> QED
      BY <1>5, <2>6, <3>1 DEF WorkOf
  <2>7. /\ WorkOf(frames[d].id)' \subseteq acked
        /\ WorkOf(frames[d].id) \subseteq acked /\ WorkOf(Top.id) \subseteq acked
    BY <1>5 DEF WorkOf
  <2>8. \A w \in acked : w \in WorkOf(frames[d].id)' <=>
          w \in WorkOf(frames[d].id) \/ (through /\ w \in WorkOf(Top.id))
    BY <2>5, <2>6
  <2> QED
    BY <2>7, <2>8
<1>8. /\ Work \in Seq(SUBSET Writes) /\ Len(Work) = n
      /\ Work' \in Seq(SUBSET Writes) /\ Len(Work') = n - 1
      /\ \A d \in 1..n : Work[d] = WorkOf(frames[d].id)
      /\ \A d \in 1..(n - 1) : Work'[d] = WorkOf(frames[d].id)'
  BY <1>2, WorkType, WorkTypeNext
<1> HIDE DEF through, n
<1>9. /\ Enclosing \in Seq(SUBSET Writes) /\ Len(Enclosing) = n - 1
      /\ \A d \in 1..(n - 1) : Enclosing[d] = Work[d]
      /\ Len(Work) = n /\ n - 1 \in 1..(n - 1) /\ n \in 1..n
  <2>1. Work # << >>
    BY <1>2, <1>8, EmptySeq
  <2> QED
    BY <1>2, <1>8, <2>1, PopFact
<1> HIDE DEF Enclosing
<1>10. CASE ~through
  <2>1. \A d \in 1..(n - 1) : Work'[d] = Enclosing[d]
    BY <1>2, <1>6, <1>7, <1>8, <1>9, <1>10
  <2>2. Work' = Enclosing
    BY <1>8, <1>9, <2>1, SeqEqual
  <2> QED
    BY <1>10, <2>2 DEF through, Enclosing
<1>11. CASE through
  <2>1. Work[n] = WorkOf(Top.id)
    BY <1>2, <1>8, <1>9
  <2>2. \A d \in 1..(n - 1) : d # n - 1 => Work'[d] = Enclosing[d]
    BY <1>6, <1>8, <1>9
  <2>3. \A d \in 1..(n - 1) : d = n - 1 => Work'[d] = Enclosing[d] \cup Work[n]
    BY <1>7, <1>8, <1>9, <1>11, <2>1
  <2>4. Work'[n - 1] = Enclosing[n - 1] \cup Work[n]
    BY <1>9, <2>3
  <2>5. n - 1 \in Nat \ {0}
    BY <1>2
  <2>6. Work' = [Enclosing EXCEPT ![n - 1] = @ \cup Work[n]]
    BY <1>8, <1>9, <2>2, <2>4, <2>5, LastGrows
  <2> QED
    BY <1>9, <1>11, <2>6 DEF through, Enclosing
<1> QED
  BY <1>10, <1>11

(* With only the outermost call left, its work is what stands, which the engine
   holds, as Commit needs it. *)
LEMMA WorkOfRoot ==
  ASSUME TypeOK, CallsInv, PathInv, frames # << >>, ~Nested
  PROVE  Len(Work) = 1 /\ Work[1] = Standing
<1>1. Len(frames) \in Nat \ {0} /\ frames[1].id = Root
  BY TopType DEF CallsInv
<1>2. Len(frames) = 1
  <2>1. \A n \in Nat \ {0} : n > 1 \/ n = 1
    OBVIOUS
  <2> QED
    BY <1>1, <2>1 DEF Nested
<1>3. Standing = Kept
  BY StandingIsKept
<1>4. \A w \in acked : /\ Root \in path[w]
                       /\ \A c \in path[w] : c > Root <=> c # Root
  <2>1. \A w \in acked : Root \in path[w] /\ path[w] \in SUBSET Calls
    BY DEF PathInv, TypeOK
  <2>2. \A c \in Calls : c > Root <=> c # Root
    BY DEF Calls, Root
  <2> QED
    BY <2>1, <2>2
<1>5. WorkOf(Root) = Kept
  BY <1>4 DEF WorkOf, Kept
<1> QED
  BY <1>1, <1>2, <1>3, <1>5, WorkType

LEMMA StatusFact ==
  ASSUME TypeOK
  PROVE  /\ Status = "idle" <=> pc = "start"
         /\ Status = "over" <=> pc = "done"
         /\ Status = "running" <=> pc \in Running
         /\ pc # "start" /\ pc # "done" <=> pc \in Running
         /\ frames = << >> <=> pc \notin Running
BY DEF Status, TypeOK, Running

LEMMA StatusFactNext ==
  ASSUME TypeOK'
  PROVE  /\ Status' = "idle" <=> pc' = "start"
         /\ Status' = "over" <=> pc' = "done"
         /\ Status' = "running" <=> pc' \in Running
         /\ pc' # "start" /\ pc' # "done" <=> pc' \in Running
         /\ frames' = << >> <=> pc' \notin Running
BY DEF Status, TypeOK, Running

LEMMA NoWork == frames = << >> => Work = << >>
BY DEF Work

LEMMA NoWorkNext == frames' = << >> => Work' = << >>
BY DEF Work

(* The actions of NestedTx, in terms of what they are mapped to. *)
LEMMA AbstractActions ==
  /\ Abstract!Start <=>
       Status = "idle" /\ Status' = "running" /\ Work' = <<{}>> /\ db' = db
  /\ Abstract!Refuse <=>
       Status = "idle" /\ Status' = "over" /\ Work' = << >> /\ db' = db
  /\ Abstract!Abort <=>
       Status = "running" /\ Status' = "over" /\ Work' = << >> /\ db' = db
  /\ Abstract!Commit <=>
       /\ Status = "running" /\ Len(Work) = 1 /\ db' = db \cup Work[1]
       /\ Status' = "over" /\ Work' = << >>
  /\ \A w : Abstract!Do(w) <=>
       /\ Status = "running" /\ Work' = [Work EXCEPT ![Len(Work)] = @ \cup {w}]
       /\ Status' = Status /\ db' = db
  /\ Abstract!Enter <=>
       Status = "running" /\ Work' = Append(Work, {}) /\ Status' = Status /\ db' = db
  /\ Abstract!Drop <=>
       /\ Status = "running" /\ Len(Work) > 1
       /\ Work' = SubSeq(Work, 1, Len(Work) - 1)
       /\ Status' = Status /\ db' = db
  /\ Abstract!Keep <=>
       /\ Status = "running" /\ Len(Work) > 1
       /\ Work' = [SubSeq(Work, 1, Len(Work) - 1) EXCEPT
                     ![Len(Work) - 1] = @ \cup Work[Len(Work)]]
       /\ Status' = Status /\ db' = db
  /\ UNCHANGED Abstract!vars <=> Status' = Status /\ Work' = Work /\ db' = db
BY DEF Work, Abstract!Start, Abstract!Refuse, Abstract!Abort, Abstract!Commit, Abstract!End,
   Abstract!Do, Abstract!Enter, Abstract!Drop, Abstract!Keep, Abstract!Innermost,
   Abstract!Enclosing, Abstract!vars

(* A nested call that ends keeps its work or drops it: nothing of this reaches
   the database. *)
LEMMA NestedEnds ==
  ASSUME WholeInv, TypeOK', PopStep, Nested
  PROVE  Abstract!Keep \/ Abstract!Drop
<1> USE DEF WholeInv, IInv
<1>1. /\ Len(frames) \in Nat /\ Len(frames) > 1
      /\ Len(frames') = Len(frames) - 1 /\ Len(Work) = Len(frames)
  BY PoppedStack, WorkType DEF Nested
<1>2. Status = "running" /\ Status' = "running"
  <2>1. frames # << >>
    BY PopIsReturn
  <2>2. frames' # << >>
    BY <1>1, EmptySeq
  <2> QED
    BY <2>1, <2>2, StatusFact, StatusFactNext
<1>3. db' = db
  BY DEF PopStep, StartInv, Release, ReleaseRefused, RollbackToRefused,
     ReleaseAfterRollback, UnwindNested, UnwindRoot, CommitAfterExpiry, Commit, Rollback,
     SqlRelease, SqlRollbackTo, sqlVars
<1> QED
  BY <1>1, <1>2, <1>3, WorkPop, AbstractActions

(* The outermost call ends the transaction: only an accepted Commit gives its
   work to the database. *)
LEMMA RootEnds ==
  ASSUME WholeInv, TypeOK', PopStep, ~Nested
  PROVE  Abstract!Commit \/ Abstract!Abort
<1> USE DEF WholeInv, IInv
<1>1. frames # << >> /\ Len(frames') = 0
  <2>1. frames # << >> /\ Len(frames) \in Nat \ {0} /\ Len(frames') = Len(frames) - 1
    BY PopIsReturn, PoppedStack
  <2>2. \A n \in Nat \ {0} : n > 1 \/ n = 1
    OBVIOUS
  <2> QED
    BY <2>1, <2>2 DEF Nested
<1>2. frames' = << >>
  BY <1>1, EmptySeq DEF TypeOK
<1>3. pc' = "done"
  BY DEF PopStep, StartInv, Release, ReleaseRefused, RollbackToRefused,
     ReleaseAfterRollback, UnwindNested, UnwindRoot, CommitAfterExpiry, Commit, Rollback,
     ReturnToParent, Return
<1>4. Status = "running" /\ Status' = "over" /\ Work' = << >>
  BY <1>1, <1>2, <1>3, StatusFact, StatusFactNext, NoWorkNext
<1>5. Len(Work) = 1 /\ Work[1] = Standing
  BY <1>1, WorkOfRoot
<1>6. CASE db' = db
  BY <1>4, <1>6, AbstractActions
<1>7. CASE Commit /\ srv = "open" /\ db' = db \cup log
  <2>1. log = Standing
    BY <1>7 DEF Commit, LogInv, Held, Running
  <2> QED
    BY <1>4, <1>5, <1>7, <2>1, AbstractActions
<1>8. CASE Commit
  <2>1. db' = db \/ (srv = "open" /\ db' = db \cup log)
    BY <1>8 DEF Commit, SqlCommitAccepted, SqlCommitRefused, SqlCommitInDoubt, EngineEnds
  <2> QED
    BY <1>6, <1>7, <1>8, <2>1
<1>9. CASE ~Commit
  <2>1. db' = db
    BY <1>9 DEF PopStep, StartInv, Release, ReleaseRefused, RollbackToRefused,
       ReleaseAfterRollback, UnwindNested, UnwindRoot, CommitAfterExpiry, Rollback,
       RollbackIfOpen, SqlRollback, EngineEnds, sqlVars
  <2> QED
    BY <1>6, <2>1
<1> QED
  BY <1>8, <1>9

(* Every step of InTx is a step of NestedTx or changes nothing it can see. *)
LEMMA StepRefines ==
  ASSUME WholeInv, [Next]_vars
  PROVE  [Abstract!Next]_(Abstract!vars)
<1> USE DEF WholeInv, IInv
<1>0. TypeOK'
  BY StepInv
<1>1. CASE Begin
  <2>1. Status = "idle" /\ Status' = "running" /\ db' = db
    BY <1>0, <1>1, StatusFact, StatusFactNext DEF Begin, SqlBegin
  <2>2. Work' = <<{}>>
    <3>1. Len(frames') = 1 /\ acked' = {}
      BY <1>1, FirstStack DEF Begin, StartInv, history
    <3>2. \A d \in 1..1 : WorkOf(frames[d].id)' = {}
      BY <3>1 DEF WorkOf
    <3>3. /\ Work' \in Seq(SUBSET Writes) /\ Len(Work') = 1
          /\ \A d \in 1..1 : Work'[d] = WorkOf(frames[d].id)'
      BY <1>0, <3>1, WorkTypeNext
    <3>4. Work'[1] = {}
      BY <3>2, <3>3
    <3> QED
      BY <3>3, <3>4
  <2> QED
    BY <2>1, <2>2, AbstractActions DEF Abstract!Next
<1>2. CASE BeginFails
  <2>1. Status = "idle" /\ Status' = "over" /\ db' = db /\ frames' = << >>
    BY <1>0, <1>2, StatusFact, StatusFactNext DEF BeginFails, sqlVars, Running
  <2> QED
    BY <2>1, NoWorkNext, AbstractActions DEF Abstract!Next
<1>3. ASSUME NEW w \in Writes, Write(w)
      PROVE  Abstract!Next
  <2>1. Status = "running" /\ Status' = Status /\ db' = db
    BY <1>0, <1>3, StatusFact DEF Write, SqlWrite, callVars, Running, Status
  <2>2. Work' = [Work EXCEPT ![Len(Work)] = @ \cup {w}]
    BY <1>0, <1>3, WorkWrite
  <2>3. Abstract!Do(w)
    BY <2>1, <2>2, AbstractActions
  <2> QED
    BY <2>3 DEF Abstract!Next
<1>4. CASE Nest
  <2>1. Status = "running" /\ Status' = Status /\ db' = db
    BY <1>0, <1>4, StatusFact DEF Nest, SqlSavepoint, Running, Status
  <2> QED
    BY <1>0, <1>4, <2>1, WorkNest, AbstractActions DEF Abstract!Next
<1>5. CASE FnGoexits
  <2>1. Status = "running" /\ Status' = "over" /\ db' = db /\ frames' = << >>
    BY <1>0, <1>5, StatusFact, StatusFactNext DEF FnGoexits, sqlVars, Running
  <2> QED
    BY <2>1, NoWorkNext, AbstractActions DEF Abstract!Next
<1>6. CASE PopStep
  BY <1>0, <1>6, NestedEnds, RootEnds DEF Abstract!Next
<1>7. CASE NestFails \/ NestRejected \/ QuietStep \/ UNCHANGED vars
  <2>1. Work' = Work
    BY <1>7, QuietFacts, WorkSame DEF NestFails, NestRejected, vars, callVars, history
  <2>2. db' = db
    BY <1>7 DEF NestFails, NestRejected, QuietStep, WriteFails, ControlStep, FnReturnsNil,
       FnReturnsError, FnPanics, FnRecovers, RollbackTo, Surroundings, Expire, AwaitDone,
       ConnectionLost, Finished, SqlStatementFails, SqlRollbackTo, SqlRollback,
       SqlConnectionLost, EngineEnds, vars, sqlVars
  <2>3. pc' = pc \/ (pc \in Running /\ pc' \in Running)
    BY <1>7 DEF NestFails, NestRejected, QuietStep, WriteFails, ControlStep, FnReturnsNil,
       FnReturnsError, FnPanics, FnRecovers, RollbackTo, Surroundings, Expire, AwaitDone,
       ConnectionLost, Finished, vars, callVars, Running
  <2>4. Status' = Status
    BY <1>0, <2>3, StatusFact, StatusFactNext DEF Status
  <2> QED
    BY <2>1, <2>2, <2>4, AbstractActions
<1> QED
  BY <1>1, <1>2, <1>3, <1>4, <1>5, <1>6, <1>7, StepKinds

(* ImplementsNestedTx: BEGIN, savepoints, expiries and lost connections together do
   what a stack of scopes does, one step of the code for one of the stack. *)
THEOREM RefinesNestedTx == Spec => ImplementsNestedTx
<1>1. Init => Abstract!Init
  BY DEF Init, SqlInit, Abstract!Init, Status
<1>2. WholeInv /\ [Next]_vars => [Abstract!Next]_(Abstract!vars)
  BY StepRefines
<1> QED
  BY <1>1, <1>2, AlwaysWholeInv, PTL DEF Spec, ImplementsNestedTx, Abstract!Spec
=============================================================================
