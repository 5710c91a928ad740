------------------------------ MODULE Classify ------------------------------
(***************************************************************************)
(* Errors and what they are worth: errors.go, and ClassifyError of the two *)
(* adapters.  An error is the sequence of its layers, outermost first, as  *)
(* Unwrap walks it: a *row.Error, a text put around it with %w, and at the *)
(* bottom what a driver reported or anything else.                         *)
(***************************************************************************)
EXTENDS Integers, Sequences

Engines == {"postgres", "sqlite"}

Codes ==
  {"Unknown", "UniqueViolation", "ForeignKeyViolation", "NotNullViolation",
   "CheckViolation", "Deadlock", "SerializationFailure", "Busy", "Timeout"}

Retryable(code) == code \in {"Deadlock", "SerializationFailure", "Busy"}

(* The layers. *)
RowError(code) == [kind |-> "row", code |-> code]
Text == [kind |-> "text"]
Reported(engine, report) == [kind |-> engine, report |-> report]
Other == [kind |-> "other"]

-----------------------------------------------------------------------------
(* errors.As: whether there is a layer of a kind, and the outermost one. *)
Has(err, kind) == \E i \in DOMAIN err : err[i].kind = kind
As(err, kind) ==
  LET outermost == CHOOSE i \in DOMAIN err :
                     /\ err[i].kind = kind
                     /\ \A j \in DOMAIN err : err[j].kind = kind => i <= j
  IN  err[outermost]

ClassifySqlState(state) ==
  CASE state = "23505" -> "UniqueViolation"
    [] state = "23503" -> "ForeignKeyViolation"
    [] state = "23502" -> "NotNullViolation"
    [] state = "23514" -> "CheckViolation"
    [] state = "40P01" -> "Deadlock"
    [] state = "40001" -> "SerializationFailure"
    [] state = "55P03" -> "Busy"
    [] state = "57014" -> "Timeout"
    [] OTHER -> "Unknown"

(* The primary result code of SQLite is in the low byte of an extended one. *)
Primary(result) == result % 256
Constraint == 19

ClassifyResultCode(result) ==
  CASE result \in {2067, 1555, 2579} -> "UniqueViolation"
    [] result = 787 -> "ForeignKeyViolation"
    [] result = 1299 -> "NotNullViolation"
    [] result = 275 -> "CheckViolation"
    [] result \in {5, 261, 517, 6} -> "Busy"
    [] result \in {773, 9} -> "Timeout"
    [] OTHER -> IF Primary(result) = Constraint THEN "CheckViolation" ELSE "Unknown"

Recognise(engine, report) ==
  IF engine = "postgres" THEN ClassifySqlState(report) ELSE ClassifyResultCode(report)

ClassifyError(engine, err) ==
  IF Has(err, engine) THEN Recognise(engine, As(err, engine).report) ELSE "Unknown"

(* Mutant of Wrap: the dialect is shown what row just made of the error, which
   no driver reported. *)
WrapUnseen(engine, err) ==
  IF Has(err, "row") THEN err ELSE <<RowError(ClassifyError(engine, << >>))>> \o err

(* An error that row has annotated already is left as it is. *)
Wrap(engine, err) ==
  IF Has(err, "row") THEN err ELSE <<RowError(ClassifyError(engine, err))>> \o err

(* Mutant of CodeOf: a type assertion, which sees the outermost layer only. *)
CodeOfOutermost(err) == IF err[1].kind = "row" THEN err[1].code ELSE "Unknown"

CodeOf(err) == IF Has(err, "row") THEN As(err, "row").code ELSE "Unknown"
=============================================================================
