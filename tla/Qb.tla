---------------------------------- MODULE Qb ---------------------------------
(***************************************************************************)
(* BuildSQL of the four kinds of query, at any time and of any query the   *)
(* program has made (QbQuery), with the expressions of QbExpr.             *)
(*                                                                         *)
(* Names of tables and columns are words.  What has no arguments and is    *)
(* set by assignment is left out: DISTINCT, LIMIT, OFFSET, ON CONFLICT.    *)
(***************************************************************************)
EXTENDS QbQuery, QbExpr

CONSTANT Returning   (* Features().Returning *)

ASSUME ReturningAssumption == Returning \in BOOLEAN

VARIABLE sent   (* what the last BuildSQL returned, and of which query *)

vars == <<queryVars, sent>>

NotSent == [of |-> 0, w |-> NewWriter]

Init == QueryInit /\ sent = NotSent

-----------------------------------------------------------------------------
Words(names) == [k \in 1..(2 * Len(names) - 1) |-> IF k % 2 = 1 THEN names[(k + 1) \div 2] ELSE ","]

(* A keyword with a list of names, or nothing when there are none. *)
WriteNames(keyword, names, w) ==
  IF w.err # "none" \/ names = << >> THEN w ELSE Str(w, <<keyword>> \o Words(names))

WriteReturning(names, w) ==
  IF w.err = "none" /\ names # << >> /\ ~Returning THEN Fail(w)
  ELSE WriteNames("RETURNING", names, w)

(* A join without a condition has none to write. *)
WriteJoin(on, w) ==
  IF w.err # "none" THEN w
  ELSE IF on.is = "nil" THEN Str(w, <<"JOIN">>)
  ELSE Write(on, Str(w, <<"JOIN", "ON">>))

BuildSelect(f) ==
  LET selected == IF f["columns"] = << >> THEN Str(NewWriter, <<"SELECT", "*">>)
                  ELSE WriteNames("SELECT", f["columns"], NewWriter)
      joined == FoldLeft(LAMBDA w, on : WriteJoin(on, w), selected, f["joins"])
  IN  WriteNames("ORDER BY", f["orderBy"],
        WriteClause("HAVING", f["having"],
          WriteNames("GROUP BY", f["groupBy"],
            WriteClause("WHERE", f["where"], joined))))

(* A row of values, which must be as many as the columns named. *)
WriteRow(columns, values, w) ==
  IF columns # << >> /\ Len(values) # Len(columns) THEN Fail(w)
  ELSE Str(Listed(Len(values), <<",">>, LAMBDA k, acc : Bind(acc, values[k]), Str(w, <<"(">>)), <<")">>)

BuildInsert(f) ==
  LET named == IF f["columns"] = << >> THEN NewWriter
               ELSE Str(NewWriter, <<"(">> \o Words(f["columns"]) \o <<")">>)
      rows == f["rows"]
  IN  IF rows = << >> THEN Fail(NewWriter)
      ELSE WriteReturning(f["returning"],
             Listed(Len(rows), <<",">>,
                    LAMBDA k, acc : WriteRow(f["columns"], rows[k], acc),
                    Str(named, <<"VALUES">>)))

(* An assignment is of a value or of an expression; SetMap makes several. *)
Set(col, x) == [col |-> col, val |-> x, raw |-> NilExpr]
SetExpr(col, e) == [col |-> col, val |-> Null, raw |-> e]
SetMap(m) == [k \in DOMAIN SortedKeys(m) |-> Set(SortedKeys(m)[k], m[SortedKeys(m)[k]])]

WriteSet(set, w) ==
  LET named == Str(w, <<set.col, "=">>) IN
  IF set.raw.is = "nil" THEN Bind(named, set.val) ELSE Write(set.raw, named)

(* An UPDATE or a DELETE without a WHERE is refused. *)
BuildUpdate(f) ==
  LET sets == Listed(Len(f["sets"]), <<",">>, LAMBDA k, acc : WriteSet(f["sets"][k], acc),
                     Str(NewWriter, <<"SET">>))
  IN  IF f["sets"] = << >> \/ f["where"] = << >> THEN Fail(NewWriter)
      ELSE WriteReturning(f["returning"], WriteClause("WHERE", f["where"], sets))

BuildDelete(f) ==
  IF f["where"] = << >> THEN Fail(NewWriter)
  ELSE WriteReturning(f["returning"],
         WriteClause("WHERE", f["where"], Str(NewWriter, <<"DELETE">>)))

BuildSQL(kind, f) ==
  CASE kind = "select" -> BuildSelect(f)
    [] kind = "insert" -> BuildInsert(f)
    [] kind = "update" -> BuildUpdate(f)
    [] kind = "delete" -> BuildDelete(f)

Build ==
  /\ \E q \in DOMAIN queries :
       sent' = [of |-> q, w |-> BuildSQL(program.kind, [f \in Fields |-> Items(queries[q][f])])]
  /\ UNCHANGED queryVars

Next == (Method /\ UNCHANGED sent) \/ Build

Spec == Init /\ [][Next]_vars
=============================================================================
