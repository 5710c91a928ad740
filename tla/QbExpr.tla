------------------------------- MODULE QbExpr -------------------------------
(***************************************************************************)
(* The expressions of qb/expr.go and how each writes itself: text with     *)
(* placeholders into w.text, arguments into w.args.                        *)
(*                                                                         *)
(* Text is a sequence of words.  An atom is a value of a column or an      *)
(* argument, 0 being NULL; a value given to a condition is one atom, or a  *)
(* slice of them.                                                          *)
(***************************************************************************)
EXTENDS Integers, SequencesExt, FiniteSetsExt

CONSTANT Names   (* the columns, in the order of their names *)

Null == 0
Scalar(x) == [slice |-> FALSE, of |-> <<x>>]
SliceValue(s) == [slice |-> TRUE, of |-> s]
IsNil(v) == v = Scalar(Null)

(* The expressions; m maps columns to values. *)
Cmp(op, m, null) == [is |-> "cmp", op |-> op, m |-> m, null |-> null]
Eq(m) == Cmp("=", m, <<"IS", "NULL">>)
NotEq(m) == Cmp("<>", m, <<"IS", "NOT", "NULL">>)
Lt(m) == Cmp("<", m, << >>)
Gte(m) == Cmp(">=", m, << >>)

(* flatten: In takes a list of values or one slice. *)
InList(col, values, positive) ==
  [ is |-> "in", col |-> col, positive |-> positive,
    elems |-> IF Len(values) = 1 /\ values[1].slice THEN values[1].of
              ELSE [k \in DOMAIN values |-> values[k].of[1]] ]
In(col, values) == InList(col, values, TRUE)
NotIn(col, values) == InList(col, values, FALSE)

IsNull(col) == [is |-> "null", col |-> col, not |-> FALSE]
NotNull(col) == [is |-> "null", col |-> col, not |-> TRUE]
Between(col, lo, hi) == [is |-> "between", col |-> col, lo |-> lo, hi |-> hi, not |-> FALSE]
NotBetween(col, lo, hi) == [is |-> "between", col |-> col, lo |-> lo, hi |-> hi, not |-> TRUE]
And(parts) == [is |-> "group", sep |-> "AND", parts |-> parts]
Or(parts) == [is |-> "group", sep |-> "OR", parts |-> parts]
Not(e) == [is |-> "not", inner |-> e]
Raw(text, args) == [is |-> "raw", text |-> text, args |-> args]
NilExpr == [is |-> "nil"]

-----------------------------------------------------------------------------
(* The writer.                                                             *)

NewWriter == [text |-> << >>, args |-> << >>, err |-> "none"]
Fail(w) == [w EXCEPT !.err = "error"]

(* Calling a method of a nil interface. *)
Panic(w) == [w EXCEPT !.err = "panic"]

Str(w, words) == [w EXCEPT !.text = @ \o words]

(* The n-th placeholder of a statement, which has at most twelve: a bound. *)
Placeholders ==
  <<"$1", "$2", "$3", "$4", "$5", "$6", "$7", "$8", "$9", "$10", "$11", "$12">>

(* Mutant of Bind: the placeholder is numbered before the argument is there. *)
BindEarly(w, x) ==
  [w EXCEPT !.args = Append(@, x), !.text = Append(@, Placeholders[Max({Len(w.args), 1})])]

Bind(w, x) ==
  [w EXCEPT !.args = Append(@, x), !.text = Append(@, Placeholders[Len(w.args) + 1])]

(* Each of n things is written after the separator that belongs before it,
   until one fails. *)
Listed(n, sep, one(_, _), w) ==
  FoldLeft(LAMBDA acc, k :
             IF acc.err # "none" THEN acc
             ELSE one(k, IF k > 1 THEN Str(acc, sep) ELSE acc),
           w, [k \in 1..n |-> k])

(* An empty list matches nothing, or everything when negated. *)
WriteIn(w, col, elems, positive) ==
  IF elems = << >> THEN Str(w, <<"1", "=", IF positive THEN "0" ELSE "1">>)
  ELSE LET opened == Str(w, <<col>> \o (IF positive THEN <<"IN", "(">> ELSE <<"NOT", "IN", "(">>))
       IN  Str(Listed(Len(elems), <<",">>, LAMBDA k, acc : Bind(acc, elems[k]), opened), <<")">>)

(* cmp.write, for one column. *)
WriteColumn(w, e, col) ==
  LET v == e.m[col] IN
  CASE IsNil(v) -> IF e.null = << >> THEN Fail(w) ELSE Str(w, <<col>> \o e.null)
    [] v.slice -> WriteIn(w, col, v.of, e.op = "=")
    [] OTHER -> Bind(Str(w, <<col, e.op>>), v.of[1])

SortedKeys(m) == SelectSeq(Names, LAMBDA col : col \in DOMAIN m)

WriteCmp(w, e) ==
  LET keys == SortedKeys(e.m) IN
  IF keys = << >> THEN Fail(w)
  ELSE Listed(Len(keys), <<"AND">>, LAMBDA k, acc : WriteColumn(acc, e, keys[k]), w)

WriteBetween(w, e) ==
  Bind(Str(Bind(Str(w, <<e.col>> \o (IF e.not THEN <<"NOT", "BETWEEN">> ELSE <<"BETWEEN">>)),
                e.lo),
           <<"AND">>),
       e.hi)

(* Every ? of the text takes the next argument. *)
Marks(text) == Cardinality({k \in DOMAIN text : text[k] = "?"})
WriteRaw(w, e) ==
  IF Marks(e.text) # Len(e.args) THEN Fail(w)
  ELSE FoldLeft(LAMBDA acc, word :
                  IF word = "?" THEN Bind(acc, e.args[Len(acc.args) - Len(w.args) + 1])
                  ELSE Str(acc, <<word>>),
                w, e.text)

RECURSIVE Write(_, _)

(* The loops of clause and of group.write, which look for nil. *)
WriteEach(parts, sep, w) ==
  Listed(Len(parts), <<sep>>,
         LAMBDA k, acc : IF parts[k].is = "nil" THEN Fail(acc) ELSE Write(parts[k], acc), w)

(* Mutant of WriteGroup: no parentheses. *)
WriteGroupBare(w, e) ==
  IF e.parts = << >> THEN Fail(w) ELSE WriteEach(e.parts, e.sep, w)

(* A group of one is that one. *)
WriteGroup(w, e) ==
  CASE e.parts = << >> -> Fail(w)
    [] Len(e.parts) = 1 -> Write(e.parts[1], w)
    [] OTHER -> Str(WriteEach(e.parts, e.sep, Str(w, <<"(">>)), <<")">>)

WriteNot(w, e) ==
  IF e.inner.is = "nil" THEN Fail(w) ELSE Str(Write(e.inner, Str(w, <<"NOT", "(">>)), <<")">>)

Write(e, w) ==
  CASE e.is = "cmp" -> WriteCmp(w, e)
    [] e.is = "in" -> WriteIn(w, e.col, e.elems, e.positive)
    [] e.is = "null" -> Str(w, <<e.col>> \o (IF e.not THEN <<"IS", "NOT", "NULL">> ELSE <<"IS", "NULL">>))
    [] e.is = "between" -> WriteBetween(w, e)
    [] e.is = "group" -> WriteGroup(w, e)
    [] e.is = "not" -> WriteNot(w, e)
    [] e.is = "raw" -> WriteRaw(w, e)
    [] e.is = "nil" -> Panic(w)

(* clause: the keyword and the conditions, or nothing when there are none. *)
WriteClause(keyword, exprs, w) ==
  IF w.err # "none" \/ exprs = << >> THEN w
  ELSE WriteEach(exprs, "AND", Str(w, <<keyword>>))
=============================================================================
