------------------------------- MODULE QbProps -------------------------------
(***************************************************************************)
(* What conditions mean, what an engine makes of the text written for      *)
(* them, and that the two agree.                                           *)
(***************************************************************************)
EXTENDS Qb

(* A row of the database, with NULLs. *)
RowValues == [{Names[k] : k \in DOMAIN Names} -> 0..2]

(* SQL's three truth values. *)
NotOf(x) == CASE x = "T" -> "F" [] x = "F" -> "T" [] OTHER -> "U"
AndOf(S) == IF "F" \in S THEN "F" ELSE IF "U" \in S THEN "U" ELSE "T"
OrOf(S) == NotOf(AndOf({NotOf(x) : x \in S}))
Truth(p) == IF p THEN "T" ELSE "F"

Compared(x, op, y) ==
  IF x = Null \/ y = Null THEN "U"
  ELSE Truth(CASE op = "=" -> x = y
               [] op = "<>" -> x # y
               [] op = "<" -> x < y
               [] op = ">=" -> x >= y)

Member(x, elems) == OrOf({Compared(x, "=", y) : y \in Range(elems)})
Within(x, lo, hi) == AndOf({Compared(x, ">=", lo), NotOf(Compared(hi, "<", x))})

-----------------------------------------------------------------------------
(* An engine's reading of the words of a condition: OR binds weaker than AND,
   AND weaker than NOT; the AND of a BETWEEN belongs to it.                  *)

Depth(t, k) ==
  Cardinality({j \in 1..k : t[j] = "("}) - Cardinality({j \in 1..k : t[j] = ")"})

TopLevel(t, op) ==
  {k \in DOMAIN t : t[k] = op /\ Depth(t, k) = 0 /\ ~(op = "AND" /\ k > 2 /\ t[k - 2] = "BETWEEN")}

ArgOf(word, args) == args[CHOOSE n \in DOMAIN args : Placeholders[n] = word]
ArgsIn(t, args) ==
  LET marks == SelectSeq(t, LAMBDA word : word \in Range(Placeholders))
  IN  [k \in DOMAIN marks |-> ArgOf(marks[k], args)]

(* A condition without AND, OR and NOT in front. *)
AtomMeans(t, args, row) ==
  LET x == row[t[1]]
      negated == Len(t) > 2 /\ t[2] = "NOT"
      op == IF negated THEN t[3] ELSE t[2]
      values == ArgsIn(t, args)
      plain == CASE op = "IS" -> Truth((x = Null) = (t[3] = "NULL"))
                 [] op = "IN" -> Member(x, values)
                 [] op = "BETWEEN" -> Within(x, values[1], values[2])
                 [] OTHER -> Compared(x, op, values[1])
  IN  IF negated THEN NotOf(plain) ELSE plain

RECURSIVE TextMeans(_, _, _)
TextMeans(t, args, row) ==
  LET ors == TopLevel(t, "OR")
      ands == TopLevel(t, "AND")
      sides(k) == {TextMeans(SubSeq(t, 1, k - 1), args, row),
                   TextMeans(SubSeq(t, k + 1, Len(t)), args, row)}
  IN  CASE ors # {} -> OrOf(sides(Max(ors)))
        [] ors = {} /\ ands # {} -> AndOf(sides(Max(ands)))
        [] ors \cup ands = {} /\ t[1] = "NOT" -> NotOf(TextMeans(Tail(t), args, row))
        [] ors \cup ands = {} /\ t[1] = "(" -> TextMeans(SubSeq(t, 2, Len(t) - 1), args, row)
        [] ors \cup ands = {} /\ t[1] = "1" -> Truth(t[3] = "1")
        [] OTHER -> AtomMeans(t, args, row)

-----------------------------------------------------------------------------
(* What the documentation of each condition says.  An ordering comparison with
   a slice has no meaning there; the widest one could have in mind is that it
   holds for some element. *)
ValueMeans(x, op, v) ==
  CASE IsNil(v) -> Truth((x = Null) = (op = "="))
    [] v.slice /\ op = "=" -> Member(x, v.of)
    [] v.slice /\ op = "<>" -> NotOf(Member(x, v.of))
    [] v.slice /\ op \in {"<", ">="} -> OrOf({Compared(x, op, y) : y \in Range(v.of)})
    [] OTHER -> Compared(x, op, v.of[1])

(* Raw stands for its text, read by itself, with its own arguments. *)
RawText(e) ==
  [k \in DOMAIN e.text |-> IF e.text[k] = "?" THEN Placeholders[Marks(SubSeq(e.text, 1, k))]
                           ELSE e.text[k]]

RECURSIVE Means(_, _)
Means(e, row) ==
  CASE e.is = "cmp" -> AndOf({ValueMeans(row[col], e.op, e.m[col]) : col \in DOMAIN e.m})
    [] e.is = "in" -> IF e.positive THEN Member(row[e.col], e.elems)
                      ELSE NotOf(Member(row[e.col], e.elems))
    [] e.is = "null" -> Truth((row[e.col] = Null) = ~e.not)
    [] e.is = "between" -> LET within == Within(row[e.col], e.lo, e.hi)
                           IN  IF e.not THEN NotOf(within) ELSE within
    [] e.is = "group" -> LET all == {Means(p, row) : p \in Range(e.parts)}
                         IN  IF e.sep = "AND" THEN AndOf(all) ELSE OrOf(all)
    [] e.is = "not" -> NotOf(Means(e.inner, row))
    [] e.is = "raw" -> TextMeans(RawText(e), e.args, row)

-----------------------------------------------------------------------------
(* The clauses of a statement: what stands between one keyword and the next. *)
Keywords == {"JOIN", "ON", "WHERE", "GROUP BY", "HAVING", "ORDER BY", "SET", "VALUES", "RETURNING"}
ClauseAt(t, k) ==
  LET ends == {j \in (k + 1)..Len(t) : t[j] \in Keywords}
  IN  SubSeq(t, k + 1, IF ends = {} THEN Len(t) ELSE Min(ends) - 1)

(* The conditions in the text, and those asked for, clause by clause. *)
Conditions(t) ==
  LET at == SetToSortSeq({k \in DOMAIN t : t[k] \in {"ON", "WHERE", "HAVING"}}, <)
  IN  [c \in DOMAIN at |-> ClauseAt(t, at[c])]
Asked(f) ==
  LET on == SelectSeq(f["joins"], LAMBDA e : e.is # "nil")
  IN  SelectSeq([k \in DOMAIN on |-> <<on[k]>>] \o <<f["where"], f["having"]>>,
                LAMBDA c : c # << >>)

Sent == said[sent.of]
Built == sent.of # 0 /\ sent.w.err = "none"

(* The conditions of a statement select the rows that the conditions given mean
   together, NULLs included: parentheses, the arguments' numbers, empty lists
   and nil come out right however conditions are nested. *)
ClausesMeanConditions ==
  Built =>
    LET texts == Conditions(sent.w.text)  asked == Asked(Sent) IN
    /\ Len(texts) = Len(asked)
    /\ \A c \in DOMAIN asked : \A row \in RowValues :
         TextMeans(texts[c], sent.w.args, row) = AndOf({Means(e, row) : e \in Range(asked[c])})

(* "Lt renders col < value" (expr.go), and "an empty condition must not
   silently disappear and widen the query": no row is selected that a
   condition, read as widely as can be, leaves out. *)
NeverWider ==
  Built =>
    LET texts == Conditions(sent.w.text)  asked == Asked(Sent) IN
    \A c \in DOMAIN asked : \A row \in RowValues :
      TextMeans(texts[c], sent.w.args, row) = "T"
        => \A e \in Range(asked[c]) : Means(e, row) = "T"

(* The words of a clause with the arguments in the place of their numbers. *)
Inlined(t, args) ==
  [k \in DOMAIN t |-> IF t[k] \in Range(Placeholders) THEN <<"value", ArgOf(t[k], args)>>
                      ELSE <<"word", t[k]>>]
Word(s) == <<"word", s>>
Value(x) == <<"value", x>>

(* What SET and VALUES are to say, with the values in their places. *)
Assignment(set) ==
  <<Word(set.col), Word("=")>>
  \o (IF set.raw.is = "nil" THEN <<Value(set.val)>> ELSE Inlined(RawText(set.raw), set.raw.args))
Tuple(values) ==
  <<Word("(")>> \o FlattenSeq([k \in DOMAIN values |->
    (IF k > 1 THEN <<Word(",")>> ELSE << >>) \o <<Value(values[k])>>]) \o <<Word(")")>>
CommaSeparated(parts) ==
  FlattenSeq([k \in DOMAIN parts |-> (IF k > 1 THEN <<Word(",")>> ELSE << >>) \o parts[k]])

(* Each column of an UPDATE and each place of an INSERT gets the value given for
   it, though the arguments of SET, WHERE and VALUES are numbered together, and
   no argument goes unused. *)
ValuesInPlace ==
  Built =>
    LET t == sent.w.text
        clause(kw) == Inlined(ClauseAt(t, CHOOSE k \in DOMAIN t : t[k] = kw), sent.w.args)
    IN  /\ program.kind = "update" =>
             clause("SET") = CommaSeparated([k \in DOMAIN Sent["sets"] |-> Assignment(Sent["sets"][k])])
        /\ program.kind = "insert" =>
             clause("VALUES") = CommaSeparated([k \in DOMAIN Sent["rows"] |-> Tuple(Sent["rows"][k])])
        /\ \A n \in DOMAIN sent.w.args : Placeholders[n] \in Range(t)
=============================================================================
