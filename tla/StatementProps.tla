--------------------------- MODULE StatementProps ----------------------------
(***************************************************************************)
(* What a reader of SQL says of a statement, character by character and    *)
(* without scanning it, and that lex, compile and render agree.            *)
(***************************************************************************)
EXTENDS Statement

(* The tokens tile the statement: each begins where the one before it ends, in
   the end nothing is left over, the scan never runs past it, and two texts never
   follow each other (TestLexCoversInput; lex.go, "the result alternates"). *)
TokensTile ==
  LET covered == IF toks = << >> THEN 1 ELSE Last(toks).hi IN
  /\ \A t \in DOMAIN toks :
       /\ toks[t].lo < toks[t].hi
       /\ toks[t].lo = IF t = 1 THEN 1 ELSE toks[t - 1].hi
       /\ t > 1 => "text" \notin {toks[t].kind} \cap {toks[t - 1].kind}
  /\ covered = IF pc = "lex" THEN textStart ELSE EndOf(sql)
  /\ textStart <= i /\ i <= EndOf(sql)

-----------------------------------------------------------------------------
(* The regions of a text that hide what is in them.                        *)

Least(S, default) == IF S = {} THEN default ELSE Min(S)

(* An odd number of backslashes stands before k, from lo on. *)
Backslashed(text, lo, k) ==
  Cardinality({j \in lo..(k - 1) : \A m \in j..(k - 1) : text[m] = "bs"}) % 2 = 1

(* A quoted region is over after a quote that makes their number even and is
   not followed by another. *)
QuotedTo(text, lo, escapes) ==
  LET q == text[lo]
      counts == {k \in lo..Len(text) : text[k] = q /\ ~(escapes /\ Backslashed(text, lo, k))}
      even == {k \in counts : Cardinality({j \in counts : j <= k}) % 2 = 0}
  IN  Least({k + 1 : k \in {k \in even : ~Is(text, k + 1, {q})}}, EndOf(text))

(* Reading one character at a time: how many comments are open after k, and
   whether k may be half of a bracket. *)
CommentTo(text, lo) ==
  LET after[k \in (lo - 1)..Len(text)] ==
        IF k < lo THEN <<0, "used">>
        ELSE LET before == after[k - 1] IN
             CASE before[2] = "/" /\ text[k] = "*" -> <<before[1] + 1, "used">>
               [] before[2] = "*" /\ text[k] = "/" -> <<before[1] - 1, "used">>
               [] OTHER -> <<before[1], text[k]>>
  IN  Least({k + 1 : k \in {k \in (lo + 2)..Len(text) : after[k][1] = 0}}, EndOf(text))

(* The character at k is the first, third, fifth ... of a run of its kind. *)
OddInRun(text, k) ==
  Cardinality({j \in 1..k : \A m \in j..k : text[m] = text[k]}) % 2 = 1

(* E begins an escape string unless it belongs to a word that began before it,
   or is the name of a parameter: a second colon in a row makes a cast. *)
EscapeAt(text, k) ==
  /\ Pair(text, k, "E", "'")
  /\ \A j \in 1..(k - 1) :
       text[j] \in Letters => \E m \in j..(k - 1) : text[m] \notin Word
  /\ ~(k > 1 /\ text[k - 1] = ":" /\ OddInRun(text, k - 1))

TagAt(text, k) == Is(text, k, {"$"}) /\ ~Is(text, k + 1, Digits) /\ HasTag(text, k)

(* The end of the region that begins at k, which is k if none does. *)
RegionTo(text, k) ==
  CASE Pair(text, k, "-", "-") -> Least({j \in k..Len(text) : text[j] = "nl"}, EndOf(text))
    [] Pair(text, k, "/", "*") -> CommentTo(text, k)
    [] EscapeAt(text, k) -> QuotedTo(text, k + 1, TRUE)
    [] Is(text, k, Quotes) -> QuotedTo(text, k, FALSE)
    [] TagAt(text, k) -> DollarEnd(text, k)
    [] OTHER -> k

Visible(text) ==
  LET hidden[k \in 0..Len(text)] ==
        IF k = 0 THEN 0
        ELSE LET before == hidden[k - 1] IN IF before > k THEN before ELSE RegionTo(text, k)
  IN  {k \in 1..Len(text) : hidden[k] <= k}

-----------------------------------------------------------------------------
(* A colon before a name is a parameter unless it ends a cast; a $ is one
   before a digit; a ? is one unless it is half of ??, or a JSON operator. *)
ParamsOf(text) ==
  LET seen == Visible(text)
      names == {k \in seen : Is(text, k, {":"}) /\ Is(text, k + 1, Letters) /\ OddInRun(text, k)}
      numbers == {k \in seen : Is(text, k, {"$"}) /\ Is(text, k + 1, Digits)}
      marks == {k \in seen : Is(text, k, {"?"}) /\ OddInRun(text, k)}
  IN  {Token("named", k, SpanEnd(text, k + 1, Word)) : k \in names}
      \cup {Token("numbered", k, SpanEnd(text, k + 1, Digits)) : k \in numbers}
      \cup {Token("escapedQ", k, k + 2) : k \in {k \in marks : Is(text, k + 1, {"?"})}}
      \cup {Token("ordinal", k, k + 1) : k \in {k \in marks : ~Is(text, k + 1, {"?", "|", "&"})}}

(* lex finds exactly the parameters a reader sees: none in a string, a quoted
   identifier, a comment or a dollar quote, however they are nested, escaped
   or left open, and every one outside them (README, Your SQL is read
   properly). *)
ParametersFound ==
  pc = "compile" => {t \in Range(toks) : t.kind # "text"} = ParamsOf(sql)

-----------------------------------------------------------------------------
(* What the arguments make of the text.                                    *)

(* The tokens of S in the order of the text. *)
InOrder(S) ==
  [n \in 1..Cardinality(S) |-> CHOOSE t \in S : Cardinality({u \in S : u.lo < t.lo}) = n - 1]

(* The parameters that arguments replace. *)
SlotsIn(params) ==
  LET names == {t \in params : t.kind = "named"} IN
  InOrder(IF names # {} THEN names ELSE {t \in params : t.kind = "ordinal"})

(* The driver's arguments that slot s stands for, and those before it. *)
KeyOf(slots, s) ==
  IF slots[s].kind = "named" THEN SubSeq(sql, slots[s].lo + 1, slots[s].hi - 1) ELSE s

ValuesOf(slots, s) ==
  LET key == KeyOf(slots, s)  size == args.size[key] IN
  IF size = Whole THEN << <<key, 0>> >> ELSE [e \in 1..size |-> <<key, e>>]

ValuesBefore(slots, s) == FlattenSeq([r \in 1..(s - 1) |-> ValuesOf(slots, r)])

(* A slot becomes its placeholders, numbered on from those before it. *)
PlaceholdersOf(slots, s) ==
  LET n == Len(ValuesBefore(slots, s))  size == Len(ValuesOf(slots, s)) IN
  IF size = 0 THEN <<"N">>
  ELSE Tail(FlattenSeq([e \in 1..size |-> <<",">> \o Placeholder(n + e)]))

(* The text from lo to hi, with ?? read as one ?. *)
TextBetween(params, lo, hi) ==
  LET doubled == {t.lo + 1 : t \in {t \in params : t.kind = "escapedQ"}}
      kept[k \in (lo - 1)..(hi - 1)] ==
        IF k < lo THEN << >>
        ELSE IF k \in doubled THEN kept[k - 1]
        ELSE Append(kept[k - 1], sql[k])
  IN  kept[hi - 1]

(* Slot s with the text between it and the one before, which ends at EndAt. *)
EndAt(slots, s) == IF s = 0 THEN 1 ELSE slots[s].hi

UpToSlot(params, slots, s) ==
  TextBetween(params, EndAt(slots, s - 1), slots[s].lo) \o PlaceholdersOf(slots, s)

(* The driver gets the text with its parameters replaced and nothing else
   changed but ??, and one argument for each placeholder, the one that the
   parameter at its place stands for; a statement without parameters of row's
   keeps its text and its arguments. *)
RendersStatement ==
  result = "ok" =>
    LET params == ParamsOf(sql)
        slots == SlotsIn(params)
    IN  /\ buf = FlattenSeq([s \in DOMAIN slots |-> UpToSlot(params, slots, s)])
                  \o TextBetween(params, EndAt(slots, Len(slots)), EndOf(sql))
        /\ out = IF slots # << >> THEN ValuesBefore(slots, Len(slots) + 1)
                 ELSE [p \in DOMAIN args.size |-> <<p, 0>>]

(* The numbers of the placeholders an engine sees in a text. *)
NumbersIn(text) ==
  LET numbered == InOrder({t \in ParamsOf(text) : t.kind = "numbered"}) IN
  [n \in DOMAIN numbered |-> SubSeq(text, numbered[n].lo + 1, numbered[n].hi - 1)]

(* No letter, digit or $ touches a parameter. *)
SetApart ==
  \A t \in Range(SlotsIn(ParamsOf(sql))) :
    ~Is(sql, t.hi, Word) /\ (t.lo > 1 => sql[t.lo - 1] \notin Word \cup {"$"})

(* The engine that reads the rendered text finds one placeholder for each
   argument, in their order; in a statement row does not rewrite it finds
   those of the source.  No text next to a parameter can hide it. *)
EngineSeesPlaceholders ==
  result = "ok" /\ SetApart =>
    NumbersIn(buf) = IF style \in {"named", "ordinal"}
                     THEN [n \in DOMAIN out |-> Decimal(n)]
                     ELSE NumbersIn(sql)
=============================================================================
