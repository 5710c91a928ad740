-------------------------------- MODULE Lexer --------------------------------
(***************************************************************************)
(* lex.go: the scanner that tells the parameters of a statement from the   *)
(* text around them.  One action is one turn of its loop: each is a case   *)
(* of the switch, in the order of the switch, and moves i past what the    *)
(* case consumes.                                                          *)
(*                                                                         *)
(* Characters are strings, four of them by name: the double quote dq, the  *)
(* backtick bt, the backslash bs and the newline nl.  Offsets count from   *)
(* 1, so i has reached the end when it is Len(sql) + 1.                    *)
(***************************************************************************)
EXTENDS Integers, Sequences

CONSTANT Texts   (* the statements to scan *)

ASSUME TextsAssumption == \A text \in Texts : text \in Seq(STRING)

VARIABLES
  sql,        (* the statement *)
  pc,         (* "lex" while the loop runs *)
  i,          (* the next character to look at *)
  textStart,  (* where the text not yet in a token begins *)
  toks        (* the tokens so far *)

lexVars == <<sql, pc, i, textStart, toks>>

(* A letter each for the escape string, a name or tag, another one, and NULL. *)
Letters == {"E", "a", "b", "N"}
Numerals == <<"0", "1", "2", "3", "4", "5", "6", "7", "8", "9">>
Digits == {Numerals[d] : d \in DOMAIN Numerals}
Word == Letters \cup Digits
Quotes == {"'", "dq", "bt"}

EndOf(text) == Len(text) + 1
Is(text, k, S) == k < EndOf(text) /\ text[k] \in S
Pair(text, k, c, d) == Is(text, k, {c}) /\ Is(text, k + 1, {d})

(* Where the run of characters of S that begins at k ends. *)
SpanEnd(text, k, S) ==
  CHOOSE j \in k..EndOf(text) : ~Is(text, j, S) /\ \A m \in k..(j - 1) : Is(text, m, S)

(* Mutant of CommentEnd: comments that do not nest. *)
FlatCommentEnd(k) ==
  LET end[j \in k..EndOf(sql)] ==
        IF j = EndOf(sql) THEN j
        ELSE IF Pair(sql, j, "*", "/") THEN j + 2
        ELSE end[j + 1]
  IN  end[k + 2]

(* Block comments nest: depth counts those open at j. *)
CommentEnd(k) ==
  LET end[at \in (k..EndOf(sql)) \X Nat] ==
        LET j == at[1]  depth == at[2] IN
        IF j = EndOf(sql) \/ depth = 0 THEN j
        ELSE IF Pair(sql, j, "/", "*") THEN end[<<j + 2, depth + 1>>]
        ELSE IF Pair(sql, j, "*", "/") THEN end[<<j + 2, depth - 1>>]
        ELSE end[<<j + 1, depth>>]
  IN  end[<<k + 2, 1>>]

(* skipDoubled: the quote at k ends at the next one that is not doubled. *)
QuoteEnd(k) ==
  LET end[j \in k..EndOf(sql)] ==
        IF j = EndOf(sql) THEN j
        ELSE IF sql[j] # sql[k] THEN end[j + 1]
        ELSE IF Is(sql, j + 1, {sql[k]}) THEN end[j + 2]
        ELSE j + 1
  IN  end[k + 1]

(* Mutant of EscapeEnd: a backslash at the very end takes i past it. *)
EscapeEndOverrun(k) ==
  LET end[j \in k..(EndOf(sql) + 1)] ==
        IF j >= EndOf(sql) THEN j
        ELSE IF sql[j] = "bs" THEN end[j + 2]
        ELSE IF sql[j] # "'" THEN end[j + 1]
        ELSE IF Is(sql, j + 1, {"'"}) THEN end[j + 2]
        ELSE j + 1
  IN  end[k + 1]

(* skipEscapeString: as before, and a backslash takes the next character with
   it, of which there may be none. *)
EscapeEnd(k) ==
  LET end[j \in k..(EndOf(sql) + 1)] ==
        IF j >= EndOf(sql) THEN EndOf(sql)
        ELSE IF sql[j] = "bs" THEN end[j + 2]
        ELSE IF sql[j] # "'" THEN end[j + 1]
        ELSE IF Is(sql, j + 1, {"'"}) THEN end[j + 2]
        ELSE j + 1
  IN  end[k + 1]

(* The tag $...$ at k, and where the body it opens ends: past the first place
   the tag comes again, or at the end of the text. *)
TagEnd(text, k) == SpanEnd(text, k + 1, Word) + 1
HasTag(text, k) == Is(text, TagEnd(text, k) - 1, {"$"})
DollarEnd(text, k) ==
  LET len == TagEnd(text, k) - k
      closes == {j \in TagEnd(text, k)..(EndOf(text) - len) :
                   SubSeq(text, j, j + len - 1) = SubSeq(text, k, k + len - 1)}
  IN  IF closes = {} THEN EndOf(text)
      ELSE len + CHOOSE j \in closes : \A other \in closes : j <= other

-----------------------------------------------------------------------------
Token(kind, lo, hi) == [kind |-> kind, lo |-> lo, hi |-> hi]

(* flush: the text up to end becomes a token, unless there is none. *)
Flushed(end) ==
  IF end > textStart THEN Append(toks, Token("text", textStart, end)) ELSE toks

LexInit ==
  /\ sql \in Texts
  /\ pc = "lex"
  /\ i = 1
  /\ textStart = 1
  /\ toks = << >>

(* The characters up to hi are text. *)
SkipTo(hi) ==
  /\ i' = hi
  /\ UNCHANGED <<sql, pc, textStart, toks>>

(* Mutant of Emit: the text after the token begins where it did before. *)
EmitKeepsText(kind, hi) ==
  /\ toks' = Append(Flushed(i), Token(kind, i, hi))
  /\ textStart' = textStart
  /\ i' = hi
  /\ UNCHANGED <<sql, pc>>

(* The characters up to hi are a token. *)
Emit(kind, hi) ==
  /\ toks' = Append(Flushed(i), Token(kind, i, hi))
  /\ textStart' = hi
  /\ i' = hi
  /\ UNCHANGED <<sql, pc>>

Scanning == pc = "lex" /\ i < EndOf(sql)

StartsComment == Pair(sql, i, "-", "-") \/ Pair(sql, i, "/", "*")
StartsEscape == Pair(sql, i, "E", "'")

LineComment ==
  /\ Scanning /\ Pair(sql, i, "-", "-")
  /\ SkipTo(SpanEnd(sql, i, {sql[k] : k \in DOMAIN sql} \ {"nl"}))

BlockComment == Scanning /\ Pair(sql, i, "/", "*") /\ SkipTo(CommentEnd(i))

EscapeString == Scanning /\ StartsEscape /\ SkipTo(EscapeEnd(i + 1))

Quoted == Scanning /\ Is(sql, i, Quotes) /\ SkipTo(QuoteEnd(i))

(* lexDollar: $1, $tag$ ... $tag$, or a lone $. *)
Numbered ==
  /\ Scanning /\ Is(sql, i, {"$"}) /\ Is(sql, i + 1, Digits)
  /\ Emit("numbered", SpanEnd(sql, i + 1, Digits))

DollarQuoted ==
  /\ Scanning /\ Is(sql, i, {"$"}) /\ ~Is(sql, i + 1, Digits)
  /\ HasTag(sql, i)
  /\ SkipTo(DollarEnd(sql, i))

LoneDollar ==
  /\ Scanning /\ Is(sql, i, {"$"}) /\ ~Is(sql, i + 1, Digits)
  /\ ~HasTag(sql, i)
  /\ SkipTo(i + 1)

Cast == Scanning /\ Pair(sql, i, ":", ":") /\ SkipTo(i + 2)

Named ==
  /\ Scanning /\ Is(sql, i, {":"}) /\ Is(sql, i + 1, Letters)
  /\ Emit("named", SpanEnd(sql, i + 1, Word))

LoneColon ==
  /\ Scanning /\ Is(sql, i, {":"}) /\ ~Is(sql, i + 1, Letters \cup {":"})
  /\ SkipTo(i + 1)

(* ?| and ?&, PostgreSQL's JSON operators. *)
JsonOperator == Scanning /\ Is(sql, i, {"?"}) /\ Is(sql, i + 1, {"|", "&"}) /\ SkipTo(i + 2)

EscapedQ == Scanning /\ Pair(sql, i, "?", "?") /\ Emit("escapedQ", i + 2)

Ordinal ==
  /\ Scanning /\ Is(sql, i, {"?"}) /\ ~Is(sql, i + 1, {"|", "&", "?"})
  /\ Emit("ordinal", i + 1)

Identifier ==
  /\ Scanning /\ Is(sql, i, Letters) /\ ~StartsEscape
  /\ SkipTo(SpanEnd(sql, i, Word))

Other ==
  /\ Scanning /\ ~StartsComment
  /\ sql[i] \notin Letters \cup Quotes \cup {"$", ":", "?"}
  /\ SkipTo(i + 1)

(* flush(n): the loop is over. *)
LexEnds ==
  /\ pc = "lex" /\ i >= EndOf(sql)
  /\ toks' = Flushed(EndOf(sql))
  /\ pc' = "compile"
  /\ UNCHANGED <<sql, i, textStart>>

LexNext ==
  \/ LineComment \/ BlockComment \/ EscapeString \/ Quoted
  \/ Numbered \/ DollarQuoted \/ LoneDollar
  \/ Cast \/ Named \/ LoneColon
  \/ JsonOperator \/ EscapedQ \/ Ordinal
  \/ Identifier \/ Other \/ LexEnds
=============================================================================
