------------------------------ MODULE Statement ------------------------------
(***************************************************************************)
(* From the text and the arguments of a call to what the driver is sent:   *)
(* lex (Lexer), compile and render of bind.go, with the arguments split as *)
(* row.go does and the placeholders of a dialect that numbers them.        *)
(*                                                                         *)
(* An argument is a value passed whole, or a slice that is expanded; of    *)
(* its contents only where it came from matters: <<key, e>> is element e   *)
(* of the argument with that name or position, <<key, 0>> the whole of it. *)
(***************************************************************************)
EXTENDS Lexer, SequencesExt, FiniteSetsExt

CONSTANT Lengths   (* of the slices among the arguments *)

ASSUME LengthsAssumption == Lengths \subseteq Nat

VARIABLES
  style,   (* paramStyle of the plan *)
  parts,   (* the plan's parts *)
  args,    (* the arguments: named or positional, and the size of each *)
  at,      (* the part to render next *)
  buf,     (* the text rendered so far *)
  out,     (* the driver's arguments so far *)
  result   (* "ok", or which error *)

planVars == <<style, parts>>
renderVars == <<args, at, buf, out>>
vars == <<lexVars, planVars, renderVars, result>>

(* The sizes of arguments: sliceElems leaves a value whole, or gives the
   elements of a slice. *)
Whole == -1
Sizes == {Whole} \cup Lengths

NoArgs == [named |-> FALSE, size |-> << >>]

Init ==
  /\ LexInit
  /\ style = "none"
  /\ parts = << >>
  /\ args = NoArgs
  /\ at = 1
  /\ buf = << >>
  /\ out = << >>
  /\ result = "none"

Lex == LexNext /\ UNCHANGED <<planVars, renderVars, result>>

-----------------------------------------------------------------------------
(* compile.                                                                *)

Has(kind) == \E t \in Range(toks) : t.kind = kind

Mixed == Has("numbered") /\ (Has("named") \/ Has("ordinal"))

Style ==
  IF Has("named") THEN "named" ELSE IF Has("ordinal") THEN "ordinal"
  ELSE IF Has("numbered") THEN "numbered" ELSE "none"

(* A lone ? is a placeholder only in a statement without names. *)
IsSlot(t) == t.kind = "named" \/ (t.kind = "ordinal" /\ Style = "ordinal")

(* Mutant of Literal: the escape is copied as it is written. *)
LiteralAsWritten(t) == SubSeq(sql, t.lo, t.hi - 1)

(* What a token that is no slot adds to the literal text. *)
Literal(t) == IF t.kind = "escapedQ" THEN <<"?">> ELSE SubSeq(sql, t.lo, t.hi - 1)

TextPart(text) == [param |-> FALSE, text |-> text, key |-> 0]
Slots(ps) == Cardinality({p \in DOMAIN ps : ps[p].param})
SlotPart(t, ps) ==
  [ param |-> TRUE, text |-> << >>,
    key |-> IF t.kind = "named" THEN SubSeq(sql, t.lo + 1, t.hi - 1) ELSE Slots(ps) + 1 ]

(* Adjacent literals are one part. *)
AddLiteral(ps, text) ==
  IF ps # << >> /\ ~Last(ps).param
  THEN Append(Front(ps), TextPart(Last(ps).text \o text))
  ELSE Append(ps, TextPart(text))

AddToken(ps, t) ==
  IF IsSlot(t) THEN Append(ps, SlotPart(t, ps)) ELSE AddLiteral(ps, Literal(t))

(* The parts of the tokens, one token after another. *)
Parts ==
  LET of[n \in 0..Len(toks)] == IF n = 0 THEN << >> ELSE AddToken(of[n - 1], toks[n])
  IN  of[Len(toks)]

Stop(how) ==
  /\ result' = how
  /\ pc' = "done"
  /\ UNCHANGED <<sql, i, textStart, toks>>

GoTo(next) ==
  /\ pc' = next
  /\ UNCHANGED <<sql, i, textStart, toks, result>>

CompileFails == pc = "compile" /\ Mixed /\ Stop("mixed") /\ UNCHANGED <<planVars, renderVars>>

Compile ==
  /\ pc = "compile" /\ ~Mixed
  /\ style' = Style
  /\ parts' = Parts
  /\ GoTo("bind")
  /\ UNCHANGED renderVars

-----------------------------------------------------------------------------
(* splitArgs, and the checks render begins with.                           *)

Keys == {parts[p].key : p \in {q \in DOMAIN parts : parts[q].param}}

(* Named arguments for all the names or for all but one; positional ones as
   many as there are placeholders, one less or one more. *)
ArgChoices ==
  LET names == IF style = "named" THEN Keys ELSE {}
      given == {names} \cup {names \ {x} : x \in names}
      count == Slots(parts)
  IN  (UNION {[named : {TRUE}, size : [g -> Sizes]] : g \in given})
      \cup [named : {FALSE}, size : [1..count -> Sizes]]
      \cup {[named |-> FALSE, size |-> [k \in 1..n |-> Whole]] : n \in {count - 1, count + 1} \cap Nat}

Accepted(a) ==
  CASE style = "named" -> a.named
    [] style = "ordinal" -> ~a.named /\ Cardinality(DOMAIN a.size) = Slots(parts)
    [] OTHER -> ~a.named

Bind ==
  /\ pc = "bind"
  /\ \E a \in ArgChoices :
       /\ args' = a
       /\ IF Accepted(a) THEN GoTo("render") ELSE Stop("arguments")
  /\ UNCHANGED <<planVars, at, buf, out>>

-----------------------------------------------------------------------------
(* render.                                                                 *)

(* The decimal form of n. *)
Decimal(n) ==
  LET digits[m \in 0..n] ==
        IF m < 10 THEN <<Numerals[m + 1]>>
        ELSE Append(digits[m \div 10], Numerals[(m % 10) + 1])
  IN  digits[n]

(* AppendOrdinal with a $. *)
Placeholder(n) == <<"$">> \o Decimal(n)

Rendering == pc = "render" /\ style \in {"named", "ordinal"} /\ at <= Len(parts)

(* The part at work is done: this text and these arguments are added to. *)
Rendered(text, values) ==
  /\ buf' = buf \o text
  /\ out' = out \o values
  /\ at' = at + 1
  /\ GoTo("render")
  /\ UNCHANGED <<planVars, args>>

(* Statements without placeholders of row's go through as they are, and so do
   their arguments. *)
RenderVerbatim ==
  /\ pc = "render" /\ style \in {"none", "numbered"}
  /\ buf' = FlattenSeq([p \in DOMAIN parts |-> parts[p].text])
  /\ out' = [p \in DOMAIN args.size |-> <<p, 0>>]
  /\ Stop("ok")
  /\ UNCHANGED <<planVars, args, at>>

RenderText == Rendering /\ ~parts[at].param /\ Rendered(parts[at].text, << >>)

Key == parts[at].key
Found == parts[at].param /\ Key \in DOMAIN args.size

LookupFails ==
  /\ Rendering /\ parts[at].param /\ Key \notin DOMAIN args.size
  /\ Stop("missing")
  /\ UNCHANGED <<planVars, renderVars>>

RenderWhole ==
  /\ Rendering /\ Found /\ args.size[Key] = Whole
  /\ Rendered(Placeholder(Len(out) + 1), << <<Key, 0>> >>)

RenderEmpty ==
  /\ Rendering /\ Found /\ args.size[Key] = 0
  /\ Rendered(<<"N">>, << >>)

(* Mutant of SliceText: the placeholders of each slice are numbered from one. *)
SliceTextFromOne(size, before) ==
  FlattenSeq([e \in 1..size |-> (IF e > 1 THEN <<",">> ELSE << >>) \o Placeholder(e)])

(* The placeholders of a slice, when so many arguments come before it. *)
SliceText(size, before) ==
  FlattenSeq([e \in 1..size |-> (IF e > 1 THEN <<",">> ELSE << >>) \o Placeholder(before + e)])

RenderSlice ==
  /\ Rendering /\ Found /\ args.size[Key] > 0
  /\ Rendered(SliceText(args.size[Key], Len(out)), [e \in 1..args.size[Key] |-> <<Key, e>>])

RenderEnds ==
  /\ pc = "render" /\ style \in {"named", "ordinal"} /\ at > Len(parts)
  /\ Stop("ok")
  /\ UNCHANGED <<planVars, renderVars>>

Finished == pc = "done" /\ UNCHANGED vars

Next ==
  \/ Lex \/ CompileFails \/ Compile \/ Bind
  \/ RenderVerbatim \/ RenderText \/ LookupFails
  \/ RenderWhole \/ RenderEmpty \/ RenderSlice \/ RenderEnds
  \/ Finished

Spec == Init /\ [][Next]_vars
=============================================================================
