------------------------------ MODULE Convert ------------------------------
(***************************************************************************)
(* convert.go: how a value a driver hands back is assigned to a Go         *)
(* destination.                                                            *)
(*                                                                         *)
(* A driver value is Null or a pair of a tag and a payload.  Numbers keep  *)
(* a width: int64 is -(MaxInt + 1) .. MaxInt, the narrow integers lie      *)
(* inside it, and a float64 keeps two significant bits, so that, as in the *)
(* program, an int64 need not be a float64 and MaxInt rounds up to the     *)
(* first number that is no int64.  Floats are counted in halves.  What a   *)
(* text spells is its payload: a numeral (in halves), a word or a          *)
(* timestamp.                                                              *)
(*                                                                         *)
(* A Go value is written like the driver value that carries it; the kind   *)
(* of its type says which Go type it is.  A nil pointer, slice or          *)
(* interface is Null and a pointer that is not nil is what it points at.   *)
(*                                                                         *)
(* A conversion is the set of values it may return: empty when it returns  *)
(* an error, more than one where Go leaves the result to the machine.      *)
(***************************************************************************)
EXTENDS Integers

CONSTANTS MaxInt,      \* math.MaxInt64
          Narrow,      \* the largest value of the narrow signed type
          Unscannable  \* the tags of driver values a sql.Scanner returns an error for

ASSUME WidthsAssumption == /\ MaxInt \in Nat /\ Narrow \in Nat
                           /\ 0 < Narrow /\ 2 * Narrow + 1 < MaxInt

Null == <<"null">>
IntV(n) == <<"int", n>>
FloatV(h) == <<"float", h>>
BoolV(b) == <<"bool", b>>
TextV(p) == <<"text", p>>
BytesV(p) == <<"bytes", p>>
TimeV(t) == <<"time", t>>
Numeral(h) == <<"numeral", h>>
Word(w) == <<"word", w>>
Stamp(t) == <<"stamp", t>>

Tag(v) == v[1]
Payload(v) == v[2]

IsText(v) == Tag(v) \in {"text", "bytes"}

\* A leaf type: its kind, and whether it is a pointer to that kind.
LeafKinds == {"int64", "int8", "uint8", "float64", "string", "bool",
              "bytes", "time", "any", "scanner"}

Integral == [int64 |-> -(MaxInt + 1) .. MaxInt,
             int8  |-> -(Narrow + 1) .. Narrow,
             uint8 |-> 0 .. 2 * Narrow + 1]

----------------------------------------------------------------------------
\* Floats with two significant bits, in halves, and rounding to nearest even.

Abs(n) == IF n < 0 THEN -n ELSE n

Floats == {s * m * 2^e : s \in {-1, 1}, m \in 0 .. 3, e \in 0 .. MaxInt}

\* The nearest float; halfway, the one whose last bit is 0.
Round(h) ==
  CHOOSE f \in Floats : \A g \in Floats \ {f} :
    \/ Abs(f - h) < Abs(g - h)
    \/ Abs(f - h) = Abs(g - h) /\ f % (2 * Abs(f - g)) = 0

\* ParseInt, ParseBool, ParseFloat of strconv: what a text spells.
ParseInt(p) == IF Tag(p) = "numeral" /\ Payload(p) % 2 = 0
               THEN {Payload(p) \div 2} \cap Integral.int64
               ELSE {}

ParseBool(p) == CASE p \in {Numeral(0), Word("false")} -> {FALSE}
                  [] p \in {Numeral(2), Word("true")}  -> {TRUE}
                  [] OTHER -> {}

ParseFloat(p) == IF Tag(p) = "numeral" THEN {Round(Payload(p))} ELSE {}

----------------------------------------------------------------------------
\* The conversions of convert.go.

BoolInt(b) == IF b THEN 1 ELSE 0

(* Mutant of ToInt64: a float is truncated. *)
ToInt64Truncates(src) ==
  CASE Tag(src) = "int"   -> {Payload(src)}
    [] Tag(src) = "float" -> {Payload(src) \div 2}
    [] Tag(src) = "bool"  -> {BoolInt(Payload(src))}
    [] IsText(src)        -> ParseInt(Payload(src))
    [] OTHER              -> {}

\* The bounds are compared as floats, and MaxInt as a float is one more than
\* MaxInt: the one float that passes and does not fit becomes what the
\* machine's conversion makes of it.
ToInt64(src) ==
  CASE Tag(src) = "int"   -> {Payload(src)}
    [] Tag(src) = "float" ->
         IF \/ Payload(src) % 2 # 0
            \/ Payload(src) > Round(2 * MaxInt)
            \/ Payload(src) < -2 * (MaxInt + 1)
         THEN {}
         ELSE IF Payload(src) \div 2 \in Integral.int64
              THEN {Payload(src) \div 2}
              ELSE {-(MaxInt + 1), MaxInt}
    [] Tag(src) = "bool"  -> {BoolInt(Payload(src))}
    [] IsText(src)        -> ParseInt(Payload(src))
    [] OTHER              -> {}

ToFloat64(src) ==
  CASE Tag(src) = "float" -> {Payload(src)}
    [] Tag(src) = "int"   -> {Round(2 * Payload(src))}
    [] IsText(src)        -> ParseFloat(Payload(src))
    [] OTHER              -> {}

ToBool(src) ==
  CASE Tag(src) = "bool" -> {Payload(src)}
    [] Tag(src) = "int"  -> {b \in BOOLEAN : BoolInt(b) = Payload(src)}
    [] IsText(src)       -> ParseBool(Payload(src))
    [] OTHER             -> {}

ToText(src) ==
  CASE IsText(src)        -> {Payload(src)}
    [] Tag(src) = "int"   -> {Numeral(2 * Payload(src))}
    [] Tag(src) = "float" -> {Numeral(Payload(src))}
    [] Tag(src) = "bool"  -> {Word(IF Payload(src) THEN "true" ELSE "false")}
    [] Tag(src) = "time"  -> {Stamp(Payload(src))}

ToBytes(src) == IF IsText(src) THEN {Payload(src)} ELSE {}

\* Only what can be nil in Go holds a NULL.
AssignNull(t) == IF t.ptr \/ t.kind \in {"any", "bytes"} THEN {Null} ELSE {}

\* Through a pointer a NULL never comes to the type's own Scan.
ScansItself(t, src) == t.kind = "scanner" /\ (src # Null \/ ~t.ptr)

\* A destination that scans itself comes first, then NULL, then the kind; a
\* pointer is allocated and assigned through.
Assign(t, src) ==
  CASE ScansItself(t, src) -> IF Tag(src) \in Unscannable THEN {} ELSE {src}
    [] src = Null /\ ~ScansItself(t, src) -> AssignNull(t)
    [] t.kind \in DOMAIN Integral /\ src # Null ->
         {IntV(n) : n \in ToInt64(src) \cap Integral[t.kind]}
    [] t.kind = "float64" /\ src # Null -> {FloatV(h) : h \in ToFloat64(src)}
    [] t.kind = "bool" /\ src # Null    -> {BoolV(b) : b \in ToBool(src)}
    [] t.kind = "string" /\ src # Null  -> {TextV(p) : p \in ToText(src)}
    [] t.kind = "bytes" /\ src # Null   -> {BytesV(p) : p \in ToBytes(src)}
    [] t.kind = "time" /\ src # Null    -> {src} \cap {TimeV(Payload(src))}
    [] t.kind = "any" /\ src # Null     -> {src}

\* The zero value of a leaf type.
ZeroLeaf(t) ==
  CASE t.ptr \/ t.kind \in {"any", "bytes", "scanner"} -> Null
    [] t.kind \in DOMAIN Integral -> IntV(0)
    [] t.kind = "float64" -> FloatV(0)
    [] t.kind = "bool"    -> BoolV(FALSE)
    [] t.kind = "string"  -> TextV(Word(""))
    [] t.kind = "time"    -> TimeV("zero")
=============================================================================
