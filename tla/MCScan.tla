------------------------------- MODULE MCScan -------------------------------
(***************************************************************************)
(* Instances of Scan: struct types with every way of nesting and tagging,  *)
(* and jobs over them.                                                     *)
(***************************************************************************)
EXTENDS ScanProps, TLC

CONSTANTS g1, g2

\* Go names and the columns the naming policies give them.
GoNames == {<<"I", "D">>, <<"A", "t">>, <<"B">>, <<"C">>, <<"D">>, <<"H">>,
            <<"P">>, <<"T">>, <<"X">>, <<"B", "X">>, <<"b">>}

\* closureA and closureB are two closures made by one function: one code pointer.
Namings == {"snake", "asIs", "closureA", "closureB"}
MCNameMapper ==
  [n \in Namings |-> [name \in GoNames |->
     CASE n = "snake"    -> SnakeCase(name)
       [] n = "asIs"     -> name
       [] n = "closureA" -> <<"a">> \o SnakeCase(name)
       [] n = "closureB" -> <<"b">> \o SnakeCase(name)]]
MCCodeOf == [n \in Namings |-> CASE n = "snake" -> 1 [] n = "asIs" -> 2 [] OTHER -> 3]

Leaf(kind) == [kind |-> kind, ptr |-> FALSE, of |-> ""]
PtrTo(kind) == [kind |-> kind, ptr |-> TRUE, of |-> ""]
Nested(typ) == [kind |-> "struct", ptr |-> FALSE, of |-> typ]
PtrStruct(typ) == [kind |-> "struct", ptr |-> TRUE, of |-> typ]

Field(name, type) == [name |-> name, type |-> type, tag |-> Untagged,
                      exported |-> TRUE, anonymous |-> FALSE]
With(sf, tag) == [sf EXCEPT !.tag = tag]
Hidden(sf) == [sf EXCEPT !.exported = FALSE]
Embed(name, type) == [Field(name, type) EXCEPT !.anonymous = TRUE]

Key == Field(<<"I", "D">>, Leaf("int64"))
PK == Tagged(<<>>, <<Option("pk")>>)

MCStructs ==
  [ place |-> <<Field(<<"C">>, Leaf("string")), Field(<<"H">>, PtrTo("float64"))>>,
    addr  |-> <<Field(<<"X">>, PtrTo("int8")), Field(<<"P">>, PtrStruct("place"))>>,
    \* nilable structs inside nilable structs, a generated column
    user  |-> <<With(Key, PK),
                With(Field(<<"T">>, Leaf("time")), Tagged(<<"a", "t">>, <<Option("readonly")>>)),
                Field(<<"B">>, PtrStruct("addr"))>>,
    base  |-> <<With(Key, PK), Field(<<"C">>, Leaf("any"))>>,
    \* an embedded unexported struct, a field left out, an unexported one
    emb   |-> <<Hidden(Embed(<<"b">>, Nested("base"))),
                With(Field(<<"X">>, Leaf("bool")), Ignored),
                Hidden(Field(<<"b">>, Leaf("bool"))),
                Field(<<"D">>, Leaf("bytes"))>>,
    \* a type twice in one struct, once merged and once with its own prefix
    twice |-> <<Field(<<"A", "t">>, Leaf("scanner")),
                With(Field(<<"B">>, Nested("base")),
                     Tagged(<<>>, <<Option("pk"), Option("inline")>>)),
                With(Field(<<"D">>, PtrStruct("base")),
                     Tagged(<<>>, <<Option("inline"), Prefix(<<"h", "_">>)>>))>>,
    \* a column that is claimed twice, by its tag and by its prefix
    clash |-> <<Field(<<"B">>, Nested("place")),
                With(Field(<<"D">>, Leaf("uint8")), Tagged(<<"b", "_", "c">>, <<>>))>>,
    \* a type inside itself
    node  |-> <<With(Key, PK), Field(<<"X">>, Leaf("uint8")),
                Field(<<"P">>, PtrStruct("node")),
                Field(<<"D">>, PtrStruct("link"))>>,
    link  |-> <<Field(<<"H">>, PtrTo("bool")), Field(<<"P">>, PtrStruct("node"))>>,
    \* keys behind a pointer
    far   |-> <<Field(<<"C">>, Leaf("string")), Field(<<"B">>, PtrStruct("base"))>>,
    \* a key the database makes, and one of two columns
    auto  |-> <<With(Key, Tagged(<<>>, <<Option("pk"), Option("readonly")>>)),
                Field(<<"C">>, Leaf("string"))>>,
    pair  |-> <<With(Key, PK), With(Field(<<"X">>, Leaf("uint8")), PK),
                Field(<<"C">>, PtrTo("string"))>> ]

----------------------------------------------------------------------------
\* Columns.

id == <<"i", "d">>
at == <<"a", "t">>
c == <<"c">>
h == <<"h">>
x == <<"x">>
d == <<"d">>
b_x == <<"b", "_", "x">>
b_p_c == <<"b", "_", "p", "_", "c">>
b_p_h == <<"b", "_", "p", "_", "h">>
h_c == <<"h", "_", "c">>
b_id == <<"b", "_", "i", "d">>
b_c == <<"b", "_", "c">>

\* The table a type's author creates for it, every column NULL by default.
Table(typ, n) ==
  [col \in {Column(n, typ, p) : p \in Leaves(typ)} |->
     IF col = at THEN TimeV("now") ELSE Null]

Cols(typ, n) == SetToSeq(DOMAIN Table(typ, n))

Job == [op |-> "none", dst |-> Leaf("any"), naming |-> "snake", strict |-> TRUE,
        val |-> NilStruct, only |-> {}, omit |-> {}, returning |-> <<>>,
        params |-> {}, schema |-> <<>>, rows |-> <<>>, cols |-> <<>>]

On(typ) == [Job EXCEPT !.dst = Nested(typ), !.schema = Table(typ, "snake")]

\* Values to write.
Users == {<<IntV(n), TimeV("zero"), b>> :
            n \in {0, MaxInt},
            b \in {NilStruct, <<IntV(1), NilStruct>>,
                   <<Null, <<TextV(Word("w")), Null>>>>,
                   <<IntV(0), <<TextV(Numeral(2)), FloatV(3)>>>>}}
Embs == {<< <<IntV(5), v>>, BoolV(FALSE), BoolV(FALSE), b>> :
           v \in {Null, IntV(1), BoolV(TRUE), TextV(Word("true"))},
           b \in {Null, BytesV(Word("w"))}}
Twices == {<<a, <<IntV(-8), TextV(Word("w"))>>, v>> :
             a \in {Null, FloatV(1)}, v \in {NilStruct, <<IntV(2), Null>>}}
Nodes == {<<IntV(2), IntV(n), NilStruct, l>> :
            n \in {0, 3}, l \in {NilStruct, <<Null, NilStruct>>, <<BoolV(TRUE), NilStruct>>}}
Fars == {<<TextV(Word("w")), b>> : b \in {NilStruct, <<IntV(1), Null>>}}

Values(typ) == CASE typ = "user" -> Users [] typ = "emb" -> Embs
                 [] typ = "twice" -> Twices [] typ = "node" -> Nodes
                 [] typ = "far" -> Fars

Written == {"user", "emb", "twice", "node", "far"}

\* Insert, then read everything back.
RoundTrips ==
  UNION {{[On(typ) EXCEPT !.op = "insert", !.val = v, !.cols = Cols(typ, "snake"), !.dst.ptr = ptr]
          : v \in Values(typ), ptr \in BOOLEAN} : typ \in Written}

\* Rows that are there before: two keys, one of them twice.
Member(n, b, ch) == (id :> IntV(n) @@ at :> TimeV("t1") @@ b_x :> b
                       @@ b_p_c :> ch @@ b_p_h :> Null)
Members == << <<Member(0, Null, Null), Member(MaxInt, IntV(1), Null)>>,
              <<Member(0, IntV(1), Null), Member(0, Null, TextV(Word("w")))>>,
              <<>> >>
Fared == <<(c :> Null @@ b_id :> Null @@ b_c :> Null),
           (c :> TextV(Word("v")) @@ b_id :> IntV(1) @@ b_c :> Null)>>

\* Writes of all kinds with their options, RETURNING included.
Selections == {[only |-> {}, omit |-> {}], [only |-> {b_x, at, id}, omit |-> {b_x}],
            [only |-> {}, omit |-> {b_p_c}]}
Writes ==
  {[On("user") EXCEPT !.op = op, !.val = v, !.rows = rows, !.only = o.only,
                      !.omit = o.omit, !.returning = ret] :
     op \in {"insert", "update", "delete"}, v \in Users, rows \in ToSet(Members),
     o \in Selections, ret \in {<<>>, <<at, id>>, <<b_p_h, b_x>>}}
  \cup
  {[On("far") EXCEPT !.op = op, !.val = v, !.rows = Fared, !.returning = ret] :
     op \in {"update", "delete"}, v \in Fars, ret \in {<<>>, <<c, b_id>>}}
  \cup
  {[On("place") EXCEPT !.op = op, !.val = <<TextV(Word("w")), Null>>, !.rows = rows,
                       !.schema = schema, !.returning = ret] :
     op \in {"insert", "update", "delete"}, schema \in {Table("place", "snake"), c :> Null},
     rows \in {<<>>, <<(c :> TextV(Word("w")) @@ h :> Null), (c :> Null @@ h :> FloatV(2))>>},
     ret \in {<<>>, <<c>>}}
  \cup
  {[On("auto") EXCEPT !.op = op, !.val = <<IntV(n), TextV(Word("w"))>>, !.omit = omit,
                      !.schema = (id :> IntV(3) @@ c :> Null), !.returning = ret,
                      !.rows = <<(id :> IntV(0) @@ c :> Null), (id :> IntV(1) @@ c :> Null)>>] :
     op \in {"insert", "update", "delete"}, n \in {0, 1, 2}, omit \in {{}, {c}, {id}},
     ret \in {<<>>, <<id, c>>}}
  \cup
  {[On("pair") EXCEPT !.op = op, !.val = <<IntV(n), IntV(2), v>>, !.only = only,
                      !.rows = [k \in 1 .. 4 |-> (id :> IntV(k % 2) @@ x :> IntV(k \div 2)
                                                  @@ c :> TextV(Word("v")))]] :
     op \in {"update", "delete"}, n \in {0, 1}, v \in {Null, TextV(Word("w"))},
     only \in {{}, {id}, {c, x}}}
  \cup
  \* a column the type has no field for, and one that comes as NULL or as a text,
  \* behind others
  {[On("user") EXCEPT !.op = op, !.val = v, !.rows = rows, !.schema = @ @@ c :> Null,
                      !.strict = strict, !.returning = ret] :
     op \in {"insert", "update", "delete"}, v \in Users,
     rows \in {[k \in DOMAIN ms |-> ms[k] @@ c :> IntV(1)] : ms \in ToSet(Members)},
     strict \in BOOLEAN, ret \in {<<b_x, c, id>>, <<b_x, at, b_p_c>>, <<b_p_h, b_p_c, b_x>>}}
  \cup
  {[On("twice") EXCEPT !.op = "exec", !.val = v, !.params = ps, !.cols = Cols("twice", "snake")] :
     v \in Twices, ps \in {{at, id, c}, {h_c, c}, {id, d}}}

\* Reads: every cell into every leaf type, and joins, extra columns, missing
\* and repeated ones into structs and maps.
Cells == {Null, BoolV(TRUE), BoolV(FALSE), TimeV("t1"), BytesV(Word("w")), TextV(Word("true"))}
           \cup {IntV(n) : n \in {-8, -2, 0, 1, 3, 5, 7}}
           \cup {FloatV(m) : m \in {-16, -1, 0, 2, 3, 8, 16, 24}}
           \cup {TextV(Numeral(m)) : m \in {1, 6, 14, 16, 18}}

Reads ==
  {[Job EXCEPT !.dst = [kind |-> k, ptr |-> ptr, of |-> ""], !.rows = <<c :> cell>>, !.cols = cols] :
     k \in LeafKinds, ptr \in BOOLEAN, cell \in Cells, cols \in {<<c>>}}
  \cup
  {[Job EXCEPT !.dst = dst, !.rows = rows, !.cols = cols, !.strict = strict] :
     dst \in {Nested("user"), PtrStruct("user"), Leaf("map"), Leaf("int64")},
     rows \in {[k \in DOMAIN ms |-> ms[k] @@ c :> IntV(1)] : ms \in ToSet(Members)},
     strict \in BOOLEAN,
     cols \in {<<id>>, <<id, at, b_x, b_p_c, b_p_h>>, <<b_p_c, id, b_x>>,
               <<b_x, id, b_x>>, <<id, b_p_h>>, <<b_p_c, c>>}}

\* Two goroutines insert and read one type, each on a DB of its own, with the
\* tables its naming policy asks for.
Shared(typ, n1, n2, lax, ptr) ==
  [g \in {g1, g2} |->
     LET n == IF g = g1 THEN n1 ELSE n2 IN
     [Job EXCEPT !.op = "insert", !.naming = n, !.strict = ~lax,
                 !.dst = IF g = g2 /\ ptr THEN PtrStruct(typ) ELSE Nested(typ),
                 !.val = [ZeroStruct(typ) EXCEPT ![1] = IF typ = "place" THEN TextV(Word("w")) ELSE @],
                 !.schema = Table(typ, n), !.cols = Cols(typ, n)]]

SharedBy(pairs) ==
  {Shared(typ, n[1], n[2], lax, ptr) : typ \in {"place", "clash", "node"},
                                       n \in pairs, lax \in BOOLEAN, ptr \in BOOLEAN}

Alone(jobs) == {[g \in {g1, g2} |-> IF g = g1 THEN j ELSE Job] : j \in jobs}

MCJobs == Alone(RoundTrips \cup Writes \cup Reads)
            \cup SharedBy({"snake", "asIs"} \X {"snake", "asIs"})
MCClosureJobs == SharedBy({<<"closureA", "closureB">>})

----------------------------------------------------------------------------
\* The examples of mapper_test.go, in the letters at hand.
ASSUME SnakeCaseExamples ==
  /\ SnakeCase(<<"I", "D">>) = id
  /\ SnakeCase(<<"A", "P", "I", "D", "a">>) = <<"a", "p", "i", "_", "d", "a">>
  /\ SnakeCase(<<"t", "e", "I", "D">>) = <<"t", "e", "_", "i", "d">>
  /\ SnakeCase(<<"O", "A", "u", "t", "h", "2", "A">>)
       = <<"o", "_", "a", "u", "t", "h", "2", "_", "a">>

\* A name is its own column once it is one: no capital is left, and without
\* the separators the letters are the ones of the name.
ASSUME SnakeCaseSettles ==
  \A n \in 0 .. 5 : \A rs \in [1 .. n -> {"A", "B", "a", "2", "_"}] :
    /\ SnakeCase(SnakeCase(rs)) = SnakeCase(rs)
    /\ SelectSeq(SnakeCase(rs), LAMBDA r : r # "_")
         = [i \in DOMAIN SelectSeq(rs, LAMBDA r : r # "_") |->
              LET r == SelectSeq(rs, LAMBDA q : q # "_")[i]
              IN IF IsUpper(r) THEN LowerOf[r] ELSE r]
=============================================================================
