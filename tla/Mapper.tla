------------------------------- MODULE Mapper -------------------------------
(***************************************************************************)
(* mapper.go: which column of a result belongs to which field of a Go      *)
(* struct.                                                                 *)
(*                                                                         *)
(* Names are sequences of one-letter strings, because whether two fields   *)
(* claim one column is decided on the concatenated text.  A struct type is *)
(* a sequence of fields; the type of a field is a leaf (Convert) or        *)
(* another struct type, and may be a pointer to either.                    *)
(*                                                                         *)
(* A value of a struct type is the sequence of the values of its fields; a *)
(* nil pointer to a struct is the empty sequence, for no struct is mapped  *)
(* that has no field.                                                      *)
(***************************************************************************)
EXTENDS Convert, Sequences, SequencesExt, FiniteSets

CONSTANTS Structs,     \* name of a struct type -> sequence of its fields
          NameMapper   \* naming policy -> Go name -> column name

\* The tag of a field: absent, "-", or the name with its options.
Tagged(name, opts) == [present |-> TRUE, name |-> name, opts |-> opts]
Untagged == [present |-> FALSE, name |-> <<>>, opts |-> <<>>]
Ignored == Tagged(<<"-">>, <<>>)
Prefix(p) == [opt |-> "prefix", text |-> p]
Option(o) == [opt |-> o, text |-> <<>>]

\* reflect cannot set a pointer it finds in an unexported field.
ASSUME EmbeddedPointersExported ==
  \A s \in DOMAIN Structs : \A i \in DOMAIN Structs[s] :
    LET sf == Structs[s][i] IN
    sf.anonymous /\ ~sf.exported => ~sf.type.ptr

----------------------------------------------------------------------------
\* The naming policy used unless a DB is given another one.

LowerOf == [A |-> "a", B |-> "b", C |-> "c", D |-> "d", E |-> "e", H |-> "h",
            I |-> "i", P |-> "p", T |-> "t", U |-> "u", X |-> "x", O |-> "o"]

IsUpper(r) == r \in DOMAIN LowerOf
IsLower(r) == \E u \in DOMAIN LowerOf : LowerOf[u] = r

StartsWord(rs, i) ==
  /\ i > 1
  /\ \/ ~IsUpper(rs[i - 1])
     \/ i < Len(rs) /\ IsLower(rs[i + 1])

SnakeCase(rs) ==
  FlattenSeq([i \in DOMAIN rs |->
    IF ~IsUpper(rs[i]) THEN <<rs[i]>>
    ELSE (IF StartsWord(rs, i) THEN <<"_">> ELSE <<>>) \o <<LowerOf[rs[i]]>>])

----------------------------------------------------------------------------
\* parseTag: later options override earlier ones, unknown ones are ignored.

ParseTag(tag) ==
  LET given == {tag.opts[i].opt : i \in DOMAIN tag.opts}
      pfx   == SelectSeq(tag.opts, LAMBDA o : o.opt \in {"inline", "prefix"})
  IN [name     |-> tag.name,
      skip     |-> tag = Ignored,
      pk       |-> "pk" \in given,
      readonly |-> "readonly" \in given,
      hasPfx   |-> pfx # <<>>,
      prefix   |-> IF pfx = <<>> THEN <<>> ELSE Last(pfx).text]

IsLeaf(type) == type.kind # "struct"

NoGroup == 0

EmptyInfo == [fields |-> <<>>, groups |-> <<>>, err |-> FALSE]

ColumnsOf(si) == {si.fields[k].column : k \in DOMAIN si.fields}

FieldNamed(si, col) == CHOOSE k \in DOMAIN si.fields : si.fields[k].column = col

PKs(si) == SelectSeq(si.fields, LAMBDA f : f.pk)

\* A leaf: one more column, or the end of the walk when it is taken.
AddColumn(si, f) ==
  IF f.column \in ColumnsOf(si) THEN [si EXCEPT !.err = TRUE]
  ELSE [si EXCEPT !.fields = Append(@, f)]

\* What a nested struct adds to the prefix of its columns.
SubPrefix(sf, ti, name) ==
  IF ti.hasPfx THEN ti.prefix
  ELSE IF sf.anonymous /\ ~sf.tag.present THEN <<>>
  ELSE name \o <<"_">>

\* One step per field: at says where the walk is (the struct type and the
\* field in it, the indexes and the prefix that lead there, the group, the
\* types it is inside of), si is what it has collected.
RECURSIVE Walk(_, _, _)
Walk(naming, at, si) ==
  IF si.err \/ at.i > Len(Structs[at.typ]) THEN si
  ELSE
  LET sf    == Structs[at.typ][at.i]
      ti    == ParseTag(sf.tag)
      name  == IF ti.name = <<>> THEN NameMapper[naming][sf.name] ELSE ti.name
      index == Append(at.index, at.i)
      isNew == ~IsLeaf(sf.type) /\ sf.type.of \notin at.seen
      column == [column |-> at.prefix \o name, index |-> index,
                 group |-> at.grp, pk |-> ti.pk, readonly |-> ti.readonly,
                 type |-> sf.type]
      groups == IF sf.type.ptr
                THEN Append(si.groups, [index |-> index, parent |-> at.grp])
                ELSE si.groups
      child == [typ |-> sf.type.of, i |-> 1, index |-> index,
                prefix |-> at.prefix \o SubPrefix(sf, ti, name),
                grp |-> IF sf.type.ptr THEN Len(groups) ELSE at.grp,
                seen |-> at.seen \cup {sf.type.of}]
      here == IF (~sf.exported /\ ~sf.anonymous) \/ ti.skip THEN si
              ELSE IF IsLeaf(sf.type)
                   THEN IF sf.exported THEN AddColumn(si, column) ELSE si
              ELSE IF isNew THEN Walk(naming, child, [si EXCEPT !.groups = groups])
              ELSE si
  IN Walk(naming, [at EXCEPT !.i = @ + 1], here)

BuildStruct(typ, naming) ==
  LET si == Walk(naming,
                 [typ |-> typ, i |-> 1, index |-> <<>>, prefix |-> <<>>,
                  grp |-> NoGroup, seen |-> {typ}],
                 EmptyInfo)
  IN IF si.err THEN [EmptyInfo EXCEPT !.err = TRUE] ELSE si

----------------------------------------------------------------------------
\* Reading and setting a field along its index.

NilStruct == <<>>

RECURSIVE ZeroStruct(_)
ZeroStruct(typ) ==
  [i \in DOMAIN Structs[typ] |->
     LET type == Structs[typ][i].type
     IN IF IsLeaf(type) THEN ZeroLeaf(type)
        ELSE IF type.ptr THEN NilStruct
        ELSE ZeroStruct(type.of)]

\* fieldValue: a nil pointer on the way reads as NULL.
RECURSIVE FieldValue(_, _)
FieldValue(root, index) ==
  IF index = <<>> THEN root
  ELSE IF root = NilStruct THEN Null
  ELSE FieldValue(root[Head(index)], Tail(index))

\* valueAt allocates every nil pointer on the way to the field.
RECURSIVE ValueAt(_, _, _)
ValueAt(typ, root, index) ==
  LET struct == IF root = NilStruct THEN ZeroStruct(typ) ELSE root
      i      == Head(index)
  IN IF Len(index) = 1 THEN struct
     ELSE [struct EXCEPT
             ![i] = ValueAt(Structs[typ][i].type.of, @, Tail(index))]

RECURSIVE Put(_, _, _)
Put(root, index, v) ==
  IF index = <<>> THEN v
  ELSE [root EXCEPT ![Head(index)] = Put(@, Tail(index), v)]

\* structArgs.lookup: what a named parameter takes from a struct.
StructArgs(si, v) ==
  [col \in ColumnsOf(si) |-> FieldValue(v, si.fields[FieldNamed(si, col)].index)]
=============================================================================
