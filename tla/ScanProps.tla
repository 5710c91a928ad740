----------------------------- MODULE ScanProps -----------------------------
(***************************************************************************)
(* What Scan promises, said of paths: a path is the sequence of field      *)
(* indexes from a struct to one of its leaves, and README.md says which    *)
(* column each path has.  Nothing here uses the walk of Mapper, its order  *)
(* or its caches.                                                          *)
(***************************************************************************)
EXTENDS Scan

FieldAt(typ, i) == Structs[typ][i]

\* The leaves of a struct type.  A type inside itself has none.
RECURSIVE Paths(_, _)
Paths(typ, inside) ==
  UNION {LET sf == FieldAt(typ, i)
             nested == sf.type.kind = "struct"
         IN IF sf.tag = Ignored THEN {}
            ELSE IF nested /\ (sf.exported \/ sf.anonymous) /\ sf.type.of \notin inside
                 THEN {<<i>> \o p : p \in Paths(sf.type.of, inside \cup {sf.type.of})}
            ELSE IF ~nested /\ sf.exported THEN {<<i>>} ELSE {}
         : i \in DOMAIN Structs[typ]}

Leaves(typ) == Paths(typ, {typ})

RECURSIVE FieldOf(_, _)
FieldOf(typ, path) ==
  LET sf == FieldAt(typ, Head(path))
  IN IF Len(path) = 1 THEN sf ELSE FieldOf(sf.type.of, Tail(path))

\* Names come from the tag or the DB's own naming policy; a struct field that
\* is neither embedded nor told otherwise puts its name in front.
OwnName(naming, sf) ==
  IF sf.tag.name # <<>> THEN sf.tag.name ELSE NameMapper[naming][sf.name]

InFront(naming, sf) ==
  LET told == {i \in DOMAIN sf.tag.opts : sf.tag.opts[i].opt \in {"inline", "prefix"}}
      last == CHOOSE i \in told : \A k \in told : k <= i
  IN CASE told # {} -> sf.tag.opts[last].text
       [] told = {} /\ sf.anonymous /\ ~sf.tag.present -> <<>>
       [] OTHER -> OwnName(naming, sf) \o <<"_">>

RECURSIVE Column(_, _, _)
Column(naming, typ, path) ==
  LET sf == FieldAt(typ, Head(path))
  IN IF Len(path) = 1 THEN OwnName(naming, sf)
     ELSE InFront(naming, sf) \o Column(naming, sf.type.of, Tail(path))

HasOption(sf, o) == \E i \in DOMAIN sf.tag.opts : sf.tag.opts[i].opt = o

\* The pointers to structs a path goes through.
Pointers(typ, path) ==
  {q \in {SubSeq(path, 1, n) : n \in 1 .. Len(path) - 1} : FieldOf(typ, q).type.ptr}

\* A pointer on the way is nil; q itself counts.
IsNil(v, q) == \E n \in 1 .. Len(q) : FieldValue(v, SubSeq(q, 1, n)) = NilStruct

----------------------------------------------------------------------------
\* What each goroutine ought to find.

T(g) == job[g].dst.of
Mine(g, path) == Column(job[g].naming, T(g), path)
IsStruct(g) == job[g].dst.kind = "struct"

RightDescription(g, d) ==
  LET ps == Leaves(T(g))
  IN IF Cardinality({Mine(g, p) : p \in ps}) < Cardinality(ps)
     THEN d.err
     ELSE /\ ~d.err
          /\ {<<f.column, f.index>> : f \in ToSet(d.fields)} = {<<Mine(g, p), p>> : p \in ps}
          /\ \A f \in ToSet(d.fields) :
               {d.groups[k].index : k \in Enclosing(d.groups, f.group)}
                 = Pointers(T(g), f.index)

\* A goroutine works with the columns of its own DB's naming policy, whoever
\* filled the process-wide caches and in whatever order: every leaf under the
\* column README.md gives it, with the pointers that may stay nil, an error
\* when two leaves claim one column, and a plan that is an error when a column
\* has no field and the DB is strict (mapper.go describeStruct and
\* buildStruct, scan.go planFor).
DescribedAsDocumented ==
  \A g \in Goroutines :
    /\ pc[g] \in {"send", "plan"} /\ IsStruct(g) => RightDescription(g, si[g])
    /\ plan[g].kind = "struct" =>
         /\ RightDescription(g, plan[g].info)
         /\ plan[g].err <=>
              \/ plan[g].info.err
              \/ /\ job[g].strict
                 /\ ~(ToSet(job[g].cols) \subseteq {Mine(g, p) : p \in Leaves(T(g))})

\* The last result column that belongs to a path, when there is one.
ColumnsAt(g, path) == {i \in DOMAIN job[g].cols : job[g].cols[i] = Mine(g, path)}

LastOf(S) == CHOOSE i \in S : \A k \in S : k <= i

\* A float keeps the nearest float of the number.
SameValue(type, raw, v) ==
  IF raw = Null \/ v = Null THEN raw = v
  ELSE \/ Agree(raw, v)
       \/ /\ type.kind = "float64"
          /\ \E m \in Meanings(raw) : m[1] = "numeral" /\ v = FloatV(Round(m[2]))

\* The one float that passes the bounds of toInt64 and fits no int64.
BeyondMaxInt(type, raw) ==
  type.kind \in DOMAIN Integral /\ raw = FloatV(2 * (MaxInt + 1))

ReadRight(g, raw, v) ==
  /\ \A p \in Leaves(T(g)) :
       LET is == ColumnsAt(g, p)
           type == FieldOf(T(g), p).type
       IN IF is = {} THEN FieldValue(v, p) \in {ZeroLeaf(type), Null}
          ELSE \/ BeyondMaxInt(type, raw[LastOf(is)])
               \/ SameValue(type, raw[LastOf(is)], FieldValue(v, p))
  /\ \A p \in Leaves(T(g)) : \A q \in Pointers(T(g), p) :
       IsNil(v, q) <=> \A r \in Leaves(T(g)) :
         q \in Pointers(T(g), r) => \A i \in ColumnsAt(g, r) : raw[i] = Null

\* Every field of a value that was read is what its column held, whatever the
\* driver sent it as: no number is changed, no NULL becomes a zero, no field
\* without a column is anything but zero, and a pointer to a struct is nil
\* exactly when all its columns were NULL (scan.go rowReader.read, convert.go
\* assign).
ReadFaithful ==
  \A g \in Goroutines : \A k \in DOMAIN got[g] :
    LET raw == scanned[g][k]
        v   == got[g][k]
    IN CASE job[g].dst.kind = "struct" -> ReadRight(g, raw, v)
         [] job[g].dst.kind = "map" ->
              \A c \in ToSet(job[g].cols) :
                v[c] = raw[LastOf({i \in DOMAIN raw : job[g].cols[i] = c})]
         [] OTHER -> BeyondMaxInt(job[g].dst, raw[1]) \/ SameValue(job[g].dst, raw[1], v)

\* No value of the type stands for what came, or row refuses the conversion.
NoValue(type, raw) ==
  CASE ScansItself(type, raw) -> Tag(raw) \in Unscannable
    [] raw = Null /\ ~ScansItself(type, raw) ->
         ~type.ptr /\ type.kind \notin {"any", "bytes"}
    [] type.kind \in DOMAIN Integral /\ raw # Null ->
         \A n \in Integral[type.kind] : ~Agree(raw, IntV(n))
    [] type.kind = "float64" /\ raw # Null ->
         Tag(raw) = "bool" \/ \A m \in Meanings(raw) : m[1] # "numeral"
    [] type.kind = "bool" /\ raw # Null ->
         Tag(raw) = "float" \/ \A b \in BOOLEAN : ~Agree(raw, BoolV(b))
    [] type.kind = "bytes" /\ raw # Null -> ~IsText(raw)
    [] type.kind = "time" /\ raw # Null  -> Tag(raw) # "time"
    [] OTHER -> FALSE

\* A row is refused only for a column that its field cannot hold, and never
\* for the NULLs of a struct that is left nil (convert.go assign, scan.go
\* groupIsNull).
ErrorsHaveACause ==
  \A g \in Goroutines :
    pc[g] = "failed" /\ scanned[g] # <<>> =>
      LET raw == Last(scanned[g])
          absent(p) == \E q \in Pointers(T(g), p) : \A r \in Leaves(T(g)) :
             q \in Pointers(T(g), r) => \A i \in ColumnsAt(g, r) : raw[i] = Null
      IN IF IsStruct(g)
         THEN \E p \in Leaves(T(g)) : \E i \in ColumnsAt(g, p) :
                ~absent(p) /\ NoValue(FieldOf(T(g), p).type, raw[i])
         ELSE NoValue(job[g].dst, raw[1])

----------------------------------------------------------------------------
\* Writing.

Chosen(g, p) ==
  /\ ~HasOption(FieldOf(T(g), p), "readonly")
  /\ IF job[g].only # {} THEN Mine(g, p) \in job[g].only
     ELSE Mine(g, p) \notin job[g].omit

IsKey(g, p) == HasOption(FieldOf(T(g), p), "pk")

\* The row is the one of the value: every key of it is in the row, and a value
\* of a type without keys has none.
OwnRow(g, row) ==
  /\ \E p \in Leaves(T(g)) : IsKey(g, p)
  /\ \A p \in Leaves(T(g)) : IsKey(g, p) =>
       Meanings(row[Mine(g, p)]) \cap Meanings(FieldValue(job[g].val, p)) # {}

HoldsChosen(g, row, old, key) ==
  \A col \in DOMAIN old :
    LET ps == {p \in Leaves(T(g)) : Mine(g, p) = col /\ Chosen(g, p) /\ (key \/ ~IsKey(g, p))}
    IN \A p \in Leaves(T(g)) :
         IF ps = {} THEN row[col] = old[col]
         ELSE p \in ps => row[col] = FieldValue(job[g].val, p)

\* A write touches its own row and the columns it may: an insert adds one row
\* with the fields of the value, an update changes, in the rows with its keys,
\* the columns that Only and Omit leave and that are neither keys nor
\* readonly, a delete removes the rows with its keys, all of them when the key is
\* of several columns, also when the database makes the key and no write sets it;
\* and a value whose key is nil or whose type has none touches nothing (write.go
\* Insert, Update, Delete, writableFields).
StoreFaithful ==
  [][\A g \in Goroutines : table'[g] # table[g] =>
       LET old == table[g]
           new == table'[g]
       IN CASE job[g].op = "insert" ->
                 /\ Front(new) = old
                 /\ HoldsChosen(g, Last(new), job[g].schema, TRUE)
            [] job[g].op = "update" ->
                 /\ Len(new) = Len(old)
                 /\ \A k \in DOMAIN old :
                      IF OwnRow(g, old[k]) THEN HoldsChosen(g, new[k], old[k], FALSE)
                      ELSE new[k] = old[k]
            [] job[g].op = "delete" ->
                 new = SelectSeq(old, LAMBDA row : ~OwnRow(g, row))
            [] OTHER -> /\ Front(new) = old
                        /\ \A p \in Leaves(T(g)) : Mine(g, p) \in job[g].params =>
                             Last(new)[Mine(g, p)] = FieldValue(job[g].val, p)]_vars

WriteOver(g) == job[g].op # "none" /\ pc[g] \notin {"structOf", "structBuild", "send"}
WriteFailed(g) == pc[g] = "failed" /\ plan[g].kind = "none"

\* The value holds the first n returned columns, and every other field is what
\* the caller had put there, or zero in a struct that had to be allocated.
HoldsReturned(g, n) ==
  \A p \in Leaves(T(g)) :
    LET is   == {i \in 1 .. n : job[g].returning[i] = Mine(g, p)}
        type == FieldOf(T(g), p).type
        raw  == returned[g][1][LastOf(is)]
        now  == FieldValue(val[g], p)
    IN IF is # {} THEN BeyondMaxInt(type, raw) \/ SameValue(type, raw, now)
       ELSE \/ now = FieldValue(job[g].val, p)
            \/ /\ \E q \in Pointers(T(g), p) : IsNil(job[g].val, q)
               /\ now = ZeroLeaf(type)

Unmapped(g) == ToSet(job[g].returning) \ {Mine(g, p) : p \in Leaves(T(g))}

\* Why scanBack gives up after n columns: the next has no field and the DB is
\* strict, or its field cannot hold it; after all of them, there are more rows.
GivesUpAfter(g, n) ==
  IF n = Len(job[g].returning) THEN Len(returned[g]) > 1
  ELSE LET col == job[g].returning[n + 1]
           raw == returned[g][1][n + 1]
       IN IF col \in Unmapped(g) THEN job[g].strict
          ELSE \E p \in Leaves(T(g)) : Mine(g, p) = col /\ NoValue(FieldOf(T(g), p).type, raw)

\* After a write with RETURNING that reported no error, exactly one row came
\* back and the value holds its columns, of which a strict DB knew all.  After an
\* error the write stands and the value may be half filled, but in order: it holds
\* the columns before the one that made scanBack give up, which had a cause to,
\* and none after it; without a row it is as it was (write.go scanBack).
FilledIn ==
  \A g \in Goroutines : WriteOver(g) /\ job[g].returning # <<>> =>
    IF returned[g] = <<>> THEN WriteFailed(g) /\ val[g] = job[g].val
    ELSE \E n \in 0 .. Len(job[g].returning) :
           /\ HoldsReturned(g, n)
           /\ IF WriteFailed(g) THEN GivesUpAfter(g, n)
              ELSE /\ n = Len(job[g].returning)
                   /\ Len(returned[g]) = 1
                   /\ job[g].strict => Unmapped(g) = {}

\* A value that is inserted and read back by the same type is the same value
\* in every field that was written, a nil struct and a struct of NULLs being
\* alike; whatever representation the driver chose, the read gives the value
\* or an error (write.go and scan.go together).
RoundTrip ==
  \A g \in Goroutines :
    /\ job[g].op = "insert" /\ job[g].rows = <<>> /\ IsStruct(g)
    /\ got[g] # <<>>
    => \A p \in Leaves(T(g)) :
         Chosen(g, p) /\ ColumnsAt(g, p) # {} =>
           LET type == FieldOf(T(g), p).type
               now  == FieldValue(got[g][1], p)
               was  == FieldValue(job[g].val, p)
           IN IF type.kind \in {"any", "scanner"} THEN now = was \/ Agree(now, was)
              ELSE now = was
=============================================================================
