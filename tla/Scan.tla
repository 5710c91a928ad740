-------------------------------- MODULE Scan --------------------------------
(***************************************************************************)
(* One struct on its way to a table and back: write.go sends its fields    *)
(* and scans RETURNING into it, scan.go plans how result columns become    *)
(* fields and reads rows, and both share the two process-wide caches of    *)
(* descriptions and plans.                                                 *)
(*                                                                         *)
(* Every goroutine has a job: a write of a value, then a read of its       *)
(* table, on a DB with a naming policy and a strictness.  Tables are not   *)
(* shared, the caches are.  What the server does is not in src/: it        *)
(* refuses columns it does not have, keeps what it is sent, and returns a  *)
(* cell in any of the representations drivers use for it.                  *)
(***************************************************************************)
EXTENDS Mapper

CONSTANTS Goroutines, Jobs,
          CodeOf       \* naming policy -> code pointer of the function

VARIABLES job,          \* what each goroutine is to do
          pc,
          structCache,  \* <<struct, code>> -> description, in the process
          scanCache,    \* <<type, columns, code, strict>> -> plan, likewise
          si, plan,     \* the description and the plan each one holds
          val,          \* the Go value that is written
          table,
          nulls,        \* rowReader.nulls
          got,          \* the values read
          returned,     \* history: rows of RETURNING
          scanned       \* history: rows scanned

caches == <<structCache, scanCache>>
reading == <<nulls, got, scanned>>
vars == <<job, pc, caches, si, plan, val, table, returned, reading>>

NoPlan == [kind |-> "none", info |-> EmptyInfo, fieldFor |-> <<>>, err |-> FALSE]

\* Where the goroutine goes on; a call that returns an error ends its job.
Goto(g, label) == pc' = [pc EXCEPT ![g] = label]

AfterWrite(g) == IF job[g].cols = <<>> THEN "done" ELSE "planFor"

Init ==
  /\ job \in Jobs
  /\ pc = [g \in Goroutines |-> IF job[g].op # "none" THEN "structOf"
                                ELSE AfterWrite(g)]
  /\ structCache = <<>> /\ scanCache = <<>>
  /\ si = [g \in Goroutines |-> EmptyInfo]
  /\ plan = [g \in Goroutines |-> NoPlan]
  /\ val = [g \in Goroutines |-> job[g].val]
  /\ table = [g \in Goroutines |-> job[g].rows]
  /\ nulls = [g \in Goroutines |-> <<>>]
  /\ got = [g \in Goroutines |-> <<>>]
  /\ returned = [g \in Goroutines |-> <<>>]
  /\ scanned = [g \in Goroutines |-> <<>>]

----------------------------------------------------------------------------
\* The two caches: what is there already is taken, by the key alone.

(* Mutant of StructKey: the cache is keyed by the type alone. *)
StructKeyTypeOnly(g) == job[g].dst.of

StructKey(g) == <<job[g].dst.of, CodeOf[job[g].naming]>>

ScanKey(g) == <<job[g].dst, job[g].cols, CodeOf[job[g].naming], job[g].strict>>

Cached(cache, key, fresh) == IF key \in DOMAIN cache THEN cache[key] ELSE fresh

WithEntry(cache, key, v) ==
  [k \in DOMAIN cache \cup {key} |-> IF k = key THEN v ELSE cache[k]]

\* describeStruct, first half: a hit, or on to building.  from and to are
\* the labels of its caller, which looks at the error of the description.
LoadStruct(g, from, build, to) ==
  /\ pc[g] = from
  /\ IF StructKey(g) \in DOMAIN structCache
     THEN /\ si' = [si EXCEPT ![g] = structCache[StructKey(g)]]
          /\ Goto(g, to)
     ELSE Goto(g, build) /\ UNCHANGED si
  /\ UNCHANGED <<job, caches, plan, val, table, returned, reading>>

\* Second half: LoadOrStore keeps the description that was stored first.
StoreStruct(g, from, to) ==
  /\ pc[g] = from
  /\ LET d == Cached(structCache, StructKey(g),
                     BuildStruct(job[g].dst.of, job[g].naming))
     IN /\ structCache' = WithEntry(structCache, StructKey(g), d)
        /\ si' = [si EXCEPT ![g] = d]
        /\ Goto(g, to)
  /\ UNCHANGED <<job, scanCache, plan, val, table, returned, reading>>

----------------------------------------------------------------------------
\* Writing one value.

Selects(j, col) == IF j.only # {} THEN col \in j.only ELSE col \notin j.omit

(* Mutant of WritableFields: readonly columns are written too. *)
WritableAll(g, skipPK) ==
  SelectSeq(si[g].fields, LAMBDA f : ~(skipPK /\ f.pk) /\ Selects(job[g], f.column))

WritableFields(g, skipPK) ==
  SelectSeq(si[g].fields, LAMBDA f : /\ ~f.readonly
                                     /\ ~(skipPK /\ f.pk)
                                     /\ Selects(job[g], f.column))

Arguments(g, fields) ==
  [col \in {fields[k].column : k \in DOMAIN fields} |->
     StructArgs(si[g], val[g])[col]]

\* The columns a statement sets, and those of its WHERE clause.  Exec with a
\* struct binds the named parameters of the statement, readonly or not.
Sets(g) ==
  CASE job[g].op = "insert" -> Arguments(g, WritableFields(g, FALSE))
    [] job[g].op = "update" -> Arguments(g, WritableFields(g, TRUE))
    [] job[g].op = "delete" -> <<>>
    [] job[g].op = "exec"   ->
         [col \in job[g].params |-> StructArgs(si[g], val[g])[col]]

Where(g) == Arguments(g, PKs(si[g]))

(* Mutant of Refused: Update and Delete do not ask for a key. *)
RefusedWithKey(g) ==
  si[g].err \/
  CASE job[g].op = "exec"   -> ~(job[g].params \subseteq ColumnsOf(si[g]))
    [] job[g].op = "insert" -> WritableFields(g, FALSE) = <<>>
    [] job[g].op = "update" -> WritableFields(g, TRUE) = <<>>
    [] job[g].op = "delete" -> FALSE

\* What row refuses before it sends anything.
Refused(g) ==
  si[g].err \/
  CASE job[g].op = "exec"   -> ~(job[g].params \subseteq ColumnsOf(si[g]))
    [] job[g].op = "insert" -> WritableFields(g, FALSE) = <<>>
    [] job[g].op = "update" -> \/ PKs(si[g]) = <<>>
                               \/ WritableFields(g, TRUE) = <<>>
    [] job[g].op = "delete" -> PKs(si[g]) = <<>>

\* The numbers and texts a value stands for, in whatever representation.
Meanings(v) ==
  CASE Tag(v) = "int"   -> {Numeral(2 * Payload(v))}
    [] Tag(v) = "float" -> {Numeral(Payload(v))}
    [] Tag(v) = "bool"  -> {Numeral(2 * BoolInt(Payload(v))),
                            Word(IF Payload(v) THEN "true" ELSE "false")}
    [] Tag(v) = "time"  -> {Stamp(Payload(v))}
    [] IsText(v)        -> {Payload(v)}
    [] OTHER            -> {}

Agree(v, w) == v = w \/ Meanings(v) \cap Meanings(w) # {}

\* The server.  It compares by meaning, and NULL equals nothing.
Matches(row, where) ==
  \A col \in DOMAIN where : Meanings(row[col]) \cap Meanings(where[col]) # {}

Known(g) ==
  LET j == job[g] IN
  DOMAIN Sets(g) \cup ToSet(j.returning)
    \cup (IF j.op \in {"update", "delete"} THEN DOMAIN Where(g) ELSE {})
  \subseteq DOMAIN j.schema

Accepted(g) == ~Refused(g) /\ Known(g)

NewRow(g) == [col \in DOMAIN job[g].schema |->
                IF col \in DOMAIN Sets(g) THEN Sets(g)[col] ELSE job[g].schema[col]]

SetIn(row, sets) == [col \in DOMAIN row |->
                       IF col \in DOMAIN sets THEN sets[col] ELSE row[col]]

\* The table after the statement, and the rows RETURNING tells of.
Effect(g) ==
  LET hit(row) == Matches(row, Where(g))
  IN CASE job[g].op \in {"insert", "exec"} ->
            [table |-> Append(table[g], NewRow(g)), rows |-> <<NewRow(g)>>]
       [] job[g].op = "update" ->
            [table |-> [k \in DOMAIN table[g] |->
                          IF hit(table[g][k]) THEN SetIn(table[g][k], Sets(g))
                          ELSE table[g][k]],
             rows |-> [k \in DOMAIN SelectSeq(table[g], hit) |->
                          SetIn(SelectSeq(table[g], hit)[k], Sets(g))]]
       [] job[g].op = "delete" ->
            [table |-> SelectSeq(table[g], LAMBDA row : ~hit(row)),
             rows  |-> SelectSeq(table[g], hit)]

\* A driver hands back a cell as it was sent, as text or bytes, or as
\* another kind of number.
Styles == {"native", "text", "bytes", "int", "float"}

As(style, cell) ==
  LET number == Tag(cell) \in {"int", "float", "bool"}
      h      == Payload(CHOOSE m \in Meanings(cell) : Tag(m) = "numeral")
  IN CASE cell = Null \/ style = "native" -> cell
       [] style = "text" /\ cell # Null  -> TextV(CHOOSE m \in Meanings(cell) : TRUE)
       [] style = "bytes" /\ cell # Null -> BytesV(CHOOSE m \in Meanings(cell) : TRUE)
       [] style = "int" /\ cell # Null ->
            IF number /\ h % 2 = 0 /\ h \div 2 \in Integral.int64
            THEN IntV(h \div 2) ELSE cell
       [] style = "float" /\ cell # Null ->
            IF number /\ Round(h) = h THEN FloatV(h) ELSE cell

Scanned(style, row, cols) == [i \in DOMAIN cols |-> As(style, row[cols[i]])]

(* Mutant of FillColumn: the error of a column is kept for later. *)
FillColumnOn(g, a, col, raw) ==
  LET f     == si[g].fields[FieldNamed(si[g], col)]
      there == ValueAt(job[g].dst.of, a.val, f.index)
      news  == Assign(f.type, raw)
  IN IF col \notin ColumnsOf(si[g]) THEN {[a EXCEPT !.ok = @ /\ ~job[g].strict]}
     ELSE IF news = {} THEN {[val |-> there, ok |-> FALSE]}
     ELSE {[val |-> Put(there, f.index, v), ok |-> a.ok] : v \in news}

\* scanBack, one returned column: a.val is filled in place, so that what was
\* assigned before an error stays.
FillColumn(g, a, col, raw) ==
  LET f     == si[g].fields[FieldNamed(si[g], col)]
      there == ValueAt(job[g].dst.of, a.val, f.index)
      news  == Assign(f.type, raw)
  IN IF ~a.ok THEN {a}
     ELSE IF col \notin ColumnsOf(si[g]) THEN {[a EXCEPT !.ok = ~job[g].strict]}
     ELSE IF news = {} THEN {[val |-> there, ok |-> FALSE]}
     ELSE {[val |-> Put(there, f.index, v), ok |-> TRUE] : v \in news}

FillRow(g, as, raw) ==
  FoldLeft(LAMBDA bs, i : UNION {FillColumn(g, b, job[g].returning[i], raw[i]) : b \in bs},
           as, [i \in DOMAIN raw |-> i])

(* Mutant of ScanBack: the rows are not counted. *)
ScanBackAny(g, raws) ==
  LET start == {[val |-> val[g], ok |-> TRUE]}
  IN IF raws = <<>> THEN start ELSE FillRow(g, start, raws[1])

\* One value was written, so one row must come back.
ScanBack(g, raws) ==
  LET start == {[val |-> val[g], ok |-> raws # <<>>]}
  IN IF raws = <<>> THEN start
     ELSE {[a EXCEPT !.ok = @ /\ Len(raws) = 1] : a \in FillRow(g, start, raws[1])}

\* The statement never leaves, or the server refuses it.
WriteRefused(g) ==
  /\ pc[g] = "send"
  /\ ~Accepted(g)
  /\ Goto(g, "failed")
  /\ UNCHANGED <<job, caches, si, plan, val, table, returned, reading>>

Write(g) ==
  /\ pc[g] = "send"
  /\ Accepted(g)
  /\ table' = [table EXCEPT ![g] = Effect(g).table]
  /\ IF job[g].returning = <<>>
     THEN Goto(g, AfterWrite(g)) /\ UNCHANGED <<val, returned>>
     ELSE \E style \in Styles :
            LET raws == [k \in DOMAIN Effect(g).rows |->
                           Scanned(style, Effect(g).rows[k], job[g].returning)]
            IN \E a \in ScanBack(g, raws) :
                 /\ val' = [val EXCEPT ![g] = a.val]
                 /\ Goto(g, IF a.ok THEN AfterWrite(g) ELSE "failed")
                 /\ returned' = [returned EXCEPT ![g] = raws]
  /\ UNCHANGED <<job, caches, si, plan, reading>>

----------------------------------------------------------------------------
\* Planning how result columns become fields.

Destination(g) ==
  IF job[g].dst.kind \in {"struct", "map"} THEN job[g].dst.kind ELSE "leaf"

NoField == 0

\* buildScanPlan, given the description d of a struct.
BuildScanPlan(g, d) ==
  LET j == job[g]
      known(i) == j.cols[i] \in ColumnsOf(d)
  IN CASE Destination(g) = "map"  -> [NoPlan EXCEPT !.kind = "map"]
       [] Destination(g) = "leaf" ->
            [NoPlan EXCEPT !.kind = "leaf", !.err = Len(j.cols) # 1]
       [] Destination(g) = "struct" ->
            [kind |-> "struct", info |-> d,
             fieldFor |-> [i \in DOMAIN j.cols |->
                IF known(i) THEN FieldNamed(d, j.cols[i]) ELSE NoField],
             err |-> d.err \/ (j.strict /\ \E i \in DOMAIN j.cols : ~known(i))]

\* A new reader, with a flag per group of the plan.
StartReading(g, p) ==
  /\ plan' = [plan EXCEPT ![g] = p]
  /\ nulls' = [nulls EXCEPT ![g] = [k \in DOMAIN p.info.groups |-> FALSE]]
  /\ Goto(g, IF p.err THEN "failed" ELSE "read")

\* planFor, first half: a hit, or on to the description and the plan.
LoadPlan(g) ==
  /\ pc[g] = "planFor"
  /\ IF ScanKey(g) \in DOMAIN scanCache
     THEN StartReading(g, scanCache[ScanKey(g)])
     ELSE /\ Goto(g, IF Destination(g) = "struct" THEN "describe" ELSE "plan")
          /\ UNCHANGED <<plan, nulls>>
  /\ UNCHANGED <<job, caches, si, val, table, returned, got, scanned>>

StorePlan(g) ==
  /\ pc[g] = "plan"
  /\ LET p == Cached(scanCache, ScanKey(g), BuildScanPlan(g, si[g]))
     IN /\ scanCache' = WithEntry(scanCache, ScanKey(g), p)
        /\ StartReading(g, p)
  /\ UNCHANGED <<job, structCache, si, val, table, returned, got, scanned>>

----------------------------------------------------------------------------
\* Reading rows.

RECURSIVE Enclosing(_, _)
Enclosing(groups, k) ==
  IF k = NoGroup THEN {} ELSE {k} \cup Enclosing(groups, groups[k].parent)

GroupOf(p, i) == p.info.fields[p.fieldFor[i]].group

(* Mutant of ResetNulls: the flags of the row before. *)
KeepNulls(flags) == flags

ResetNulls(flags) == [k \in DOMAIN flags |-> TRUE]

(* Mutant of NullGroups: the enclosing groups are forgotten. *)
NullGroupsDirect(p, raw, flags) ==
  [k \in DOMAIN flags |->
     flags[k] /\ ~\E i \in DOMAIN raw :
                   p.fieldFor[i] # NoField /\ raw[i] # Null /\ k = GroupOf(p, i)]

\* A column that is not NULL keeps its group and the enclosing ones alive.
NullGroups(p, raw, flags) ==
  [k \in DOMAIN flags |->
     flags[k] /\ ~\E i \in DOMAIN raw :
                   /\ p.fieldFor[i] # NoField /\ raw[i] # Null
                   /\ k \in Enclosing(p.info.groups, GroupOf(p, i))]

GroupIsNull(p, i, flags) ==
  \E k \in Enclosing(p.info.groups, GroupOf(p, i)) : flags[k]

\* One result column: the structs it may leave, none when assign fails.
ReadColumn(g, p, raw, flags, root, i) ==
  IF p.fieldFor[i] = NoField THEN {root}
  ELSE IF GroupIsNull(p, i, flags) THEN {root}
  ELSE LET f == p.info.fields[p.fieldFor[i]]
       IN {Put(ValueAt(job[g].dst.of, root, f.index), f.index, v) :
             v \in Assign(f.type, raw[i])}

ReadStruct(g, p, raw, flags) ==
  FoldLeft(LAMBDA roots, i : UNION {ReadColumn(g, p, raw, flags, r, i) : r \in roots},
           {ZeroStruct(job[g].dst.of)}, [i \in DOMAIN raw |-> i])

\* A map takes every column, the last one of a name.
ReadMap(cols, raw) ==
  [col \in ToSet(cols) |-> raw[CHOOSE i \in DOMAIN cols :
     cols[i] = col /\ \A k \in i + 1 .. Len(cols) : cols[k] # col]]

\* rowReader.read; All gives up what it has read when a row fails.
ReadRow(g) ==
  /\ pc[g] = "read"
  /\ Len(scanned[g]) < Len(table[g])
  /\ \E style \in Styles :
       LET p     == plan[g]
           raw   == Scanned(style, table[g][Len(scanned[g]) + 1], job[g].cols)
           flags == NullGroups(p, raw, ResetNulls(nulls[g]))
           outs  == CASE p.kind = "map"    -> {ReadMap(job[g].cols, raw)}
                      [] p.kind = "leaf"   -> Assign(job[g].dst, raw[1])
                      [] p.kind = "struct" -> ReadStruct(g, p, raw, flags)
       IN /\ nulls' = [nulls EXCEPT ![g] = flags]
          /\ scanned' = [scanned EXCEPT ![g] = Append(@, raw)]
          /\ \/ /\ outs = {}
                /\ got' = [got EXCEPT ![g] = <<>>]
                /\ Goto(g, "failed")
             \/ /\ \E v \in outs : got' = [got EXCEPT ![g] = Append(@, v)]
                /\ UNCHANGED pc
  /\ UNCHANGED <<job, caches, si, plan, val, table, returned>>

EndRows(g) ==
  /\ pc[g] = "read"
  /\ Len(scanned[g]) = Len(table[g])
  /\ Goto(g, "done")
  /\ UNCHANGED <<job, caches, si, plan, val, table, returned, reading>>

----------------------------------------------------------------------------
Ended == /\ \A g \in Goroutines : pc[g] \in {"done", "failed"}
         /\ UNCHANGED vars

Next ==
  \/ \E g \in Goroutines :
       \/ LoadStruct(g, "structOf", "structBuild", "send")
       \/ StoreStruct(g, "structBuild", "send")
       \/ WriteRefused(g)
       \/ Write(g)
       \/ LoadPlan(g)
       \/ LoadStruct(g, "describe", "build", "plan")
       \/ StoreStruct(g, "build", "plan")
       \/ StorePlan(g)
       \/ ReadRow(g)
       \/ EndRows(g)
  \/ Ended

Spec == Init /\ [][Next]_vars
=============================================================================
