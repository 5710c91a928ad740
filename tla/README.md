# A verification of row

`row` is a Go library over `database/sql`: it binds parameters into SQL, scans
rows into structs, writes structs, and runs transactions. This directory holds
TLA+ models of its core logic, the TLC configurations that check them on small
instances, and theorems proved with TLAPS for every instance: about transactions,
the retry loop, the plan cache, reading, writing, the lexer, rendering and the query
builder.

    tlc -config RowTx_pg.cfg MCRowTx      # one of the runs listed below
    tlapm RowTxProofs.tla                 # the proofs of one component

Contents: [1 the system](#1-the-system) · [2 the modules](#2-the-modules) ·
[3 the runs](#3-the-runs) · [4 what is proved](#4-what-is-proved) ·
[5 where the code and its words disagree](#5-where-the-code-and-its-words-disagree) ·
[6 what is not modelled](#6-what-is-not-modelled) · [7 the plan](#7-the-plan).

## 1 The system

A call such as `row.All[User](ctx, db, "SELECT ... WHERE id = :id", args)` goes
through these parts, top to bottom:

    builder / write ---> text and arguments
         prepare    ---> plan cache <--- lex, compile     (once per text)
         render     ---> text with the dialect's placeholders, driver arguments
         hooks BeforeQuery, database/sql, hooks AfterQuery
         scan       ---> mapper, convert ---> values

The session it runs on is a `*DB`, a `*Conn` or a `*Tx`; `InTx` makes the last
out of one of the others, or out of another `*Tx` through a savepoint. A `*DB`
may be used by any number of goroutines. What they share is the plan cache, two
process-wide caches of type layouts, the savepoint counter, and the pool of
connections of `database/sql`. The package starts no goroutine of its own, but
`database/sql` does: one for each transaction and each open result waits for its
context to expire.

| Component (source) | State | Operations | What is hard | Correct means |
|---|---|---|---|---|
| Transactions (`tx.go` `InTx`, `nest`, `begin`) | the Go call stack of nested calls, the process-wide `savepointSeq`; behind it a `*sql.Tx` and the engine's savepoint stack | begin, nest, commit, roll back, release, re-panic | panics at any depth; contexts that expire between two statements, of the transaction or of one nested call; engines that abort a transaction at the first error; lost connections; lost replies to Commit | all or nothing at every depth; an inner failure undoes only the inner work; no return leaves a transaction open |
| Retry (`tx.go` `InTxRetry`) | attempts so far, delay | attempt, classify, back off | cancellation racing the timer; commits whose reply was lost; arithmetic of the delay | applied exactly once; retries what helps and nothing else; bounded attempts; capped delays; returns |
| Plan cache (`cache.go`, `prepare` in `row.go`) | 16 shards, each a list and a map | get, put, evict | lookup, compile and store are not atomic together | map and list agree; what is dropped was used least recently; a statement gets its own plan |
| Sessions (`row.go`) | the handle; `runQuery`, `runExec`, options | run a statement between hooks | when "completed" is | every statement reaches hooks and engine once |
| Lexer (`lex.go`) | offset, tokens | one scan of a text | strings, comments, dollar quotes, nested or left open | finds the parameters a SQL reader sees, and loses no character |
| Binding and rendering (`bind.go`) | plan; text and arguments under construction | compile, split arguments, render | repeated names, slices that expand to many placeholders or none | placeholders and driver arguments stay in step |
| Dialect (`dialect.go`) | none | placeholder, quoting, features, classification | limits of placeholders | - |
| Mapper (`mapper.go`) | process-wide `structCache` | describe a struct type; find and set a field; arguments from a struct | a cache key that names a function by its code pointer; tags, prefixes, embedding and recursion combined | each DB's naming applies to that DB; every leaf has the column README.md gives it, or two claim one and that is an error |
| Conversion (`convert.go`) | none | driver value to Go value | bounds of each width; representations drivers choose | a value that does not fit is refused, one that fits is not changed |
| Scanning (`scan.go`) | the open `*sql.Rows`; process-wide `scanCache`; the flags of absent structs | `All`, `One`, `First`, `Iter`; plan columns, read a row | results that fail in the middle; loops left early; contexts that expire between rows; the connection each open result holds; NULLs of a LEFT JOIN without a match | no partial result passes for a whole one; every way out gives the connection back; a struct is nil exactly when its columns are |
| Writing (`write.go`) | position in the slice; values filled back | `Insert`, `InsertMany`, `Update`, `Delete` | several statements for one call; RETURNING matched by position; keys that are nil; `Only`, `Omit` and `readonly` together | the statements split the slice within the engine's limit; what an error leaves behind is known; no row and no column is touched but those the call names |
| Errors (`errors.go`) | none | wrap, `CodeOf`, `Retryable` | an error passes through several hands before it is classified | the engine's report survives the way, and none is made up |
| Hooks (`hook.go`) | the list given to `New` | before and after each statement | results outlive the call that reports them | the outcome they are told is the outcome |
| Builder seam (`builder.go`) | none | the functions of scanning, with a builder in place of a text | - | as for scanning |
| Query builder (`qb/`) | immutable query values with slices | one method per clause, `BuildSQL` | values branched from one template | branches do not share what they append to |
| PostgreSQL, SQLite (`pg/`, `sqlite/`) | none; SQLite sets the size of the pool for in-memory databases | open, classify | a pool of one | each report gets the code the documentation names; nobody waits for ever but who holds a connection and asks for another |

`PROJECT.json` lists under "hazards" the places where each of these can go wrong,
at its line, with the property that would show it.

## 2 The modules

    SqlTx  <-EXTENDS-  RowTx  <-EXTENDS-  RowTxProps             <-  RowTxProofs
                                              | refines (INSTANCE)
                                              v
                      RowRetry -INSTANCE-> NestedTx <-INSTANCE- RowWrite
    Classify <-EXTENDS-  RowRetry                          <-  RowRetryProofs
    PlanCache                                              <-  PlanCacheProofs
    RowRead                                                <-  RowReadProofs
    RowWrite                                               <-  RowWriteProofs
    Lexer    <-EXTENDS-  Statement  <-  StatementProps     <-  LexerProofs  <-  StatementProofs
    QbQuery                                                <-  QbQueryProofs
    QbQuery, QbExpr  <-EXTENDS-  Qb  <-  QbProps
    Convert  <-EXTENDS-  Mapper  <-EXTENDS-  Scan  <-  ScanProps

Each `MC...` module gives the constants of one of them the values of its runs.

**SqlTx** is the ground: one `*sql.Tx` (`txOpen`) and the engine's transaction
behind it (`srv`, the savepoint stack `sps`, the writes held in `log`, the writes
committed in `db`). It is not in the repository; it is written from the calls
`tx.go` makes. `AbortOnError` tells the two supported engines apart: a failed
statement aborts a PostgreSQL transaction until a rollback, in SQLite only the
statement fails. Data is the set of writes a transaction holds. Each savepoint
remembers the set of the moment it was made, and a savepoint's name resolves to
the latest one that bears it.

**RowTx** is `InTx` and `nest`. `frames` is the Go call stack: one frame for
each `InTx` whose callback runs, with its number, its savepoint and its context.
`pc` says what the innermost call is doing: `"fn"` while the user's callback has
control, `"unwind"` while a panic passes through, and one value for each closing
statement, so that a context may expire or a connection break before any of
them. The callback is the user's: while `pc = "fn"` it may write, fail a
statement and go on, nest, return nil or an error, panic, recover, or call
`runtime.Goexit`.

| Code | Actions |
|---|---|
| `InTx` on a `*DB` or `*Conn`, `begin` (tx.go:77-83, 109-142) | `Begin`, `BeginFails` |
| its deferred function and its ends (tx.go:144-158) | `UnwindRoot`, `Rollback`, `Commit`, `CommitAfterExpiry` |
| `nest` up to the callback (tx.go:120-131, 162-170) | `Nest`, `NestFails`, `NestRejected` |
| `nest` after it (tx.go:172-192) | `RollbackTo`, `RollbackToRefused`, `ReleaseAfterRollback`, `Release`, `ReleaseRefused`, `UnwindNested` |
| the callback | `Write`, `WriteFails`, `FnReturnsNil`, `FnReturnsError`, `FnPanics`, `FnRecovers`, `FnGoexits` |
| `database/sql`, the network, the clock | `Expire`, `AwaitDone`, `ConnectionLost` |

`acked`, `path`, `outcome` and `stray` are history: which writes succeeded, inside
which calls each was made, how each call ended, and which calls could not send
their closing statement only because their own context was dead.

**NestedTx** is what `InTx` is for, with no database in it: a stack of scopes, each
holding the writes it would hand to its parent; a scope is kept or dropped, and
the outermost reaches the database in one step or not at all. `RowTx` implements
it (`ImplementsNestedTx` in **RowTxProps**, where all promises of `InTx` are
stated). The mapping computes the work of each running call from the history:
what was written inside it, less what was written in nested calls that ended
without letting it through. "Let through" includes the calls of `stray`: their
failed work stays, which section 5 comes back to.

**Classify** is `errors.go` and `ClassifyError` of the two adapters. An error is the
sequence of its layers as `errors.As` walks them: a `*row.Error`, a text added with
`%w`, and at the bottom what a driver reported or anything else. `Wrap` and `CodeOf`
look through the layers the way the code does.

**RowRetry** is `InTxRetry`: an instance of `NestedTx` for the attempt at work, so
it relies on what `RowTx` was shown to do and on nothing else, and the loop around
it. `tries` and `delay` are the local variables of the function, `late` is history:
the attempts started on a context that was done; a
`time.Duration` wraps at `Half`, which is 2^63 in the code. An attempt fails with an error built as
the program builds it: the engine reports something at a statement or at Commit,
row wraps it, and the callback returns it as it is, with a text of its own, only
quoted, or not at all (`FnFails`); or the error is row's or the callback's own.
`CodeOf` decides, and `cause` remembers what the engine had really said. A lost
reply to Commit carries no report, so it is not retried.

**PlanCache** is the cache and the goroutines in `prepare`. Since `get` and `put`
each hold the shard's mutex, each is one step; lookup, compile and store are
three, with other goroutines in between. A shard is its list (`order`) and its map
(`items`), kept apart because their agreement is what may break. `used` and `since`
are history and know nothing of the list: the keys ever used, and of each the others
of its shard used after its last use.

**RowRead** is reading: `bindFor`, `runQuery`, `collect`, `single`, `stream`, one
step for each call of a method of `*sql.Rows`, run by several readers who share
the connections of a pool (`limit`). `cursor` is the state of a reader's
`*sql.Rows`, and an open one holds a connection. `pos` is the row the cursor is on,
`given` what was yielded or returned, with a mark (`Stopped`) where the caller left the
loop. `database/sql` may close the rows from another
goroutine between any two steps (`Expire`). `how` is what the caller does with the
handle: read and nothing else; reserve a `*Conn` and read through it; hold a `*Conn`
or a transaction and ask the `*DB` meanwhile; or ask the `*DB` from the body of a
loop over `Iter`, whose rows are open. `extra` is the connection held beside the
result's.

**RowWrite** is `InsertMany` with the checks, the batches, each statement's
outcome and `scanBack`, on a `*DB`, where each statement commits alone, or as the
callback of an `InTx`, where an instance of `NestedTx` says what happens. `Insert`,
`Update` and `Delete` are the case of one value: they make the same checks, send
one statement, and read RETURNING rows through the same `scanBack`.

**Convert** is `convert.go` as operators on values: `Assign(t, src)` is the set of
values a destination of type `t` may get from what a driver handed back, empty when
`assign` returns an error. Widths are small but keep their relations: an `int64` ends
at `MaxInt`, narrower integers lie inside it, and a float has two significant bits,
so that `MaxInt` is no float and rounds up to a number that is no `int64`, as 2^63-1
does. A type that scans itself comes first and may refuse what it is given
(`Unscannable`). **Mapper** is `mapper.go`: `SnakeCase`, tags, the walk of `buildStruct` over
struct types that embed, nest, point and recur, and the way from a struct to a field
and back. Names are sequences of letters, since two fields clash on the concatenated
text. **Scan** is what goes on around them, in goroutines that share the two
process-wide caches and nothing else: `describeStruct` and `planFor` in two steps
each, since another goroutine may store an entry between load and store; the
columns and values `Insert`, `Update`, `Delete` and `Exec` with a struct send; what
`scanBack` fills in, column by column and in place; and `rowReader.read` row by
row, with its flags of absent structs. The server keeps what it is sent and
hands a cell back in any representation (`Styles`). **ScanProps** says what each
goroutine ought to find from README.md's rules for names, as paths from a struct to
its leaves; it uses neither the walk nor the order nor the caches of the code.

**Lexer** is the scanner, one action for each case of the switch in `lex`, in its
order; the helpers that skip comments and strings are recursive functions of the
offset, that for comments, which nest, one of the offset and the depth. **Statement** goes on from the tokens: `compile`, `splitArgs`, and `render`
one part at a time, for a dialect that numbers its placeholders (`$1`). An
argument's contents are only where they came from, so that a placeholder that got
the wrong value shows. **StatementProps** holds an independent reading of a text:
which characters are visible outside all strings, comments and quotes, and local
rules that say which visible characters begin a parameter. It does not scan from
token to token as the code does.

**QbQuery** is a builder query as the Go value it is: a struct whose slices point
into backing arrays (`heap`) that several queries may share. A program keeps every
query it made and calls methods of any of them (`Extend`, `Replace`); `append` may
leave room in an array it allocates. `said` is history: what the calls that led to a
query asked for. That no call changes a query made before (`BranchesApart`) is stated
here, since it is a matter of these methods alone (`QuerySpec`). **QbExpr** is `expr.go`: the expressions and
how each writes its words and arguments. **Qb** is `BuildSQL` of the four kinds of
query, at any time and of any query (`Build`). **QbProps** says what each condition means for a row
that may hold NULLs, and has a reading of SQL text of its own, with the
precedence of NOT, AND and OR and the AND of a BETWEEN; the two must agree.

## 3 The runs

Fairness is assumed only where a run checks liveness, and only of steps that the
Go runtime, `database/sql` or a timer is bound to take.

| Run | Instance | States | What it shows |
|---|---|---|---|
| `RowTx_pg` | 4 calls, 3 writes, aborting engine, nested calls share the transaction's context | 505 818 | type invariant; all or nothing; inner failures undone; each call finds its own savepoint; nothing left open; a closing call undoes only its own work |
| `RowTx_scoped` | 4 calls, 1 write, non-aborting engine, nested calls may have contexts of their own | 343 306 | `RowTx` refines `NestedTx`; every closing path ends |
| `RowTx_expired` | 3 calls, 1 write, aborting engine, own contexts | violation | section 5, first item |
| `RowRetry` | 9 policies, 2 engines with all reports they classify and 6 they do not, 2 rows, 8-bit durations | 69 896 | exactly once; retried exactly when the engine's report says so; attempts counted; delays double up to the cap, and after an overflow there is a panic and no wait; a cancelled context ends the retrying with at most one more attempt, which writes nothing; it returns |
| `PlanCache` | 3 goroutines, 5 statements (1 rejected), 2 shards of 2 | 35 076 | map and list agree; the least recently used is dropped; own plan |
| `RowRead` | 2 readers of every kind, 1 and 2 connections, up to 2 rows | 892 829 | whole results only; at most one error and last, and nothing yielded once the loop was left; no connection kept; every call ends unless as many callers hold a connection and ask for another as there are |
| `Scan` | 12 struct types, 10 leaf kinds and pointers to them, 5 representations; 1 goroutine with each kind of job, 2 with each pair of naming policies | 21 161 | each DB's own naming; values unchanged; no error without a cause; no row or column touched that the call does not name; RETURNING fills the value, and up to the column that failed when one does |
| `Scan_closures` | 2 goroutines, two closures of one function | violation | section 5, second item |
| `RowWrite` | up to 4 values of 2 columns, limits 0, 1, 2, 4, 5, 6 | 9 437 | the statements split the slice; what lands after nil and after an error; RETURNING fills from the own row |
| `Statement` | 18 627 texts, values passed whole and slices of 0 and 2 | 352 044 | tokens tile the text; exactly the parameters of the independent reading are found; text and arguments stay in step; the engine sees one placeholder per argument |
| `Qb` | 2 457 programs, up to 4 queries, 2 columns, values 1, 2, NULL | 211 118 | branches of a query stay apart; WHERE, HAVING and ON select what the conditions mean together; SET and VALUES get their own values |
| `Qb_slices` | an ordering comparison given a slice | violation | section 5, third item |

Each property of a passing run has a mutant of the code in `PROJECT.json`: a
dropped guard, a statement left out, a wrong index. Most stand in the module,
next to the definition they change; TLC finds the property violated with it.

### Why the bounds are enough

*RowTx.* Four calls are the outermost, two nested in each other (the
least depth at which a call can hit a savepoint that is neither its own nor the
last) and one more, for a sibling made after a failure or a panic left its
savepoint on the stack. The three writes of `RowTx_pg` put one at each of three
depths, or two on the two sides of a nested call; `RowTx_scoped`, where every call
may lose its context alone, has one write, which is enough for the refinement: it
follows the write to whichever scope keeps or drops it. A call is named by its number and a savepoint by the
counter, so neither is symmetric; writes are. No bound is on expiries, failures,
panics or recoveries: `dead` is a set of calls and `FnPanics` followed by
`FnRecovers` returns to a state seen before. The proofs of section 4 have none of
these bounds.

*RowRetry.* Eight bits let the delay reach its cap, pass it, and overflow within
nine attempts; with 64 bits only the number of doublings grows. The
policies are a cap reached after two doublings, no cap, no delay, one attempt
asked for as 1 and as 0, with a cap and without one as many attempts as it takes
to overflow, and two delays that no wait can be drawn from: the longest `Duration` and a
negative one. The reports are all the adapters name, and of those they do not, some that
share a class or a primary code with one.

*PlanCache.* Three statements contend for the two places of one shard, so eviction
happens while two other goroutines hold plans or are about to store them; the
second shard shows that shards are apart.

*RowRead.* With one connection the second reader waits for the first on every
path, and whoever holds it and asks again waits for ever. With two, each of two
readers may hold one and ask for another, or one of them may while the other is
served. Two rows are a first and a last one, and one too many for `One`.

*Scan.* Each struct type is there for a way of nesting: nilable in nilable,
embedded and unexported, one type twice with and without a prefix, a column claimed
twice, a type inside itself; and of keys: behind a pointer, read-only, of two columns of
which rows share one, and none at all with rows in the table. The writes with RETURNING
name a column the type lacks before and after one that cannot be assigned, on strict DBs
and lax ones, so that the value is left filled in to every extent. `MaxInt` = 7 and `Narrow` = 1
are the least widths at which each narrow type ends inside the wide one and a float
lies on either side of each edge; the cells of the reads lie on, beside and beyond
each edge. One value is written by a job: what several rows and
batches add is in `RowWrite`. What two goroutines can do to each other is one store
into a cache between the load and the store of the other, for either cache.

*RowWrite.* The limits allow one, two or three rows exactly, two and a half, less
than one, and any number; four values make up to four batches and a short last one.
A nil value may stand at any place, so before, inside or after the batches sent.

*Statement.* A text is a sequence of pieces from one of six families, each made of
what can interact: strings with escapes (up to 5 pieces), comments (5), dollar
quotes (5), question marks (4), names that begin like an escape string (4), several
parameters (4). A slice of two is the least that has a comma and makes its
successor's number differ from its place; an empty one has no placeholder at all.
`Lengths` gives the slices any lengths in the proofs.

*Qb.* Four queries are a template, two branches and one more on either of them. One
spare place in an array is enough for an append in place to overwrite another's
item. Conditions nest two deep below the clause, so each kind of group stands in
each other and beside each other; a clause has one condition or two, and a SELECT
all three clauses with up to twelve arguments. Rows of two columns over 1, 2 and
NULL tell the conditions apart.

### Fairness

*RowTx* (`FairSpec`): weak fairness of `Closing`, since a goroutine that runs a
closing path goes on. Nothing obliges the callback to return or a context to
expire, and the goroutine `database/sql` leaves waiting on the context (`AwaitDone`)
is not counted on either. `ClosingEnds` says that a call past its callback ends. That an
expired context ends a transaction which `Goexit` left open is `database/sql`'s
promise, not row's.

*RowRetry*: weak fairness of the loop, including the end of the attempt at work:
here the callback is assumed to end, or `InTxRetry` could not. A timer fires.
The run says `CHECK_DEADLOCK FALSE` because a returned call takes no step.

*RowRead*: weak fairness of each reader's own steps, the body of the caller's loop
and the closing of a `*Conn` among them: the body goes on or leaves, the `Close` is
deferred. Expiry, failing binds and giving up the wait for a connection are left
without, so no reader is rescued by its context: `Served` rests on every way out
giving the connection back. Its premise is that fewer callers hold a connection
while they ask for another than the pool has. sqlite.go:125-129 warns of a held `Conn`
and a pool of one; the body of a loop over `Iter` holds one in the same way.

*Scan* and the rest have no fairness: their properties are safety.

## 4 What is proved

Each theorem holds for every value of the constants that meets the assumptions named
here; all of them state what the code guarantees anyway. The 28 theorems state 26 of the
37 properties that the passing runs check; `TypeOK` has one for each of three
specifications.

### Transactions

`RowTxProofs` proves, for any set of writes, any `MaxCalls` (assumed only to be a
positive natural number, `CallsAssumption`), both kinds of engine
(`AbortAssumption`), and with or without contexts of nested calls
(`ScopedAssumption`):

| Theorem | States |
|---|---|
| `TypeCorrect` | `Spec => []TypeOK` |
| `AllOrNothing` | `Spec => []AtomicOutcome` |
| `NoneLeftOpen` | `Spec => []NothingLeftOpen` |
| `SavepointsHold` | `Spec => []SavepointsFollowCalls` |
| `InnerFailuresAreUndone` | `ScopedCtx = FALSE` and `Spec` imply `[]InnerFailureUndone` |
| `ClosingTakesOnlyOwn` | `Spec => ClosingUndoesOnlyOwn`, an action property |
| `RefinesNestedTx` | `Spec => ImplementsNestedTx`, the refinement |

The inductive invariant `IInv` has nine conjuncts, because none of the promises is
inductive by itself:

- `AtomicOutcome` says what the database holds when the outermost call ends. For
  the step in which Commit is accepted it needs to know what the engine held:
- `LogInv`: a usable transaction holds exactly the standing writes, those that no
  closed call took back, as long as its own context lives. It is true until
  `ROLLBACK TO` restores what a savepoint remembers, so it needs
- `SavepointsInv`: the savepoint of each running nested call remembers the standing
  writes around that call. To apply it to the savepoint the engine finds by name
  one needs
- `NamesInv`: names on the engine's stack grow strictly and so do those on the call
  stack; a name resolves to one savepoint, and the inner calls' savepoints lie
  above. This holds whatever savepoints failed calls have left in between. To keep it
  true of the contents when a call closes one needs
- `PathInv`: a write made inside a call was made inside all the calls around it, so
  the work a call drops is exactly the work filed under it; and for that
- `CallsInv`: numbers grow inwards, the outermost is 1, and a call has no outcome
  exactly while it is on the stack or not made yet.
- `StartInv`, `TypeOK` and `NothingLeftOpen` say what `pc` implies.

Each conjunct has a lemma that every step keeps it (`TypeStep`, `CallsStep`,
`PathStep` ...), with one step for each kind of action. The actions are sorted by
what they do to the call stack, by `StepKinds`: those that push, those that pop
(nine of the ten closing actions, all through `Return`), and those that leave it. Lemmas on
sequences (`PrefixFact`, `PopFact`) and on the two stacks (`PushedStack`,
`PoppedStack`, `StackOnlyShrinks`) are shared. `InnerFailuresAreUndone` needs one
more invariant: when nested calls take no context of their own, no call is ever in
`stray`.

The refinement needs two more facts (`WholeInv`). `PrefixInv`: the calls on the stack
below one that encloses a write enclose it too, and no closed call in between does, so
what was written inside a running call and let through is the writes of one prefix of
the stack, and `WorkOf` of each scope is a part of that of its parent. `AbortedInv`:
once PostgreSQL has aborted the transaction, calls may close without a word to the
engine, so that `log` is no longer the standing writes; what is in it beyond those is
work that every call still running encloses, so `ROLLBACK TO` of any of them removes
it. With these, each action of `RowTx` is one action of `NestedTx` or none
(`StepRefines`): what `WorkOf` does when a call is pushed, writes, or pops
(`WorkNest`, `WorkWrite`, `WorkPop`) is the substance of it. `WorkPop` is where the
outcome of a call decides whether the parent's scope inherits its work.

### The retry loop

`RowRetryProofs`, for any policies, reports, writes of the callback, and width of a
`Duration`. `PoliciesAssumption` gives attempts and delays their types only;
`ReportsAssumption` says which result codes SQLite has for busy and locked databases.

| Theorem | States |
|---|---|
| `TypeCorrect` | `Spec => []TypeOK` |
| `AppliedAtMostOnce` | `Spec => []ExactlyOnce` |
| `AttemptsBounded` | `Spec => []AttemptsCounted` |
| `TransientRetried` | `Spec => RetriesWhatHelps`, an action property |
| `CancelStopsRetrying` | `Spec => []CancelEndsRetrying` |
| `BackoffGrows` | `Spec => []BackoffDoublesToMax` |

`TxInv` says what the database can hold where the loop decides: an error may hide a
commit whose reply was lost, but never one that is worth retrying. That rests on
`CauseInv`: the code the loop finds behind all layers is a retryable one only if the
engine reported a transient failure, and is found whenever the callback let the error
through. Lemmas on layers carry it (`CodeInFront`, `CodeBehindText`, `WrapFact`,
`FnFailsFact`).

`CancelEndsRetrying` is not about one guard: select may let the timer win, so an attempt
on a dead context is started. `LateInv` says what becomes of it: it ends before the
callback with an error that is not worth retrying, so it is the last. It needs the
layers too, since what is retried is what `CodeOf` finds in that error
(`RowFailsFact`).

`DelayInv` ties the delay to a power of two as long as a `Duration` holds it, and says
that the first one it does not hold has become negative. So the bound of a wait is never
what an overflow left: `rand.Int64N` panics first (`PanicInv`), and only then
(`CappedFact`: or when the range itself ends with the longest `Duration`).

### The plan cache

`PlanCacheProofs`, for any goroutines, statements, hash, number of shards and size.

| Theorem | States |
|---|---|
| `TypeCorrect` | `Spec => []TypeOK` |
| `MapAndListAgree` | `Spec => []MapMatchesList` |
| `EachItsOwnPlan` | `Spec => []OwnPlan` |
| `LeastRecentlyUsedIsDropped` | `Spec => []HoldsMostRecent` |

`RecencyInv` is the reason why eviction is right: before each key in the list are just
the keys used since its last use, and a key that was dropped has seen all keys of a
full list used since. `PlanInv` follows a plan through the three steps of `prepare`.
`MoveFact` and `InsertFact` say what moving and pushing do to a list without
duplicates.

### Reading

`RowReadProofs`, for any finite set of readers, pools of any size and results of any
length.

| Theorem | States |
|---|---|
| `OnlyWholeResults` | `Spec => []WholeResult` |
| `OneErrorAndLast` | `Spec => []ErrorEndsIteration` |
| `NoConnectionKept` | `Spec => []NothingHeld` |

`ReaderInv(r)` says, for each place in the functions of `scan.go`, what state the
rows are in and what has been handed over, and for each way to end what the call
vouches for. In a loop over `Iter` that is what `given` is, exactly, error or mark at
its end included. A step of one reader keeps it for the others; only `PoolInv`, that no
more connections are held than the pool has, counts over all (`HeldGrows`,
`HeldShrinks`).

### Writing

`RowWriteProofs`, for slices of any length, any number of columns and any limit, with
or without a transaction.

| Theorem | States |
|---|---|
| `SplitsTheSlice` | `Spec => []StatementsSplitValues` |
| `AllLandOrAsDocumented` | `Spec => []WhatLands` |
| `FilledByOwnRow` | `Spec => []FilledFromOwnRow` |

`SplitInv`: the statements hold a first part of the slice, each after those before it.
`LandInv`: all have landed but perhaps the one at work, in the scope of the transaction
or in the database. `FillInv`: while rows come in, either they fit the values still to
fill one by one, or they are too few for the batch and the call will fail. That is what
makes a match by position safe as long as an engine keeps the order of the values.

### The query builder

`QbQueryProofs` proves `TemplatesStaySafe`, `QuerySpec => []BranchesApart`, for any
program, any number of queries and whatever room `append` leaves. `QuerySpec` has the
steps of `Qb` that make queries; the others leave its variables alone. The reason is
`OldSlicesSame`: no method writes to an array that is there already, so what a slice
holds never changes. The invariant adds that slices lie within what was written to
their arrays (`SliceInv`).

### The lexer

`LexerProofs`, for every text of any length (`TextsAssumption`: texts are sequences of
strings).

| Theorem | States |
|---|---|
| `TextIsTiled` | `Spec => []TokensTile` |
| `ParametersAreFound` | `Spec => []ParametersFound` |

`TextIsTiled`: each turn of the loop moves past what it consumes and not past the end;
for the helpers that skip comments, strings and dollar quotes that is an induction over
the text. `Jumps` describes a recursive function that either stops at an offset or goes
on at one nearer the end; `JumpsDefine` shows that such a function exists, and
`JumpsReturn` that it returns what it stops with. `CommentEnds`, `QuoteEnds` and
`EscapeEnds` are instances. `IInv` adds that while the scan runs the last token is no
text, so that the text flushed next does not follow another.

`ParametersAreFound` compares two readings of a text that have little in common. The
code jumps from token to token and counts what it has open; the reader of
`StatementProps` goes character by character, counts quotes from the start of a region,
and looks back for words, backslashes and runs. The argument:

- a region ends at the same place for both (`QuoteEnd`, `EscapeEnd`,
  `CommentEndMeets`, `LineEnds`, `DollarIs`): `Reach` says that a function of the kind
  of `Jumps` returns the least offset with a property that no step passes over, and for
  each region that property is the reader's;
- `ScanInv`: the scan stands outside every region, in nothing that began before it and
  that the reader would take together with what follows, a word, a pair of marks or a
  run of colons (`Fresh`), and what it has found is what the reader found below. Each case
  of the switch keeps it (`RegionStep`, `PlainStep`, `ParamStep`, `LastStep`); the
  invariant is needed in this form because the reader's rules look back and the code
  does not.

Proving it also showed where the reading had to be more exact: an `E'` right behind a
colon is an escape string after `::`, a cast, and the end of a name after a lone `:`
(`EscapeAt`). The family `Names` of the run was added for it.

### Rendering

`StatementProofs`, for every text, slices of any lengths (`LengthsAssumption`: these are
natural numbers) and any arguments, with any number of parameters and numbers of any
size.

| Theorem | States |
|---|---|
| `StatementIsRendered` | `Spec => []RendersStatement` |
| `PlaceholdersAreSeen` | `Spec => []EngineSeesPlaceholders` |

`StatementIsRendered`: what the driver gets is the statement with its parameters
replaced.

- A scanned statement (`Scanned`) is its tokens one after another, and the slots among
  them are those the reader has, in the same order (`SlotsAre`, by counting: the slots
  among the first m tokens are as many as the rank of the next).
- `Says(ps, n)`: the parts compiled from the first n tokens say what the reader makes
  of the text up to there: for any arguments that have a value for each, the same text
  and the same values. `SaysLiteral` and `SaysSlot` carry it over a token;
  `LiteralSays` is why it makes no difference that adjacent literals are one part,
  `LiteralIs` why `??` does not shift anything, `SliceIs` why the placeholders of a
  slice are numbered on from what was spent before. `PartsSay` is the whole plan.
- `RenderInv` is the inductive invariant: what is in `buf` and `out` is what the parts
  before `at` say, and every named part among them had a value. It needs the latter
  (`KeysIn`) because `render` finds out that a name is missing only when it gets there.
  That styles are not mixed (`~Mixed`) is part of it: `compile` has refused the others.

`PlaceholdersAreSeen`: the engine, which knows nothing of row, finds in that text the
placeholders that were meant and no others. The rendered text is not a shifted copy of
the source: every parameter moves what follows by the length of its placeholders, and
what stands behind a character decides how it is read (`--`, `/*`, `E'`, `$tag$`).

- `SeamInv`, the inductive invariant: every token ends outside every region, and in
  nothing that a reader would take together with what follows. It is `ScanInv` at the
  moment a token was cut off, kept for all tokens.
- `Laid`: the rendered text is the images of the tokens one behind the other; the image
  of a text or a numbered parameter is the piece itself, that of a slot its
  placeholders, that of `??` a lone `?`.
- A piece that stands somewhere else is read there as it was read here. `Moved` says
  that the characters are the same, `Seam` what may follow: both texts end, the next
  character is the same `?` or `$`, or a parameter begins in the source and a placeholder or
  `NULL` in the copy. Each notion of the reader has a lemma that it moves along
  (`PairMoves`, `CommentMoves`, `QuotedMoves`, `DollarMoves`, `EscapeMoves`, ...), and
  `RegionMoves` and `HiddenMoves` sum them up. This is where `SetApart` is needed: a
  letter in front of a parameter would make one word with the `NULL` of an empty slice.
- `ReadTo(m)`: in the images of the first m tokens the reader finds the numbers due, as
  many as values were spent, and leaves no region open. `AllRead` is the induction over
  the tokens, with a lemma for each kind (`SlotRead`, `LoneRead`, `NumberedRead`,
  `TextRead`); `SliceRead` is an induction of its own over the elements of a slice.

What the definitions compute by recursion (`Parts`, `TextBetween`, `Decimal`,
`FlattenSeq`) is shown to exist and to meet its equation first (`PartsDefined`,
`TextBetweenDefined`, `DecimalText`, `FlattenDefined`).

### Induction

Where a proof needs induction over numbers (the powers of two of the delay, the
offsets of a text), it is made from the existence of least elements: `SetInduction`
says that a set with 0 and with n + 1 for each n in it holds all natural numbers, and
follows from `WFMin` and `NatLessThanWellFounded` of the library. That a recursively
defined function is what its definition says is proved the same way: one function for
each finite part, which agree, and together are the whole (`PowersExist`,
`PowersAgree`; `NearDefined`, `NearAgree`).

### What is only model-checked

- The liveness properties `ClosingEnds`, `Returns` and `Served`: they need ENABLED,
  which the prover does not handle.
- All of `Scan` and the conditions of `Qb` (`ClausesMeanConditions`, `ValuesInPlace`):
  they rest on RECURSIVE operators (the walk over types, the rendering of expressions
  and its reading), and the prover has no arithmetic in a module that reaches one.

## 5 Where the code and its words disagree

**A nested call whose own context has expired keeps its failed work**
(`RowTx_expired`, code). `nest` sends `ROLLBACK TO SAVEPOINT` with the context of the
call it closes. Where that is `context.WithTimeout(ctx, ...)` and has expired while
`ctx` lives, `database/sql` does not send the statement. The nested call returns its
error, its writes stay in the transaction, and an outer callback that goes on
commits them. tx.go:96 and README.md:342 say that only the inner work is undone.
Everything else proved of `RowTx` still holds there: `AtomicOutcome` counts such
work as handed to the parent.

**Closures share what their DBs should not** (`Scan_closures`, code). `mapperKey` is
the code pointer of the name mapper, and all closures made by one function have the
same. Two DBs given `prefixer("a_")` and `prefixer("b_")` share an entry of
`structCache` and one of `scanCache`: the second maps a struct type by the columns
of the first. mapper.go:88-89 says that such DBs "do not share a mapping", and
README.md:261 promises a naming for each DB. The run `Scan`, in which naming policies
are functions of their own, shows that nothing else mixes them.

**An ordering comparison with a slice becomes NOT IN** (`Qb_slices`, code).
`cmp.write` turns a slice into a membership test for every comparison, negated
unless the operator is `=`. `qb.Lt{"a": ids}`, and Lte, Gt, Gte, Like and ILike
alike, render `a NOT IN (...)`; with an empty slice they render `1 = 1`, which every
row meets. expr.go:145 speaks of "a slice on an equality comparison", and expr.go:125
says that an empty condition "must not silently disappear and widen the query".

Seen while modelling, with no run of their own:

- `delay` doubles on each retry also after `MaxDelay` caps what is waited (tx.go:242),
  so in the end it is negative, is not capped any more, and `rand.Int64N` panics: with
  5 ms and a cap of 200 ms before the 43rd attempt. tx.go:201 says "It doubles each
  time, up to MaxDelay". `BackoffDoublesToMax` asks for that of every wait, and allows
  the panic where a `Duration` does not hold the doubled delay, or is the longest one
  (`d + 1` overflows), and nowhere else.
- `AfterQuery` runs when `QueryContext` returns (row.go:261); a failure while the rows
  are read is told to the caller only. hook.go:44 says it "runs once the statement has
  completed".
- mapper.go:20 gives `OAuth2Key` as `oauth2_key`; the code, and mapper_test.go:18, give
  `o_auth2_key`. `SnakeCaseExamples` in `MCScan` follows the code.
- `toInt64` compares a float with `MaxInt64` as a float (convert.go:257), which is 2^63;
  that one number passes and fits no `int64`, so the machine decides what it becomes.
  `ReadFaithful` leaves out that number, by name (`BeyondMaxInt`).
- RETURNING is scanned field by field (write.go:194-209), without the rule that lets a
  struct of NULLs stay nil: a NULL for a field of a nil struct that cannot hold one is an
  error after the row was written, where reading the same row back succeeds.
- A driver's error that a callback got from `Tx.SQL()` and returns is not wrapped by
  `InTx` (tx.go:155), so `CodeOf` does not know it and it is not retried.
- `SQLITE_LOCKED_SHAREDCACHE` (262), `SQLITE_LOCKED_VTAB` (518) and
  `SQLITE_BUSY_TIMEOUT` (773) are not retried: the first two have no code, the third is a
  timeout. tx.go names "a locked SQLite database". `RetriesWhatHelps` takes the three
  for what the code takes them for.
- `Only` and `Omit` ignore names that no field has.

## 6 What is not modelled

Parts: hooks, which observe and decide nothing; opening a database and the
pragmas of a DSN; the text of the statements that `write.go` builds, quoting and the
wording of errors; `Affected`, which reads a number; tests and examples.

Inside the modules:

- *RowTx*: an expiry in the middle of a statement shows as the statement failing,
  or as the expiry just before or after it. Two goroutines that use one `*Tx`, and a
  nested call made on the `*Tx` of an outer scope than the innermost, are left out:
  the package does not say that either is allowed. An engine in doubt about a
  `RELEASE` or `ROLLBACK TO` has lost its connection, and with it the transaction.
- *RowRetry*: on a `*Tx`, `InTxRetry` retries a nested call; only the outermost use
  is modelled. The random part of the delay is left out: only the bound given to
  `rand.Int64N` matters.
- *PlanCache*: caches with fewer places than shards are left out; size zero keeps one
  statement in each of the 16 shards, although row.go:61 says it "disables caching
  entirely". A plan never changes once compiled, which `bind.go` sees to, so it is
  known by the statement it came from. The hash is any function to shards.
- *Classify*: an error is a chain. `errors.Join` and other trees do not occur in row; a
  callback that returns one is left out.
- *RowRead*: how a row becomes a value is success or failure here; `Scan` says which.
  `First` drops the error of `Close`; a statement ends with its last row, so there is
  none to drop. A call made with a transaction's handle while its own rows are open
  is a matter of the driver.
- *Convert*: arrays, `float32` and the other widths, named types, and what reflect
  converts as a last resort. A text is what it spells, so `"1"` and `"1.0"` differ only as
  numerals; which spellings `strconv` takes is its own matter.
- *Mapper*: an embedded pointer to an unexported struct, which reflect cannot set:
  `valueAt` panics there. `EmbeddedPointersExported` leaves it out.
- *Scan*: each goroutine has a table of its own; what two transactions do to one table is
  the engine's matter. The caches never lose an entry, as in the code. `structArgs`
  for pointers to pointers is left out.
- *RowWrite*: an engine returns the RETURNING rows of a statement in the order of its
  values, with at most one kept back or one added. That is the order the code relies
  on and neither engine documents.
- *Statement*: which Go types are slices is abstracted to "whole" and "slice of so
  many". An empty slice becomes `NULL`, as in the code; `NOT IN (NULL)` is SQL's
  matter. `?||` is read as the code reads it, as a JSON operator.
  `EngineSeesPlaceholders` has a premise, `SetApart`: with a letter, a digit or `$`
  touching a parameter (`LIMIT?`), what the engine sees differs, since the code
  writes the placeholder right there. The numbers of numbered parameters, which
  nothing reads, are left out.
- *Qb*: DISTINCT, LIMIT, OFFSET, ON CONFLICT and the table, which are set by assignment
  and take no arguments; the quoting of names; Like and ILike, which go the way of the
  other comparisons. Expressions are values, so a map or a slice that the caller
  changes after giving it away is left out. The runs give `Raw` no OR outside
  parentheses: `Where(Eq{...}, Raw("a = 1 OR b = 2"))` is not combined with AND as
  query.go:92 says, since Raw's text goes in as it is. `And(nil)` and `Or(nil)`, with
  one part, panic where more parts give an error (expr.go:337); the model keeps the panic and
  no property speaks of it.

## 7 The plan

Done, in the order of importance of what they model: `SqlTx`, `RowTx`, `NestedTx`,
`RowRetry`, `PlanCache`, `RowRead` with the pool, `RowWrite`, `Lexer` with `Statement`,
`Qb` with `QbQuery` and `QbExpr`, `Classify`, and `Convert`, `Mapper` and `Scan`; and the
proofs of section 4. Of the models one is left: `RowTx` with two callbacks on one `*Tx`,
once the package says whether that is allowed.

Of the proofs the next would be `Convert`: that `ToInt64` and `Assign` refuse what does
not fit and change nothing else, as lemmas on the operators for every width.
