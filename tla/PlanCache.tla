------------------------------ MODULE PlanCache -----------------------------
(***************************************************************************)
(* The cache of compiled statements (cache.go) and the goroutines that     *)
(* prepare statements through it (prepare in row.go).                      *)
(*                                                                         *)
(* Each shard has a mutex around get and around put, so each of the two is *)
(* one step; looking up, compiling and storing are not one step together,  *)
(* and any number of goroutines may be anywhere between them.              *)
(***************************************************************************)
EXTENDS Integers, Sequences, FiniteSets

CONSTANTS
  Goroutines,  (* the callers *)
  Queries,     (* the statements, each its own cache key *)
  BadQueries,  (* those compile rejects *)
  NumShards,   (* 16 in the code *)
  ShardOf,     (* the hash: the shard of each statement *)
  MaxSize      (* the size asked for with WithPlanCacheSize *)

Shards == 0..(NumShards - 1)

ASSUME BadAssumption == BadQueries \subseteq Queries
ASSUME ShardAssumption == NumShards \in Nat \ {0} /\ ShardOf \in [Queries -> Shards]
ASSUME SizeAssumption == MaxSize \in Int

VARIABLES
  order,   (* per shard, the keys of the list, most recently used first *)
  items,   (* per shard, the map from key to plan *)
  pc,      (* what each goroutine does: "idle", "compile", "store" or "bind" *)
  query,   (* the statement it prepares *)
  plan,    (* the plan it holds *)
  used,    (* history: the keys ever looked up with success or stored *)
  since    (* history: of each key, the others of its shard used after its last use *)

cacheVars == <<order, items, used, since>>
vars == <<cacheVars, pc, query, plan>>

(* A plan is known by the statement it was compiled from. *)
NoPlan == [compiled |-> FALSE, of |-> ""]
Compile(q) == IF q \in BadQueries THEN NoPlan ELSE [compiled |-> TRUE, of |-> q]
Plans == {Compile(q) : q \in Queries} \cup {NoPlan}
PlanMaps == UNION {[K -> Plans] : K \in SUBSET Queries}

(* newPlanCache: what a shard may hold, at least one. *)
Max == IF MaxSize \div NumShards < 1 THEN 1 ELSE MaxSize \div NumShards

-----------------------------------------------------------------------------
(* container/list, by the keys of its elements.                            *)

Keys(s) == {s[i] : i \in DOMAIN s}

PushFront(k, s) ==
  [i \in 1..(Len(s) + 1) |-> IF i = 1 THEN k ELSE s[i - 1]]

MoveToFront(k, s) ==
  LET at == CHOOSE i \in DOMAIN s : s[i] = k
  IN  [i \in 1..Len(s) |-> IF i = 1 THEN k ELSE IF i <= at THEN s[i - 1] ELSE s[i]]

(* k is used.  The history knows nothing of the list. *)
Use(k) ==
  /\ used' = used \cup {k}
  /\ since' = [q \in Queries |->
                IF q = k THEN {}
                ELSE IF q \in used /\ ShardOf[q] = ShardOf[k] THEN since[q] \cup {k}
                ELSE since[q]]

-----------------------------------------------------------------------------
Init ==
  /\ order = [s \in Shards |-> << >>]
  /\ items = [s \in Shards |-> [k \in {} |-> NoPlan]]
  /\ used = {}
  /\ since = [q \in Queries |-> {}]
  /\ pc = [g \in Goroutines |-> "idle"]
  /\ query \in [Goroutines -> Queries]
  /\ plan = [g \in Goroutines |-> NoPlan]

(* Mutant of Hit: get returns the plan and leaves the list as it is. *)
HitInPlace(g, q) ==
  LET s == ShardOf[q] IN
  /\ pc[g] = "idle"
  /\ q \in DOMAIN items[s]
  /\ Use(q)
  /\ query' = [query EXCEPT ![g] = q]
  /\ plan' = [plan EXCEPT ![g] = items[s][q]]
  /\ pc' = [pc EXCEPT ![g] = "bind"]
  /\ UNCHANGED <<order, items>>

(* planCache.get, found: the key becomes the most recently used. *)
Hit(g, q) ==
  LET s == ShardOf[q] IN
  /\ pc[g] = "idle"
  /\ q \in DOMAIN items[s]
  /\ order' = [order EXCEPT ![s] = MoveToFront(q, @)]
  /\ Use(q)
  /\ query' = [query EXCEPT ![g] = q]
  /\ plan' = [plan EXCEPT ![g] = items[s][q]]
  /\ pc' = [pc EXCEPT ![g] = "bind"]
  /\ UNCHANGED items

(* planCache.get, not found. *)
Miss(g, q) ==
  /\ pc[g] = "idle"
  /\ q \notin DOMAIN items[ShardOf[q]]
  /\ query' = [query EXCEPT ![g] = q]
  /\ plan' = [plan EXCEPT ![g] = NoPlan]
  /\ pc' = [pc EXCEPT ![g] = "compile"]
  /\ UNCHANGED cacheVars

CompileStatement(g) ==
  /\ pc[g] = "compile"
  /\ query[g] \notin BadQueries
  /\ plan' = [plan EXCEPT ![g] = Compile(query[g])]
  /\ pc' = [pc EXCEPT ![g] = "store"]
  /\ UNCHANGED <<cacheVars, query>>

(* Mutant of CompileFails: prepare looks at the error after pc.put. *)
CompileErrorLate(g) ==
  /\ pc[g] = "compile"
  /\ query[g] \in BadQueries
  /\ pc' = [pc EXCEPT ![g] = "store"]
  /\ UNCHANGED <<cacheVars, query, plan>>

(* prepare returns the error of compile; nothing is stored. *)
CompileFails(g) ==
  /\ pc[g] = "compile"
  /\ query[g] \in BadQueries
  /\ pc' = [pc EXCEPT ![g] = "idle"]
  /\ UNCHANGED <<cacheVars, query, plan>>

(* The keys a shard keeps once the loop of put has dropped the last ones. *)
Evicted(s) == SubSeq(s, 1, IF Len(s) > Max THEN Max ELSE Len(s))

(* planCache.put, for a key another goroutine stored in the meantime. *)
Replace(g) ==
  LET k == query[g]  s == ShardOf[k] IN
  /\ pc[g] = "store"
  /\ k \in DOMAIN items[s]
  /\ order' = [order EXCEPT ![s] = MoveToFront(k, @)]
  /\ items' = [items EXCEPT ![s][k] = plan[g]]
  /\ Use(k)
  /\ pc' = [pc EXCEPT ![g] = "bind"]
  /\ UNCHANGED <<query, plan>>

(* Mutants of Insert: put without its second look at the map, and put into the
   first shard whatever the key hashes to. *)
InsertUnchecked(g) ==
  LET k == query[g]
      s == ShardOf[k]
      pushed == PushFront(k, order[s])
      kept == Evicted(pushed)
      dropped == {pushed[i] : i \in (Len(kept) + 1)..Len(pushed)}
  IN
  /\ pc[g] = "store"
  /\ order' = [order EXCEPT ![s] = kept]
  /\ items' = [items EXCEPT ![s] =
                 [x \in (DOMAIN @ \cup {k}) \ dropped |-> IF x = k THEN plan[g] ELSE @[x]]]
  /\ Use(k)
  /\ pc' = [pc EXCEPT ![g] = "bind"]
  /\ UNCHANGED <<query, plan>>

InsertFirstShard(g) ==
  /\ pc[g] = "store"
  /\ order' = [order EXCEPT ![0] = Evicted(PushFront(query[g], @))]
  /\ items' = [items EXCEPT ![0] =
                 [x \in DOMAIN @ \cup {query[g]} |-> IF x = query[g] THEN plan[g] ELSE @[x]]]
  /\ Use(query[g])
  /\ pc' = [pc EXCEPT ![g] = "bind"]
  /\ UNCHANGED <<query, plan>>

(* planCache.put, for a key the shard does not hold. *)
Insert(g) ==
  LET k == query[g]
      s == ShardOf[k]
      pushed == PushFront(k, order[s])
      kept == Evicted(pushed)
      dropped == {pushed[i] : i \in (Len(kept) + 1)..Len(pushed)}
  IN
  /\ pc[g] = "store"
  /\ k \notin DOMAIN items[s]
  /\ order' = [order EXCEPT ![s] = kept]
  /\ items' = [items EXCEPT ![s] =
                 [x \in (DOMAIN @ \cup {k}) \ dropped |-> IF x = k THEN plan[g] ELSE @[x]]]
  /\ Use(k)
  /\ pc' = [pc EXCEPT ![g] = "bind"]
  /\ UNCHANGED <<query, plan>>

(* splitArgs and render: prepare returns, with the bound statement or an error. *)
Bind(g) ==
  /\ pc[g] = "bind"
  /\ pc' = [pc EXCEPT ![g] = "idle"]
  /\ UNCHANGED <<cacheVars, query, plan>>

Next ==
  \E g \in Goroutines :
    \/ \E q \in Queries : Hit(g, q) \/ Miss(g, q)
    \/ CompileStatement(g) \/ CompileFails(g)
    \/ Replace(g) \/ Insert(g)
    \/ Bind(g)

Spec == Init /\ [][Next]_vars

-----------------------------------------------------------------------------
(* The state is well formed, and every key lives in the shard it hashes to. *)
TypeOK ==
  /\ order \in [Shards -> Seq(Queries)]
  /\ \A s \in Shards : \A k \in Keys(order[s]) : ShardOf[k] = s
  /\ items \in [Shards -> PlanMaps]
  /\ pc \in [Goroutines -> {"idle", "compile", "store", "bind"}]
  /\ query \in [Goroutines -> Queries]
  /\ plan \in [Goroutines -> Plans]
  /\ used \subseteq Queries /\ since \in [Queries -> SUBSET Queries]

(* The map and the list of a shard hold the same keys, each once: a key the
   list lost would stay in the map for ever, one the map lost would be compiled
   again while it still takes a place.  It is the second look in put that keeps
   this when two goroutines missed the same statement. *)
MapMatchesList ==
  \A s \in Shards :
    /\ DOMAIN items[s] = Keys(order[s])
    /\ \A i, j \in DOMAIN order[s] : order[s][i] = order[s][j] => i = j

(* A shard holds the statements used last, as many as it may: a statement is in
   the cache exactly when it was used and fewer than Max others of its shard were
   used since.  So what put drops is always the least recently used, however
   hits, misses and late puts of other goroutines interleave. *)
HoldsMostRecent ==
  \A q \in Queries :
    q \in DOMAIN items[ShardOf[q]] <=> q \in used /\ Cardinality(since[q]) < Max

(* A statement is only ever rendered with its own plan, and a statement that
   does not compile is never in the cache. *)
OwnPlan ==
  /\ \A s \in Shards : \A k \in DOMAIN items[s] :
       k \notin BadQueries /\ items[s][k] = Compile(k)
  /\ \A g \in Goroutines : pc[g] = "bind" => plan[g] = Compile(query[g]) /\ plan[g] # NoPlan
=============================================================================
