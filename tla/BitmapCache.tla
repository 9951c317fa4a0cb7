---------------------------- MODULE BitmapCache ----------------------------
(***************************************************************************)
(* The render worker's cache of raw bitmaps                                *)
(* (crates/barepdf-render/src/cache.rs): an LRU map bounded by a byte      *)
(* budget and, far above it, by a number of entries.  One thread uses it.  *)
(***************************************************************************)
EXTENDS ByteLru

CONSTANTS
  Docs, Pages,  \* what a key names (a slot stands for page, size, rotation, inversion)
  Sizes,        \* bytes a bitmap can have
  Capacity,     \* entries the LRU map holds at most
  Budgets       \* byte budgets the cache can be given

VARIABLES
  cache,   \* the LRU map and current_bytes
  budget   \* budget_bytes

Keys == [doc : Docs, page : Pages]

Init == cache = EmptyCache /\ budget \in Budgets

Get(key) == cache' = [cache EXCEPT !.entries = Touched(@, key)] /\ UNCHANGED budget

\* push: a full map gives up its oldest entry, which insert takes off the counter.
Pushing(c, key, size) ==
  LET room == IF Len(c.entries) < Capacity THEN c ELSE Dropping(c, 1)
  IN  [entries |-> <<[key |-> key, bytes |-> size]>> \o room.entries, bytes |-> room.bytes + size]

\* evict_for: make room for so many bytes.
EvictingFor(c, size) == DroppingTo(c, budget - size, Capacity)

\* Mutant: room is made before the bitmap's own predecessor is gone.
InsertEvictingFirst(key, size) ==
  LET room == Popping(EvictingFor(cache, size), {key})
  IN  /\ cache' = IF size > budget THEN cache ELSE Pushing(room, key, size)
      /\ UNCHANGED budget

\* insert: a bitmap over the whole budget is handed out and not kept.
Insert(key, size) ==
  LET room == EvictingFor(Popping(cache, {key}), size)
  IN  /\ cache' = IF size > budget THEN cache ELSE Pushing(room, key, size)
      /\ UNCHANGED budget

\* Mutant: the smaller budget only counts from the next insertion.
SetBudgetLater(b) == budget' = b /\ UNCHANGED cache

\* set_budget, evict_to_budget.
SetBudget(b) == budget' = b /\ cache' = DroppingTo(cache, b, Capacity)

EvictDocument(d) ==
  /\ cache' = Popping(cache, {k \in Keys : k.doc = d})
  /\ UNCHANGED budget

Clear == cache' = EmptyCache /\ UNCHANGED budget

Next ==
  \/ \E key \in Keys : Get(key) \/ \E size \in Sizes : Insert(key, size)
  \/ \E b \in Budgets : SetBudget(b)
  \/ \E d \in Docs : EvictDocument(d)
  \/ Clear
=============================================================================
