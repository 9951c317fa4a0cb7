---------------------------- MODULE UiImageCache ----------------------------
(***************************************************************************)
(* The UI thread's cache of decoded page images and thumbnails             *)
(* (UiImageCache in apps/barepdf/src/presentation/state.rs): an LRU map of *)
(* 512 entries with a byte budget that follows the zoom.                   *)
(***************************************************************************)
EXTENDS ByteLru

CONSTANTS
  Docs, Pages,
  Sizes,      \* bytes an image can have
  Capacity,   \* entries the LRU map holds at most
  Budgets     \* the tiers of adaptive_cache_budget

VARIABLES cache, budget

Keys == [doc : Docs, page : Pages]

Init == cache = EmptyCache /\ budget \in Budgets

Get(key) == cache' = [cache EXCEPT !.entries = Touched(@, key)] /\ UNCHANGED budget

EvictedTo(c, b) == DroppingTo(c, b, Capacity)

\* Mutant: put leaves the image of the same key where it is.
PuttingTwice(c, key, size) ==
  LET kept == IF Len(c.entries) < Capacity THEN c.entries ELSE SubSeq(c.entries, 1, Capacity - 1)
  IN  [entries |-> <<[key |-> key, bytes |-> size]>> \o kept, bytes |-> c.bytes + size]

\* put: replaces the image of the same key, whose bytes the caller takes off; a
\* full map gives up its oldest entry without a word.
Putting(c, key, size) ==
  LET room == Popping(c, {key})
      kept == IF Len(room.entries) < Capacity THEN room.entries
              ELSE SubSeq(room.entries, 1, Capacity - 1)
  IN  [entries |-> <<[key |-> key, bytes |-> size]>> \o kept, bytes |-> room.bytes + size]

Insert(key, size) ==
  /\ cache' = IF size > budget THEN cache ELSE EvictedTo(Putting(cache, key, size), budget)
  /\ UNCHANGED budget

\* update_cache_budget_for_zoom
SetBudget(b) == budget' = b /\ cache' = EvictedTo(cache, b)

RemoveDocument(d) ==
  /\ cache' = Popping(cache, {k \in Keys : k.doc = d})
  /\ UNCHANGED budget

RemovePage(key) == cache' = Popping(cache, {key}) /\ UNCHANGED budget

Next ==
  \/ \E key \in Keys : Get(key) \/ RemovePage(key) \/ \E size \in Sizes : Insert(key, size)
  \/ \E b \in Budgets : SetBudget(b)
  \/ \E d \in Docs : RemoveDocument(d)
=============================================================================
