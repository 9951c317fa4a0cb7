-------------------------- MODULE TextGeometryCache --------------------------
(***************************************************************************)
(* The UI thread's cache of text geometry (TextGeometryCache in            *)
(* apps/barepdf/src/presentation/state.rs): the pages text can be selected *)
(* and searched on, bounded by a byte budget and a number of pages.        *)
(***************************************************************************)
EXTENDS ByteLru

CONSTANTS
  Docs, Pages,
  Sizes,     \* bytes a page's geometry can have
  Capacity,  \* MAX_TEXT_GEOMETRIES
  Budgets    \* what TEXT_GEOMETRY_BUDGET may be

VARIABLES cache, budget

Keys == [doc : Docs, page : Pages]

Init == cache = EmptyCache /\ budget \in Budgets

Get(key) == cache' = [cache EXCEPT !.entries = Touched(@, key)]

\* Mutant: only the bytes make room, and the map drops what is one too many.
InsertCountingOnlyBytes(key, size) ==
  LET room == DroppingTo(Popping(cache, {key}), budget - size, Capacity)
  IN  cache' = IF size > budget THEN cache
               ELSE [entries |-> <<[key |-> key, bytes |-> size]>>
                                   \o Newest(room.entries, Capacity - 1, budget),
                     bytes |-> room.bytes + size]

Insert(key, size) ==
  LET room == DroppingTo(Popping(cache, {key}), budget - size, Capacity - 1)
  IN  cache' = IF size > budget THEN cache
               ELSE [entries |-> <<[key |-> key, bytes |-> size]>> \o room.entries,
                     bytes |-> room.bytes + size]

RemoveDocument(d) == cache' = Popping(cache, {k \in Keys : k.doc = d})

Next ==
  /\ \/ \E key \in Keys : Get(key) \/ \E size \in Sizes : Insert(key, size)
     \/ \E d \in Docs : RemoveDocument(d)
  /\ UNCHANGED budget
=============================================================================
