------------------------------ MODULE ByteLru ------------------------------
(***************************************************************************)
(* The LRU map (the lru crate) that the caches of BarePDF keep next to a   *)
(* counter of the bytes in it: a record of the entries, most recently used *)
(* first, and the counter.  An entry has a key and a size in bytes.        *)
(***************************************************************************)
EXTENDS Naturals, SequencesExt

EmptyCache == [entries |-> <<>>, bytes |-> 0]

Total(entries) ==
  LET sum[n \in 0..Len(entries)] == IF n = 0 THEN 0 ELSE sum[n - 1] + entries[n].bytes
  IN  sum[Len(entries)]
KeysOf(entries) == {entries[i].key : i \in DOMAIN entries}

\* The entries with one of these keys, and those with another one.
Among(entries, keys) ==
  FlattenSeq([i \in DOMAIN entries |-> IF entries[i].key \in keys THEN <<entries[i]>> ELSE <<>>])
Without(entries, keys) == Among(entries, KeysOf(entries) \ keys)

\* saturating_sub
Minus(a, b) == IF a < b THEN 0 ELSE a - b

\* get: a hit becomes the most recent.
Touched(entries, key) == Among(entries, {key}) \o Without(entries, {key})

\* pop of every key in gone, with the bytes taken off the counter.
Popping(c, gone) ==
  [entries |-> Without(c.entries, gone), bytes |-> Minus(c.bytes, Total(Among(c.entries, gone)))]

\* pop_lru n times, with the bytes taken off the counter.
Dropping(c, n) ==
  LET kept == Len(c.entries) - n
  IN  [entries |-> SubSeq(c.entries, 1, kept),
       bytes |-> Minus(c.bytes, Total(SubSeq(c.entries, kept + 1, Len(c.entries))))]

\* pop_lru until there are at most so many bytes and entries, or none.
DroppingTo(c, bytes, room) ==
  LET Fits(d) == d.bytes <= bytes /\ Len(d.entries) <= room
      enough == {n \in 0..Len(c.entries) : n = Len(c.entries) \/ Fits(Dropping(c, n))}
  IN  Dropping(c, Min(enough))

\* The most recent of the entries that have room together: the reference for
\* what an eviction may keep.
Newest(entries, room, budget) ==
  LET fits == {n \in 0..Len(entries) : n <= room /\ Total(SubSeq(entries, 1, n)) <= budget}
  IN  SubSeq(entries, 1, Max(fits))
=============================================================================
