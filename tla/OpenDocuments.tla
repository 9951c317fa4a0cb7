--------------------------- MODULE OpenDocuments ---------------------------
(***************************************************************************)
(* The render worker's open documents: an LRU map of MAX_OPEN_TABS entries *)
(* (lru::LruCache in crates/barepdf-render/src/worker.rs), kept as a       *)
(* sequence with the most recently used entry first.  An entry is a record *)
(* whose field doc is the document id.                                     *)
(***************************************************************************)
EXTENDS Naturals, Sequences

CONSTANT MaxOpenTabs  \* capacity of the map

IndexOfDoc(docs, d) == {i \in DOMAIN docs : docs[i].doc = d}
IsOpen(docs, d) == IndexOfDoc(docs, d) # {}
EntryOf(docs, d) == docs[CHOOSE i \in DOMAIN docs : docs[i].doc = d]

\* pop: the document is dropped, which closes it.
Without(docs, d) ==
  IF IsOpen(docs, d)
  THEN LET i == CHOOSE i \in DOMAIN docs : docs[i].doc = d
       IN  SubSeq(docs, 1, i - 1) \o SubSeq(docs, i + 1, Len(docs))
  ELSE docs

\* get: a hit becomes the most recent.
Touched(docs, d) ==
  IF IsOpen(docs, d) THEN <<EntryOf(docs, d)>> \o Without(docs, d) ELSE docs

\* put: replaces the entry of the same id, else may push out the oldest one.
Put(docs, entry) ==
  LET rest == Without(docs, entry.doc)
  IN  <<entry>> \o (IF Len(rest) < MaxOpenTabs THEN rest ELSE SubSeq(rest, 1, MaxOpenTabs - 1))
=============================================================================
