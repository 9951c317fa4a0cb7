------------------------- MODULE OpenDocumentsProofs -------------------------
(* What the operations of OpenDocuments return, whatever the entries are.     *)
EXTENDS OpenDocuments, SequenceTheorems, TLAPS

-----------------------------------------------------------------------------
(* Sequences *)

\* A function on 1..n is a sequence of length n.
LEMMA FunctionIsSeq ==
  ASSUME NEW S, NEW n \in Nat, NEW f \in [1..n -> S]
  PROVE  f \in Seq(S) /\ Len(f) = n
<1>1. f \in Seq(S)
  BY SeqDef
<1>2. DOMAIN f = 1..Len(f) /\ Len(f) \in Nat /\ DOMAIN f = 1..n
  BY <1>1, LenProperties
<1>. QED BY <1>1, <1>2

\* A sequence without its i-th element.
Removed(s, i) == SubSeq(s, 1, i - 1) \o SubSeq(s, i + 1, Len(s))

LEMMA RemovalType ==
  ASSUME NEW S, NEW s \in Seq(S), NEW i \in 1..Len(s)
  PROVE  Removed(s, i) \in Seq(S) /\ Len(Removed(s, i)) = Len(s) - 1
<1> DEFINE before == SubSeq(s, 1, i - 1)
           after == SubSeq(s, i + 1, Len(s))
<1>1. before \in Seq(S) /\ Len(before) = i - 1
  BY SubSeqProperties
<1>2. after \in Seq(S) /\ Len(after) = Len(s) - i
  BY SubSeqProperties
<1> HIDE DEF before, after
<1>3. before \o after \in Seq(S) /\ Len(before \o after) = Len(before) + Len(after)
  BY <1>1, <1>2, ConcatProperties
<1>4. before \o after \in Seq(S) /\ Len(before \o after) = Len(s) - 1
  BY <1>1, <1>2, <1>3
<1>. QED BY <1>4 DEF before, after, Removed

\* What stays where when one element is taken out of a sequence.
LEMMA RemovalElements ==
  ASSUME NEW S, NEW s \in Seq(S), NEW i \in 1..Len(s)
  PROVE  \A k \in 1..Len(s) - 1 : Removed(s, i)[k] = IF k < i THEN s[k] ELSE s[k + 1]
<1> DEFINE r == Removed(s, i)
           before == SubSeq(s, 1, i - 1)
           after == SubSeq(s, i + 1, Len(s))
<1>1. r \in Seq(S) /\ Len(r) = Len(s) - 1
  BY RemovalType
<1> HIDE DEF r
<1>2. /\ before \in Seq(S) /\ Len(before) = i - 1
      /\ \A k \in 1..(i - 1) : before[k] = s[k]
  BY SubSeqProperties
<1>3. /\ after \in Seq(S) /\ Len(after) = Len(s) - i
      /\ \A k \in 1..(Len(s) - i) : after[k] = s[k + i]
  BY SubSeqProperties
<1> HIDE DEF before, after
<1>4. /\ Len(r) = Len(before) + Len(after)
      /\ \A k \in 1..Len(r) : r[k] = IF k <= Len(before) THEN before[k]
                                    ELSE after[k - Len(before)]
  <2>1. r = before \o after
    BY DEF before, after, r, Removed
  <2>2. before \in Seq(S) /\ after \in Seq(S)
    BY <1>2, <1>3
  <2>3. Len(r) = Len(before) + Len(after)
    BY <2>1, <2>2, ConcatProperties
  <2>4. \A k \in 1..(Len(before) + Len(after)) :
           (before \o after)[k] = IF k <= Len(before) THEN before[k] ELSE after[k - Len(before)]
    BY <2>2, ConcatProperties, Zenon
  <2>. QED BY <2>1, <2>3, <2>4
<1>5. ASSUME NEW k \in 1..Len(r)
      PROVE  r[k] = IF k < i THEN s[k] ELSE s[k + 1]
  <2>1. CASE k < i
    <3>1. k \in 1..(i - 1) /\ k <= Len(before)
      BY <1>1, <1>2, <2>1
    <3>2. r[k] = before[k]
      BY <1>1, <1>4, <3>1
    <3>. QED BY <1>2, <2>1, <3>1, <3>2
  <2>2. CASE ~ (k < i)
    <3>1. k - (i - 1) \in 1..(Len(s) - i) /\ ~ (k <= Len(before))
      BY <1>1, <1>2, <2>2
    <3>2. r[k] = after[k - (i - 1)]
      BY <1>1, <1>2, <1>4, <3>1
    <3>3. after[k - (i - 1)] = s[(k - (i - 1)) + i]
      BY <1>3, <3>1
    <3>4. (k - (i - 1)) + i = k + 1
      OBVIOUS
    <3>. QED BY <2>2, <3>2, <3>3, <3>4
  <2>. QED BY <2>1, <2>2
<1>. QED BY <1>1, <1>5 DEF r

-----------------------------------------------------------------------------
(* The open-document LRU *)

\* The position an open document is found at.
LEMMA PositionType ==
  ASSUME NEW Entry, NEW docs \in Seq(Entry), NEW d, IsOpen(docs, d)
  PROVE  /\ (CHOOSE i \in DOMAIN docs : docs[i].doc = d) \in 1..Len(docs)
         /\ EntryOf(docs, d) \in Entry
         /\ EntryOf(docs, d).doc = d
BY DEF IsOpen, IndexOfDoc, EntryOf

\* Popping a document leaves a list of documents, one shorter if it was open.
LEMMA WithoutType ==
  ASSUME NEW Entry, NEW docs \in Seq(Entry), NEW d
  PROVE  /\ Without(docs, d) \in Seq(Entry)
         /\ Len(Without(docs, d)) = IF IsOpen(docs, d) THEN Len(docs) - 1 ELSE Len(docs)
<1>1. CASE ~ IsOpen(docs, d)
  BY <1>1 DEF Without
<1>2. CASE IsOpen(docs, d)
  <2> DEFINE i == CHOOSE i \in DOMAIN docs : docs[i].doc = d
  <2>1. i \in 1..Len(docs)
    BY <1>2, PositionType
  <2>2. Without(docs, d) = Removed(docs, i)
    BY <1>2 DEF Without, Removed
  <2> HIDE DEF i
  <2>. QED BY <1>2, <2>1, <2>2, RemovalType
<1>. QED BY <1>1, <1>2

\* Opening a document never makes the list longer than the LRU's capacity.
LEMMA PutType ==
  ASSUME NEW Entry, NEW docs \in Seq(Entry), NEW entry \in Entry, MaxOpenTabs \in Nat \ {0}
  PROVE  Put(docs, entry) \in Seq(Entry) /\ Len(Put(docs, entry)) <= MaxOpenTabs
<1> DEFINE rest == Without(docs, entry.doc)
           kept == IF Len(rest) < MaxOpenTabs THEN rest ELSE SubSeq(rest, 1, MaxOpenTabs - 1)
<1>1. rest \in Seq(Entry)
  BY WithoutType
<1>2. Put(docs, entry) = <<entry>> \o kept
  BY DEF Put
<1> HIDE DEF rest
<1>3. kept \in Seq(Entry) /\ Len(kept) <= MaxOpenTabs - 1
  BY <1>1, SubSeqProperties
<1>4. <<entry>> \in Seq(Entry) /\ Len(<<entry>>) = 1
  OBVIOUS
<1> HIDE DEF kept
<1>. QED BY <1>2, <1>3, <1>4, ConcatProperties

\* A lookup only reorders the list.
LEMMA TouchedType ==
  ASSUME NEW Entry, NEW docs \in Seq(Entry), NEW d
  PROVE  Touched(docs, d) \in Seq(Entry) /\ Len(Touched(docs, d)) = Len(docs)
<1>1. CASE ~ IsOpen(docs, d)
  BY <1>1 DEF Touched
<1>2. CASE IsOpen(docs, d)
  <2> DEFINE entry == EntryOf(docs, d)
  <2>0. entry \in Entry
    BY <1>2, PositionType
  <2> HIDE DEF entry
  <2>1. <<entry>> \in Seq(Entry) /\ Len(<<entry>>) = 1
    BY <2>0
  <2>2. Without(docs, d) \in Seq(Entry) /\ Len(Without(docs, d)) = Len(docs) - 1
    BY <1>2, WithoutType
  <2>3. Touched(docs, d) = <<entry>> \o Without(docs, d)
    BY <1>2 DEF Touched, entry
  <2>. QED BY <2>1, <2>2, <2>3, ConcatProperties
<1>. QED BY <1>1, <1>2
=============================================================================
