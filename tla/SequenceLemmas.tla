--------------------------- MODULE SequenceLemmas ---------------------------
(***************************************************************************)
(* Induction and recursion over numbers, and what the recursive functions  *)
(* of the modules compute for every sequence: sequences put together       *)
(* (FlattenSeq), repeated, and put in another order.                       *)
(*                                                                         *)
(* The induction theorems of the library have the formula as an operator   *)
(* parameter.  Here the formula is a set of numbers, and what is defined   *)
(* by recursion steps by a function, so that every lemma is first-order.   *)
(***************************************************************************)
EXTENDS SequencesExt, Integers, WellFoundedInduction, SequenceTheorems, FiniteSetTheorems, TLAPS

-----------------------------------------------------------------------------
(* Induction and recursion *)

\* Every nonempty set of natural numbers has a least element.
LEMMA LeastExists ==
  ASSUME NEW T, T \subseteq Nat, T # {}
  PROVE  \E x \in T : \A y \in T : x <= y
<1> DEFINE R == OpToRel(<, Nat)
<1>1. IsWellFoundedOn(OpToRel(<, Nat), Nat)
  BY NatLessThanWellFounded
<1>2. PICK x \in T : \A y \in T : ~ (<<y, x>> \in R)
  <2>1. IsWellFoundedOn(R, Nat) BY <1>1 DEF R
  <2> HIDE DEF R
  <2>. QED BY <2>1, WFMin
<1>3. \A y \in T : ~ (y < x)
  BY <1>2 DEF OpToRel
<1>. QED BY <1>3

\* A set that has 0, and with every number the next one, has all of them.
LEMMA Induction ==
  ASSUME NEW S, 0 \in S, \A n \in Nat : n \in S => n + 1 \in S
  PROVE  \A n \in Nat : n \in S
<1> DEFINE T == {n \in Nat : n \notin S}
<1>1. SUFFICES ASSUME T # {} PROVE FALSE
  OBVIOUS
<1>2. PICK x \in T : \A y \in T : x <= y
  BY <1>1, LeastExists
<1>3. x \in Nat \ {0} /\ x \notin S
  OBVIOUS
<1>4. x - 1 \in Nat /\ x - 1 \in S
  BY <1>2, <1>3
<1>. QED BY <1>3, <1>4

\* The same up to a bound.
LEMMA BoundedInduction ==
  ASSUME NEW S, NEW m \in Nat, 0 \in S, \A n \in 0..m - 1 : n \in S => n + 1 \in S
  PROVE  \A n \in 0..m : n \in S
<1> DEFINE T == {n \in Nat : n <= m => n \in S}
<1>1. 0 \in T
  OBVIOUS
<1>2. \A n \in Nat : n \in T => n + 1 \in T
  OBVIOUS
<1> HIDE DEF T
<1>3. \A n \in Nat : n \in T
  BY <1>1, <1>2, Induction
<1>. QED BY <1>3 DEF T

\* From b on to m, the function F takes every number and value of V to a value.
StepsIn(V, b, m, F) == \A n \in b..m : n # b => \A v \in V : F[<<n, v>>] \in V

\* What begins with a and goes on by F.
Begins(f, b, m, a, F) == f[b] = a /\ \A n \in b..m : n # b => f[n] = F[<<n, f[n - 1]>>]

\* There is such a function, whatever number a is the value of.
LEMMA RecursionExists ==
  ASSUME NEW V, NEW b \in Nat, NEW m \in Nat, b <= m, NEW a \in V, NEW F, StepsIn(V, b, m, F)
  PROVE  \E f \in [b..m -> V] : Begins(f, b, m, a, F)
<1> DEFINE Solves(f, k) == f[b] = a /\ \A n \in b..k : n # b => f[n] = F[<<n, f[n - 1]>>]
           T == {k \in Nat : b + k <= m => \E f \in [b..b + k -> V] : Solves(f, b + k)}
<1>0. \A n \in b..m : n # b => \A v \in V : F[<<n, v>>] \in V
  BY DEF StepsIn
<1>1. 0 \in T
  <2>1. [n \in b..b |-> a] \in [b..b + 0 -> V] /\ Solves([n \in b..b |-> a], b + 0)
    OBVIOUS
  <2>. QED BY <2>1
<1>2. ASSUME NEW k \in Nat, k \in T PROVE k + 1 \in T
  <2>1. SUFFICES ASSUME b + (k + 1) <= m
                 PROVE  \E f \in [b..b + (k + 1) -> V] : Solves(f, b + (k + 1))
    <3> HIDE DEF Solves
    <3>. QED OBVIOUS
  <2>2. PICK f \in [b..b + k -> V] : Solves(f, b + k)
    BY <1>2, <2>1
  <2> DEFINE l == b + (k + 1)
             g == [n \in b..l |-> IF n = l THEN F[<<l, f[l - 1]>>] ELSE f[n]]
  <2>3. f[l - 1] \in V /\ l \in b..m /\ l # b
    BY <2>1
  <2>4. F[<<l, f[l - 1]>>] \in V
    BY <1>0, <2>3
  <2>5. g \in [b..l -> V]
    BY <2>4
  <2>6. g[b] = a /\ \A n \in b..l : n # b => g[n] = F[<<n, g[n - 1]>>]
    <3>1. \A n \in b..b + k : n \in b..l /\ n # l /\ g[n] = f[n]
      OBVIOUS
    <3>2. g[l] = F[<<l, f[l - 1]>>] /\ l - 1 \in b..b + k
      OBVIOUS
    <3> HIDE DEF g
    <3>3. ASSUME NEW n \in b..b + k, n # b PROVE g[n] = F[<<n, g[n - 1]>>]
      <4>2. n \in b..b + k /\ n - 1 \in b..b + k
        BY <3>3
      <4>3. g[n] = f[n] /\ g[n - 1] = f[n - 1]
        BY <4>2, <3>1
      <4>. QED BY <4>3, <2>2, <3>3
    <3>4. g[l] = F[<<l, g[l - 1]>>]
      BY <3>1, <3>2
    <3>5. b..l = (b..b + k) \cup {l} /\ b \in b..b + k
      OBVIOUS
    <3>. QED BY <3>1, <3>3, <3>4, <3>5, <2>2
  <2>. QED BY <2>5, <2>6
<1> HIDE DEF T
<1>3. m - b \in Nat /\ m - b \in T
  BY <1>1, <1>2, Induction
<1>. QED BY <1>3 DEF T, Begins

-----------------------------------------------------------------------------
(* Sequences *)

\* What the empty sequence has, and with every sequence a longer one.
LEMMA SequenceInduction ==
  ASSUME NEW S, NEW P, <<>> \in P,
         \A s \in Seq(S), e \in S : s \in P => Append(s, e) \in P
  PROVE  \A s \in Seq(S) : s \in P
<1> DEFINE T == {n \in Nat : \A s \in Seq(S) : Len(s) = n => s \in P}
<1>1. 0 \in T
  BY EmptySeq
<1>2. ASSUME NEW n \in Nat, n \in T PROVE n + 1 \in T
  <2>1. SUFFICES ASSUME NEW s \in Seq(S), Len(s) = n + 1 PROVE s \in P
    OBVIOUS
  <2> DEFINE front == SubSeq(s, 1, n)
  <2>2. s # <<>> /\ \A i \in 1..n + 1 : s[i] \in S
    BY <2>1
  <2>3. front \in Seq(S) /\ Len(front) = n /\ \A i \in 1..n : front[i] = s[i]
    BY <2>1, <2>2, SubSeqProperties
  <2> HIDE DEF front
  <2>4. front \in P /\ s[n + 1] \in S
    BY <2>2, <2>3, <1>2
  <2>5. s = Append(front, s[n + 1])
    <3>1. /\ Append(front, s[n + 1]) \in Seq(S) /\ Len(Append(front, s[n + 1])) = n + 1
          /\ \A i \in 1..n + 1 : Append(front, s[n + 1])[i] = s[i]
      BY <2>3, <2>4, AppendProperties
    <3>. QED BY <3>1, <2>1, SeqEqual
  <2>. QED BY <2>3, <2>4, <2>5
<1> HIDE DEF T
<1>3. \A n \in Nat : n \in T
  BY <1>1, <1>2, Induction
<1>. QED BY <1>3 DEF T

\* FlattenSeq puts the sequences together one after the other.
LEMMA FlattenSteps ==
  ASSUME NEW S, NEW ss \in Seq(Seq(S)), ss # <<>>
  PROVE  \E f \in [1..Len(ss) -> Seq(S)] :
           /\ f[1] = ss[1] /\ \A i \in 2..Len(ss) : f[i] = f[i - 1] \o ss[i]
           /\ FlattenSeq(ss) = f[Len(ss)]
<1> DEFINE m == Len(ss)
           F == [p \in (2..m) \X Seq(S) |-> p[2] \o ss[p[1]]]
           Is(f) == f = [i \in 1..m |-> IF i = 1 THEN ss[i] ELSE f[i - 1] \o ss[i]]
<1>1. m \in Nat \ {0} /\ \A i \in 1..m : ss[i] \in Seq(S)
  BY EmptySeq
<1> HIDE DEF m
<1>2. \A i \in 1..m : i # 1 => \A s \in Seq(S) : F[<<i, s>>] = s \o ss[i] /\ s \o ss[i] \in Seq(S)
  <2>1. \A i \in 1..m : i # 1 => i \in 2..m
    BY <1>1
  <2>. QED BY <1>1, <2>1, ConcatProperties
<1>3. PICK f \in [1..m -> Seq(S)] : f[1] = ss[1] /\ \A i \in 1..m : i # 1 => f[i] = F[<<i, f[i - 1]>>]
  <2>1. 1 \in Nat /\ m \in Nat /\ 1 <= m /\ ss[1] \in Seq(S)
    BY <1>1
  <2>2. \A i \in 1..m : i # 1 => \A s \in Seq(S) : F[<<i, s>>] \in Seq(S)
    BY <1>2
  <2> HIDE DEF F, Is
  <2>3. StepsIn(Seq(S), 1, m, F)
    BY <2>2 DEF StepsIn
  <2>4. \E f \in [1..m -> Seq(S)] : Begins(f, 1, m, ss[1], F)
    BY <2>1, <2>3, RecursionExists
  <2>. QED BY <2>4 DEF Begins
<1>4. Is(f)
  <2>1. \A i \in 2..m : f[i - 1] \in Seq(S)
    BY <1>1
  <2> HIDE DEF F
  <2>3. \A i \in 1..m : f[i] = IF i = 1 THEN ss[i] ELSE f[i - 1] \o ss[i]
    <3>1. TAKE i \in 1..m
    <3>2. i = 1 \/ i \in 2..m
      BY <1>1
    <3>. QED BY <1>2, <1>3, <2>1, <3>2
  <2>. QED BY <2>3
<1> DEFINE g == CHOOSE f_1 : Is(f_1)
<1>5. Is(g)
  BY <1>4
<1>6. FlattenSeq(ss) = g[m]
  BY <1>1 DEF FlattenSeq, m
<1> HIDE DEF g
<1>8. g[1] = ss[1] /\ \A i \in 2..m : g[i] = g[i - 1] \o ss[i]
  <2>1. \A i \in 1..m : g[i] = IF i = 1 THEN ss[i] ELSE g[i - 1] \o ss[i]
    BY <1>5
  <2>2. g[1] = ss[1]
    BY <1>1, <2>1
  <2>3. \A i \in 2..m : g[i] = g[i - 1] \o ss[i]
    <3>1. TAKE i \in 2..m
    <3>2. i \in 1..m /\ i # 1
      BY <1>1
    <3>. QED BY <2>1, <3>2
  <2>. QED BY <2>2, <2>3
<1>7. g \in [1..m -> Seq(S)]
  <2> DEFINE T == {i \in Nat : i + 1 \in 1..m => g[i + 1] \in Seq(S)}
  <2>1. 0 \in T
    BY <1>1, <1>5
  <2>2. ASSUME NEW i \in Nat, i \in T PROVE i + 1 \in T
    <3>1. SUFFICES ASSUME i + 2 \in 1..m PROVE g[i + 2] \in Seq(S)
      OBVIOUS
    <3>2. g[i + 1] \in Seq(S) /\ ss[i + 2] \in Seq(S)
      BY <2>2, <3>1, <1>1
    <3>3. g[i + 2] = g[i + 1] \o ss[i + 2]
      <4>1. i + 2 \in 2..m /\ (i + 2) - 1 = i + 1
        BY <3>1, <1>1
      <4>. QED BY <4>1, <1>8
    <3>. QED BY <3>2, <3>3, ConcatProperties
  <2> HIDE DEF T
  <2>3. \A i \in Nat : i \in T
    BY <2>1, <2>2, Induction
  <2>4. \A i \in 1..m : g[i] \in Seq(S)
    <3>1. TAKE i \in 1..m
    <3>2. i - 1 \in Nat /\ (i - 1) + 1 = i
      OBVIOUS
    <3>. QED BY <3>2, <2>3 DEF T
  <2>. QED BY <2>4, <1>5
<1>. QED BY <1>6, <1>7, <1>8 DEF m

\* Whatever steps like that ends in the same sequence.
LEMMA FlattenIs ==
  ASSUME NEW S, NEW ss \in Seq(Seq(S)), ss # <<>>, NEW f, f[1] = ss[1],
         \A i \in 2..Len(ss) : f[i] = f[i - 1] \o ss[i]
  PROVE  FlattenSeq(ss) = f[Len(ss)]
<1> DEFINE m == Len(ss)
<1>1. m \in Nat \ {0}
  BY EmptySeq
<1>2. PICK g \in [1..m -> Seq(S)] :
        /\ g[1] = ss[1] /\ \A i \in 2..m : g[i] = g[i - 1] \o ss[i]
        /\ FlattenSeq(ss) = g[m]
  BY FlattenSteps
<1> HIDE DEF m
<1> DEFINE T == {i \in Nat : i + 1 \in 1..m => f[i + 1] = g[i + 1]}
<1>3. 0 \in T
  BY <1>2
<1>4. ASSUME NEW i \in Nat, i \in T PROVE i + 1 \in T
  <2>1. SUFFICES ASSUME i + 2 \in 1..m PROVE f[i + 2] = g[i + 2]
    OBVIOUS
  <2>2. i + 2 \in 2..m /\ (i + 2) - 1 = i + 1 /\ i + 1 \in 1..m
    BY <1>1, <2>1
  <2>3. f[i + 1] = g[i + 1]
    BY <1>4, <2>2
  <2>. QED BY <1>2, <2>2, <2>3 DEF m
<1> HIDE DEF T
<1>5. \A i \in Nat : i \in T
  BY <1>3, <1>4, Induction
<1>6. m - 1 \in Nat /\ (m - 1) + 1 = m
  BY <1>1
<1>7. f[m] = g[m]
  <2>1. m - 1 \in T /\ (m - 1) + 1 \in 1..m
    BY <1>1, <1>5, <1>6
  <2>. QED BY <1>6, <2>1 DEF T
<1>. QED BY <1>2, <1>7 DEF m

LEMMA FlattenEmpty == FlattenSeq(<<>>) = <<>>
  BY DEF FlattenSeq

LEMMA FlattenType ==
  ASSUME NEW S, NEW ss \in Seq(Seq(S))
  PROVE  FlattenSeq(ss) \in Seq(S)
<1>1. CASE ss = <<>>
  BY <1>1, FlattenEmpty, EmptySeq
<1>2. CASE ss # <<>>
  <2>1. Len(ss) \in 1..Len(ss)
    BY <1>2, EmptySeq
  <2>2. PICK f \in [1..Len(ss) -> Seq(S)] : FlattenSeq(ss) = f[Len(ss)]
    BY <1>2, FlattenSteps
  <2>. QED BY <2>1, <2>2
<1>. QED BY <1>1, <1>2

LEMMA FlattenAppend ==
  ASSUME NEW S, NEW ss \in Seq(Seq(S)), NEW s \in Seq(S)
  PROVE  FlattenSeq(Append(ss, s)) = FlattenSeq(ss) \o s
<1> DEFINE tt == Append(ss, s)
           m == Len(ss)
<1>1. /\ tt \in Seq(Seq(S)) /\ Len(tt) = m + 1 /\ m \in Nat /\ tt # <<>>
      /\ \A i \in 1..m : tt[i] = ss[i]
      /\ tt[m + 1] = s
  BY AppendProperties, EmptySeq
<1> HIDE DEF tt, m
<1>2. PICK f \in [1..m + 1 -> Seq(S)] :
        /\ f[1] = tt[1] /\ \A i \in 2..m + 1 : f[i] = f[i - 1] \o tt[i]
        /\ FlattenSeq(tt) = f[m + 1]
  <2>1. \E f \in [1..Len(tt) -> Seq(S)] :
          /\ f[1] = tt[1] /\ \A i \in 2..Len(tt) : f[i] = f[i - 1] \o tt[i]
          /\ FlattenSeq(tt) = f[Len(tt)]
    BY <1>1, FlattenSteps
  <2>. QED BY <1>1, <2>1
<1>3. CASE m = 0
  <2>1. ss = <<>>
    BY <1>3, EmptySeq DEF m
  <2>. QED BY <1>1, <1>2, <1>3, <2>1, FlattenEmpty, ConcatEmptySeq DEF tt
<1>4. CASE m # 0
  <2>1. ss # <<>> /\ f[1] = ss[1]
    BY <1>1, <1>2, <1>4, EmptySeq DEF m
  <2>2. \A i \in 2..m : f[i] = f[i - 1] \o ss[i]
    <3>1. TAKE i \in 2..m
    <3>2. i \in 2..m + 1 /\ i \in 1..m
      BY <1>1
    <3>. QED BY <1>1, <1>2, <3>2
  <2>3. FlattenSeq(ss) = f[m]
    BY <2>1, <2>2, FlattenIs DEF m
  <2>4. m + 1 \in 2..m + 1 /\ (m + 1) - 1 = m
    BY <1>1, <1>4
  <2>. QED BY <1>1, <1>2, <2>3, <2>4 DEF tt
<1>. QED BY <1>3, <1>4

LEMMA FlattenTail ==
  ASSUME NEW S, NEW ss \in Seq(Seq(S)), ss # <<>>
  PROVE  FlattenSeq(ss) = Head(ss) \o FlattenSeq(Tail(ss))
<1> DEFINE P == {tt \in Seq(Seq(S)) : tt # <<>> => FlattenSeq(tt) = Head(tt) \o FlattenSeq(Tail(tt))}
<1>1. <<>> \in P
  BY EmptySeq
<1>2. ASSUME NEW tt \in Seq(Seq(S)), NEW s \in Seq(S), tt \in P
      PROVE  Append(tt, s) \in P
  <2> DEFINE uu == Append(tt, s)
  <2>1. uu \in Seq(Seq(S)) /\ uu # <<>>
    <3> DEFINE V == Seq(S)
    <3>1. tt \in Seq(V) /\ s \in V
      OBVIOUS
    <3> HIDE DEF P, V
    <3>2. uu \in Seq(V) /\ uu # <<>>
      BY <3>1, AppendProperties
    <3>. QED BY <3>2 DEF V
  <2>2. FlattenSeq(uu) = FlattenSeq(tt) \o s
    BY FlattenAppend
  <2>3. CASE tt = <<>>
    <3>1. Head(uu) = s /\ Tail(uu) = <<>>
      <4>1. uu = <<s>>
        BY <2>3
      <4>. QED BY <4>1
    <3>2. FlattenSeq(uu) = <<>> \o s /\ FlattenSeq(Tail(uu)) = <<>>
      BY <2>2, <2>3, <3>1, FlattenEmpty
    <3>. QED BY <2>1, <3>1, <3>2, ConcatEmptySeq
  <2>4. CASE tt # <<>>
    <3>1. Head(uu) = Head(tt) /\ Tail(uu) = Append(Tail(tt), s)
      BY <2>4, HeadTailAppend
    <3>2. Head(tt) \in Seq(S) /\ Tail(tt) \in Seq(Seq(S))
      BY <2>4, HeadTailProperties
    <3>3. FlattenSeq(tt) = Head(tt) \o FlattenSeq(Tail(tt)) /\ FlattenSeq(Tail(tt)) \in Seq(S)
      BY <1>2, <2>4, <3>2, FlattenType
    <3>4. FlattenSeq(Tail(uu)) = FlattenSeq(Tail(tt)) \o s
      BY <3>1, <3>2, FlattenAppend
    <3> DEFINE first == Head(tt)
               rest == FlattenSeq(Tail(tt))
    <3>5. (first \o rest) \o s = first \o (rest \o s)
      <4>1. first \in Seq(S) /\ rest \in Seq(S)
        BY <3>2, <3>3
      <4> HIDE DEF first, rest, P
      <4>. QED BY <4>1, ConcatAssociative
    <3>. QED BY <2>1, <2>2, <3>1, <3>3, <3>4, <3>5
  <2>. QED BY <2>3, <2>4
<1> HIDE DEF P
<1>3. \A tt \in Seq(Seq(S)) : tt \in P
  BY <1>1, <1>2, SequenceInduction
<1>. QED BY <1>3 DEF P

LEMMA FlattenConcat ==
  ASSUME NEW S, NEW ss \in Seq(Seq(S)), NEW tt \in Seq(Seq(S))
  PROVE  FlattenSeq(ss \o tt) = FlattenSeq(ss) \o FlattenSeq(tt)
<1> DEFINE P == {uu \in Seq(Seq(S)) : FlattenSeq(ss \o uu) = FlattenSeq(ss) \o FlattenSeq(uu)}
<1>0. FlattenSeq(ss) \in Seq(S)
  BY FlattenType
<1>1. <<>> \in P
  <2>1. ss \o <<>> = ss /\ FlattenSeq(ss) \o <<>> = FlattenSeq(ss)
    BY <1>0, ConcatEmptySeq
  <2>. QED BY <2>1, FlattenEmpty, EmptySeq
<1>2. ASSUME NEW uu \in Seq(Seq(S)), NEW s \in Seq(S), uu \in P
      PROVE  Append(uu, s) \in P
  <2>1. ss \o Append(uu, s) = Append(ss \o uu, s)
    <3>1. Append(uu, s) = uu \o <<s>> /\ <<s>> \in Seq(Seq(S))
      BY AppendIsConcat
    <3>2. ss \o uu \in Seq(Seq(S))
      BY ConcatProperties
    <3>3. Append(ss \o uu, s) = (ss \o uu) \o <<s>>
      BY <3>2, AppendIsConcat
    <3>. QED BY <3>1, <3>3, ConcatAssociative
  <2>2. Append(uu, s) \in Seq(Seq(S)) /\ ss \o uu \in Seq(Seq(S)) /\ FlattenSeq(uu) \in Seq(S)
    BY AppendProperties, ConcatProperties, FlattenType
  <2>3. FlattenSeq(Append(ss \o uu, s)) = FlattenSeq(ss \o uu) \o s
    BY <2>2, FlattenAppend
  <2>4. FlattenSeq(ss \o uu) = FlattenSeq(ss) \o FlattenSeq(uu)
    BY <1>2
  <2>5. (FlattenSeq(ss) \o FlattenSeq(uu)) \o s = FlattenSeq(ss) \o (FlattenSeq(uu) \o s)
    BY <1>0, <2>2, ConcatAssociative
  <2>6. FlattenSeq(Append(uu, s)) = FlattenSeq(uu) \o s
    BY FlattenAppend
  <2>. QED BY <2>1, <2>2, <2>3, <2>4, <2>5, <2>6
<1> HIDE DEF P
<1>3. \A uu \in Seq(Seq(S)) : uu \in P
  BY <1>1, <1>2, SequenceInduction
<1>. QED BY <1>3 DEF P

-----------------------------------------------------------------------------
(* The concatenation computed by a recursive function *)

IsUpTo(g, ss) == g = [n \in 0..Len(ss) |-> IF n = 0 THEN <<>> ELSE g[n - 1] \o ss[n]]

LEMMA UpToIs ==
  ASSUME NEW S, NEW ss \in Seq(Seq(S)), NEW g, IsUpTo(g, ss)
  PROVE  g[Len(ss)] = FlattenSeq(ss)
<1> DEFINE m == Len(ss)
<1>1. m \in Nat
  OBVIOUS
<1> HIDE DEF m
<1>2. g[0] = <<>> /\ \A n \in 1..m : g[n] = g[n - 1] \o ss[n]
  <2>1. g = [n \in 0..m |-> IF n = 0 THEN <<>> ELSE g[n - 1] \o ss[n]]
    BY DEF IsUpTo, m
  <2>2. 0 \in 0..m /\ \A n \in 1..m : n \in 0..m /\ n # 0
    BY <1>1
  <2>. QED BY <2>1, <2>2
<1>3. CASE ss = <<>>
  BY <1>2, <1>3, FlattenEmpty, EmptySeq DEF m
<1>4. CASE ss # <<>>
  <2>1. m \in Nat \ {0}
    BY <1>4, EmptySeq DEF m
  <2>2. g[1] = <<>> \o ss[1]
    <3>1. 1 \in 1..m /\ 1 - 1 = 0
      BY <2>1
    <3>. QED BY <1>2, <3>1
  <2>3. ss[1] \in Seq(S)
    BY <2>1 DEF m
  <2>4. g[1] = ss[1]
    BY <2>2, <2>3, ConcatEmptySeq
  <2>5. \A i \in 2..Len(ss) : g[i] = g[i - 1] \o ss[i]
    <3>1. \A i \in 2..Len(ss) : i \in 1..m
      BY <1>1 DEF m
    <3>. QED BY <1>2, <3>1
  <2>. QED BY <1>4, <2>4, <2>5, FlattenIs DEF m
<1>. QED BY <1>3, <1>4

LEMMA UpToExists ==
  ASSUME NEW S, NEW ss \in Seq(Seq(S))
  PROVE  \E g : IsUpTo(g, ss)
<1> DEFINE m == Len(ss)
<1>1. m \in Nat
  OBVIOUS
<1>2. CASE ss = <<>>
  <2> DEFINE g == [n \in 0..0 |-> <<>>]
  <2>1. g = [n \in 0..0 |-> IF n = 0 THEN <<>> ELSE g[n - 1] \o ss[n]]
    OBVIOUS
  <2>2. Len(ss) = 0
    BY <1>2
  <2>. QED BY <2>1, <2>2 DEF IsUpTo
<1>3. CASE ss # <<>>
  <2>1. PICK f \in [1..m -> Seq(S)] : f[1] = ss[1] /\ \A i \in 2..m : f[i] = f[i - 1] \o ss[i]
    BY <1>3, FlattenSteps
  <2> DEFINE g == [n \in 0..m |-> IF n = 0 THEN <<>> ELSE f[n]]
  <2>2. m # 0
    BY <1>3, EmptySeq
  <2>0. ss[1] \in Seq(S)
    BY <1>1, <2>2
  <2> HIDE DEF m
  <2>3. \A n \in 0..m : g[n] = IF n = 0 THEN <<>> ELSE g[n - 1] \o ss[n]
    <3>1. g[0] = <<>>
      BY <1>1
    <3>2. g[1] = g[0] \o ss[1]
      BY <1>1, <2>0, <2>1, <2>2, ConcatEmptySeq
    <3>3. \A n \in 2..m : g[n] = g[n - 1] \o ss[n]
      <4>1. \A n \in 2..m : n \in 0..m /\ n - 1 \in 0..m /\ n # 0 /\ n - 1 # 0
        BY <1>1
      <4>2. \A n \in 2..m : g[n] = f[n] /\ g[n - 1] = f[n - 1]
        BY <4>1
      <4> HIDE DEF g
      <4>. QED BY <2>1, <4>2
    <3> HIDE DEF g
    <3>4. ASSUME NEW n \in 0..m
          PROVE  g[n] = IF n = 0 THEN <<>> ELSE g[n - 1] \o ss[n]
      <4>1. n = 0 \/ n = 1 \/ n \in 2..m
        BY <1>1
      <4>2. CASE n = 0
        BY <3>1, <4>2
      <4>3. CASE n = 1
        <5>1. n - 1 = 0 /\ n # 0
          BY <4>3
        <5>. QED BY <3>2, <4>3, <5>1
      <4>4. CASE n \in 2..m
        <5>1. n # 0
          BY <1>1, <4>4
        <5>. QED BY <3>3, <4>4, <5>1
      <4>. QED BY <4>1, <4>2, <4>3, <4>4
    <3>. QED BY <3>4
  <2>4. g = [n \in 0..m |-> g[n]]
    OBVIOUS
  <2> HIDE DEF g
  <2>5. g = [n \in 0..m |-> IF n = 0 THEN <<>> ELSE g[n - 1] \o ss[n]]
    BY <2>3, <2>4
  <2>. QED BY <2>5 DEF IsUpTo, m
<1>. QED BY <1>2, <1>3

-----------------------------------------------------------------------------
(* Sequences repeated *)

\* Division with remainder is unique.
LEMMA RemainderIs ==
  ASSUME NEW L \in Nat \ {0}, NEW p \in Nat, NEW r \in Nat, r < L
  PROVE  (L * p + r) % L = r
<1> DEFINE y == L * p + r
           q == y \div L
           s == y % L
<1>1. y \in Nat
  OBVIOUS
<1> HIDE DEF y
<1>2. q \in Nat /\ s \in 0..L-1 /\ y = L * q + s
  BY <1>1
<1> HIDE DEF q, s
<1>3. L * p + r = L * q + s
  BY <1>2 DEF y
<1>4. ASSUME p < q PROVE FALSE
  <2>1. PICK d \in Nat : q = p + 1 + d
    <3>1. q - p - 1 \in Nat /\ q = p + 1 + (q - p - 1)
      BY <1>2, <1>4
    <3>. QED BY <3>1
  <2>2. L * q = L * p + L + L * d
    BY <1>2, <2>1
  <2>3. L * d \in Nat /\ L * p \in Nat /\ L * q \in Nat
    BY <1>2, <2>1
  <2>. QED BY <1>2, <1>3, <2>2, <2>3
<1>5. ASSUME q < p PROVE FALSE
  <2>1. PICK d \in Nat : p = q + 1 + d
    <3>1. p - q - 1 \in Nat /\ p = q + 1 + (p - q - 1)
      BY <1>2, <1>5
    <3>. QED BY <3>1
  <2>2. L * p = L * q + L + L * d
    BY <1>2, <2>1
  <2>3. L * d \in Nat /\ L * p \in Nat /\ L * q \in Nat
    BY <1>2, <2>1
  <2>. QED BY <1>2, <1>3, <2>2, <2>3
<1>6. p = q
  BY <1>2, <1>4, <1>5
<1>7. s = r
  <2>1. L * p \in Nat
    OBVIOUS
  <2>. QED BY <1>2, <1>3, <1>6, <2>1
<1>. QED BY <1>7 DEF s, y

\* The first n elements of s repeated without end.
Repeated(s, n) == [i \in 1..n |-> s[((i - 1) % Len(s)) + 1]]

LEMMA RepeatedType ==
  ASSUME NEW S, NEW s \in Seq(S), s # <<>>, NEW n \in Nat
  PROVE  /\ Repeated(s, n) \in Seq(S) /\ Len(Repeated(s, n)) = n
         /\ s[(n % Len(s)) + 1] \in S
<1>1. Len(s) \in Nat \ {0}
  BY EmptySeq
<1>2. ASSUME NEW m \in Nat PROVE (m % Len(s)) + 1 \in 1..Len(s)
  BY <1>1
<1>3. ASSUME NEW i \in 1..n PROVE s[((i - 1) % Len(s)) + 1] \in S
  <2>1. i - 1 \in Nat
    OBVIOUS
  <2>2. ((i - 1) % Len(s)) + 1 \in 1..Len(s)
    BY <1>2, <2>1
  <2>. QED BY <2>1
<1>4. s[(n % Len(s)) + 1] \in S
  <2>1. (n % Len(s)) + 1 \in 1..Len(s)
    BY <1>2
  <2>. QED BY <2>1
<1>. QED BY <1>3, <1>4 DEF Repeated

LEMMA RepeatedNext ==
  ASSUME NEW S, NEW s \in Seq(S), s # <<>>, NEW n \in Nat
  PROVE  Append(Repeated(s, n), s[(n % Len(s)) + 1]) = Repeated(s, n + 1)
<1> DEFINE r == Repeated(s, n)
           x == s[(n % Len(s)) + 1]
           t == Repeated(s, n + 1)
<1>1. r \in Seq(S) /\ Len(r) = n /\ x \in S /\ t \in Seq(S) /\ Len(t) = n + 1
  <2>1. \A m \in Nat : /\ Repeated(s, m) \in Seq(S) /\ Len(Repeated(s, m)) = m
                       /\ s[(m % Len(s)) + 1] \in S
    BY RepeatedType
  <2>2. n + 1 \in Nat
    OBVIOUS
  <2>. QED BY <2>1, <2>2
<1>2. \A i \in 1..n : r[i] = t[i]
  BY DEF Repeated
<1>3. t[n + 1] = x
  BY DEF Repeated
<1> HIDE DEF r, x, t
<1>4. /\ Append(r, x) \in Seq(S) /\ Len(Append(r, x)) = n + 1
      /\ \A i \in 1..n : Append(r, x)[i] = r[i]
      /\ Append(r, x)[n + 1] = x
  BY <1>1, AppendProperties
<1>5. \A i \in 1..n + 1 : i \in 1..n \/ i = n + 1
  OBVIOUS
<1>6. \A i \in 1..n + 1 : Append(r, x)[i] = t[i]
  BY <1>2, <1>3, <1>4, <1>5
<1>7. Append(r, x) = t
  BY <1>1, <1>4, <1>6, SeqEqual
<1>. QED BY <1>7 DEF r, x, t

\* So many copies of s, one after the other.
LEMMA RepeatedIs ==
  ASSUME NEW S, NEW s \in Seq(S), s # <<>>, NEW k \in Nat
  PROVE  FlattenSeq([c \in 1..k |-> s]) = Repeated(s, Len(s) * k)
<1> DEFINE L == Len(s)
           All(n) == [c \in 1..n |-> s]
           T == {n \in Nat : FlattenSeq(All(n)) = Repeated(s, L * n)}
<1>1. L \in Nat \ {0} /\ \A i \in 1..L : s[i] \in S
  BY EmptySeq
<1>2. 0 \in T
  <2>1. All(0) = <<>> /\ L * 0 = 0
    BY <1>1
  <2>2. Repeated(s, 0) = <<>>
    BY DEF Repeated
  <2>. QED BY <2>1, <2>2, FlattenEmpty
<1>3. ASSUME NEW n \in Nat, n \in T PROVE n + 1 \in T
  <2> DEFINE N == L * n
             r == Repeated(s, N)
             t == Repeated(s, L * (n + 1))
  <2>1. N \in Nat /\ L * (n + 1) = N + L
    BY <1>1
  <2>2. All(n + 1) = Append(All(n), s) /\ All(n) \in Seq(Seq(S))
    <3>1. All(n) \in Seq(Seq(S)) /\ All(n + 1) \in Seq(Seq(S)) /\ Len(All(n)) = n /\ Len(All(n + 1)) = n + 1
      OBVIOUS
    <3>2. /\ Append(All(n), s) \in Seq(Seq(S)) /\ Len(Append(All(n), s)) = n + 1
          /\ \A i \in 1..n : Append(All(n), s)[i] = All(n)[i]
          /\ Append(All(n), s)[n + 1] = s
      BY <3>1, AppendProperties
    <3>3. \A i \in 1..n + 1 : Append(All(n), s)[i] = All(n + 1)[i]
      BY <3>2
    <3>. QED BY <3>1, <3>2, <3>3, SeqEqual
  <2> HIDE DEF All
  <2>3. FlattenSeq(All(n + 1)) = r \o s
    BY <1>3, <2>2, FlattenAppend
  <2>4. r \in Seq(S) /\ Len(r) = N /\ t \in Seq(S) /\ Len(t) = N + L
    <3>1. \A m \in Nat : Repeated(s, m) \in Seq(S) /\ Len(Repeated(s, m)) = m
      BY RepeatedType
    <3>2. N \in Nat /\ L * (n + 1) = N + L /\ N + L \in Nat
      BY <1>1, <2>1
    <3>. QED BY <3>1, <3>2
  <2>5. \A i \in 1..N : r[i] = t[i]
    BY <1>1, <2>1 DEF Repeated
  <2>6. ASSUME NEW j \in 1..L PROVE t[N + j] = s[j]
    <3>1. (L * n + (j - 1)) % L = j - 1
      <4>1. j - 1 \in Nat /\ j - 1 < L
        BY <1>1
      <4>. QED BY <1>1, <4>1, RemainderIs
    <3>2. N + j \in 1..(N + L) /\ (N + j) - 1 = L * n + (j - 1)
      BY <1>1, <2>1
    <3> HIDE DEF N
    <3>3. t[N + j] = s[(((N + j) - 1) % L) + 1]
      BY <2>1, <3>2 DEF Repeated
    <3>. QED BY <1>1, <3>1, <3>2, <3>3
  <2> HIDE DEF r, t, N, L
  <2>7. /\ r \o s \in Seq(S) /\ Len(r \o s) = N + L
        /\ \A i \in 1..N + L : (r \o s)[i] = IF i <= N THEN r[i] ELSE s[i - N]
    BY <2>4, ConcatProperties DEF L
  <2>8. ASSUME NEW i \in 1..N + L PROVE (r \o s)[i] = t[i]
    <3>1. CASE i <= N
      BY <2>1, <2>5, <2>7, <3>1
    <3>2. CASE i > N
      <4>1. i - N \in 1..L /\ N + (i - N) = i
        BY <1>1, <2>1, <3>2
      <4>. QED BY <1>1, <2>1, <2>6, <2>7, <3>2, <4>1
    <3>3. i <= N \/ i > N
      BY <1>1, <2>1
    <3>. QED BY <3>1, <3>2, <3>3
  <2>9. r \o s = t
    BY <2>4, <2>7, <2>8, SeqEqual
  <2>. QED BY <2>3, <2>9 DEF t
<1> HIDE DEF T
<1>4. k \in T
  BY <1>2, <1>3, Induction
<1>. QED BY <1>4 DEF T

-----------------------------------------------------------------------------
(* Sequences put in another order *)

\* Without its element at i.
LEMMA RemoveAtIs ==
  ASSUME NEW S, NEW s \in Seq(S), NEW i \in 1..Len(s)
  PROVE  /\ RemoveAt(s, i) \in Seq(S) /\ Len(RemoveAt(s, i)) = Len(s) - 1
         /\ \A k \in 1..Len(s) - 1 : RemoveAt(s, i)[k] = IF k < i THEN s[k] ELSE s[k + 1]
<1> DEFINE a == SubSeq(s, 1, i - 1)
           b == SubSeq(s, i + 1, Len(s))
<1>1. /\ a \in Seq(S) /\ Len(a) = i - 1 /\ \A k \in 1..i - 1 : a[k] = s[k]
      /\ b \in Seq(S) /\ Len(b) = Len(s) - i /\ \A k \in 1..Len(s) - i : b[k] = s[i + k]
  OBVIOUS
<1>2. RemoveAt(s, i) = a \o b
  BY DEF RemoveAt
<1> HIDE DEF a, b
<1>3. /\ a \o b \in Seq(S) /\ Len(a \o b) = Len(s) - 1
      /\ \A k \in 1..Len(s) - 1 : (a \o b)[k] = IF k <= i - 1 THEN a[k] ELSE b[k - (i - 1)]
  <2>1. /\ a \o b \in Seq(S) /\ Len(a \o b) = Len(a) + Len(b)
        /\ \A k \in 1..Len(a) + Len(b) : (a \o b)[k] = IF k <= Len(a) THEN a[k] ELSE b[k - Len(a)]
    BY <1>1, ConcatProperties
  <2>2. Len(a) + Len(b) = Len(s) - 1
    BY <1>1
  <2>. QED BY <1>1, <2>1, <2>2
<1>4. ASSUME NEW k \in 1..Len(s) - 1 PROVE (a \o b)[k] = IF k < i THEN s[k] ELSE s[k + 1]
  <2>1. CASE k < i
    BY <1>1, <1>3, <2>1
  <2>2. CASE k >= i
    <3>1. k - (i - 1) \in 1..Len(s) - i /\ i + (k - (i - 1)) = k + 1
      BY <2>2
    <3>2. b[k - (i - 1)] = s[k + 1]
      BY <1>1, <3>1
    <3>3. ~ k <= i - 1 /\ ~ k < i
      BY <2>2
    <3>. QED BY <1>3, <3>2, <3>3
  <2>3. k < i \/ k >= i
    OBVIOUS
  <2>. QED BY <2>1, <2>2, <2>3
<1>. QED BY <1>2, <1>3, <1>4

\* With e at i, and what was there behind it.
Inserted(t, s, i, e) ==
  /\ Len(t) = Len(s) + 1
  /\ \A k \in 1..Len(s) + 1 : t[k] = IF k < i THEN s[k] ELSE IF k = i THEN e ELSE s[k - 1]

LEMMA InsertAtIs ==
  ASSUME NEW S, NEW s \in Seq(S), NEW i \in 1..Len(s) + 1, NEW e \in S
  PROVE  InsertAt(s, i, e) \in Seq(S) /\ Inserted(InsertAt(s, i, e), s, i, e)
<1> DEFINE a == SubSeq(s, 1, i - 1)
           b == SubSeq(s, i, Len(s))
<1>1. /\ a \in Seq(S) /\ Len(a) = i - 1 /\ \A k \in 1..i - 1 : a[k] = s[k]
      /\ b \in Seq(S) /\ Len(b) = Len(s) - i + 1
      /\ \A k \in 1..Len(s) - i + 1 : b[k] = s[i + k - 1]
  OBVIOUS
<1>2. InsertAt(s, i, e) = (a \o <<e>>) \o b
  BY DEF InsertAt
<1> HIDE DEF a, b
<1> DEFINE d == a \o <<e>>
<1>3. d \in Seq(S) /\ Len(d) = i /\ d[i] = e /\ \A k \in 1..i - 1 : d[k] = s[k]
  <2>1. d = Append(a, e)
    BY <1>1
  <2> HIDE DEF d
  <2>. QED BY <1>1, <2>1
<1> HIDE DEF d
<1>4. /\ d \o b \in Seq(S) /\ Len(d \o b) = Len(s) + 1
      /\ \A k \in 1..Len(s) + 1 : (d \o b)[k] = IF k <= i THEN d[k] ELSE b[k - i]
  <2>1. /\ d \o b \in Seq(S) /\ Len(d \o b) = Len(d) + Len(b)
        /\ \A k \in 1..Len(d) + Len(b) : (d \o b)[k] = IF k <= Len(d) THEN d[k] ELSE b[k - Len(d)]
    BY <1>1, <1>3, ConcatProperties
  <2>2. Len(d) + Len(b) = Len(s) + 1
    BY <1>1, <1>3
  <2>. QED BY <1>1, <1>3, <2>1, <2>2
<1>5. ASSUME NEW k \in 1..Len(s) + 1
      PROVE  (d \o b)[k] = IF k < i THEN s[k] ELSE IF k = i THEN e ELSE s[k - 1]
  <2>1. CASE k <= i
    BY <1>3, <1>4, <2>1
  <2>2. CASE k > i
    <3>1. k - i \in 1..Len(s) - i + 1 /\ i + (k - i) - 1 = k - 1
      BY <2>2
    <3>2. b[k - i] = s[k - 1]
      BY <1>1, <3>1
    <3>3. ~ k <= i /\ ~ k < i /\ k # i
      BY <2>2
    <3>. QED BY <1>4, <3>2, <3>3
  <2>3. k <= i \/ k > i
    OBVIOUS
  <2>. QED BY <2>1, <2>2, <2>3
<1>6. InsertAt(s, i, e) = d \o b
  BY <1>2 DEF d
<1>. QED BY <1>4, <1>5, <1>6 DEF Inserted

\* Where the elements of t come from in s, and each of s is somewhere in t.
Permutes(t, s, p) ==
  /\ p \in [1..Len(s) -> 1..Len(s)] /\ Len(t) = Len(s)
  /\ \A k \in 1..Len(s) : t[k] = s[p[k]]
  /\ \A k, l \in 1..Len(s) : p[k] = p[l] => k = l
  /\ \A k \in 1..Len(s) : \E l \in 1..Len(s) : p[l] = k

LEMMA SwapPermutes ==
  ASSUME NEW S, NEW s \in Seq(S), NEW i \in 1..Len(s), NEW j \in 1..Len(s), i # j
  PROVE  LET t == [s EXCEPT ![i] = s[j], ![j] = s[i]]
         IN  t \in Seq(S) /\ t[j] = s[i] /\ \E p : Permutes(t, s, p)
<1> DEFINE t == [s EXCEPT ![i] = s[j], ![j] = s[i]]
           p == [k \in 1..Len(s) |-> IF k = i THEN j ELSE IF k = j THEN i ELSE k]
<1>1. t \in Seq(S) /\ Len(t) = Len(s) /\ \A k \in 1..Len(s) : t[k] = s[p[k]]
  OBVIOUS
<1>2. \A k \in 1..Len(s) : p[k] \in 1..Len(s) /\ p[p[k]] = k
  OBVIOUS
<1>3. p \in [1..Len(s) -> 1..Len(s)] /\ p[j] = i
  OBVIOUS
<1> HIDE DEF t, p
<1>4. Permutes(t, s, p)
  BY <1>1, <1>2, <1>3 DEF Permutes
<1>. QED BY <1>1, <1>3, <1>4 DEF t

LEMMA MovePermutes ==
  ASSUME NEW S, NEW s \in Seq(S), NEW i \in 1..Len(s), NEW j \in 1..Len(s)
  PROVE  LET t == InsertAt(RemoveAt(s, i), j, s[i])
         IN  t \in Seq(S) /\ t[j] = s[i] /\ \E p : Permutes(t, s, p)
<1> DEFINE n == Len(s)
           u == RemoveAt(s, i)
           t == InsertAt(u, j, s[i])
           left == [k \in 1..n |-> IF k < i THEN k ELSE k + 1]
           p == [k \in 1..n |-> IF k < j THEN left[k] ELSE IF k = j THEN i ELSE left[k - 1]]
           back == [k \in 1..n |-> IF k < i THEN k ELSE k - 1]
           q == [k \in 1..n |-> IF k = i THEN j ELSE IF back[k] < j THEN back[k] ELSE back[k] + 1]
<1>0. n \in Nat /\ s[i] \in S
  OBVIOUS
<1>1. u \in Seq(S) /\ Len(u) = n - 1 /\ \A k \in 1..n - 1 : u[k] = s[left[k]]
  BY RemoveAtIs
<1> HIDE DEF u
<1>2. /\ t \in Seq(S) /\ Len(t) = n
      /\ \A k \in 1..n : t[k] = IF k < j THEN u[k] ELSE IF k = j THEN s[i] ELSE u[k - 1]
  <2>1. j \in 1..Len(u) + 1 /\ Len(u) + 1 = n
    BY <1>0, <1>1
  <2> HIDE DEF n
  <2>2. /\ t \in Seq(S) /\ Len(t) = Len(u) + 1
        /\ \A k \in 1..Len(u) + 1 : t[k] = IF k < j THEN u[k] ELSE IF k = j THEN s[i] ELSE u[k - 1]
    <3>1. u \in Seq(S) /\ j \in 1..Len(u) + 1
      BY <1>1, <2>1
    <3>2. \A e \in S : InsertAt(u, j, e) \in Seq(S) /\ Inserted(InsertAt(u, j, e), u, j, e)
      BY <3>1, InsertAtIs
    <3>. QED BY <1>0, <3>2 DEF Inserted
  <2>. QED BY <2>1, <2>2
<1> HIDE DEF t
<1>3. \A k \in 1..n : t[k] = s[p[k]]
  <2> SUFFICES ASSUME NEW k \in 1..n PROVE t[k] = s[p[k]]
    OBVIOUS
  <2>1. CASE k < j
    <3>1. k \in 1..n - 1 /\ p[k] = left[k]
      BY <1>0, <2>1
    <3>. QED BY <1>1, <1>2, <2>1, <3>1
  <2>2. CASE k = j
    BY <1>2, <2>2
  <2>3. CASE k > j
    <3>1. k - 1 \in 1..n - 1 /\ p[k] = left[k - 1]
      BY <1>0, <2>3
    <3>2. u[k - 1] = s[left[k - 1]]
      BY <1>1, <3>1
    <3>3. ~ k < j /\ k # j
      BY <2>3
    <3>. QED BY <1>2, <3>1, <3>2, <3>3
  <2>. QED BY <2>1, <2>2, <2>3
<1>4. \A k \in 1..n : p[k] \in 1..n /\ q[k] \in 1..n /\ q[p[k]] = k /\ p[q[k]] = k
  <2>. QED BY <1>0
<1>5. p \in [1..n -> 1..n]
  <2>1. p = [k \in 1..n |-> p[k]]
    OBVIOUS
  <2> HIDE DEF p
  <2>. QED BY <1>4, <2>1
<1> HIDE DEF p, q, n
<1>6. Permutes(t, s, p)
  <2>1. n = Len(s) /\ \A k, l \in 1..n : p[k] = p[l] => k = l
    BY <1>4 DEF n
  <2>2. \A k \in 1..n : \E l \in 1..n : p[l] = k
    BY <1>4
  <2>. QED BY <1>2, <1>3, <1>5, <2>1, <2>2 DEF Permutes
<1>7. t[j] = s[i]
  BY <1>0, <1>2 DEF n
<1>. QED BY <1>2, <1>6, <1>7 DEF t, u

\* As many different elements as the sequence is long.
LEMMA DistinctCardinality ==
  ASSUME NEW S, NEW s \in Seq(S), \A i, j \in 1..Len(s) : s[i] = s[j] => i = j
  PROVE  Cardinality({s[i] : i \in 1..Len(s)}) = Len(s)
<1> DEFINE T == {s[i] : i \in 1..Len(s)}
           f == [i \in 1..Len(s) |-> s[i]]
<1>1. f \in [1..Len(s) -> T]
  OBVIOUS
<1>2. \A t \in T : \E i \in 1..Len(s) : f[i] = t
  OBVIOUS
<1>3. f \in Surjection(1..Len(s), T)
  BY <1>1, <1>2 DEF Surjection
<1>4. f \in Injection(1..Len(s), T)
  BY <1>1 DEF Injection, IsInjective
<1>5. IsFiniteSet(1..Len(s)) /\ Cardinality(1..Len(s)) = Len(s)
  <2>1. 1 \in Int /\ Len(s) \in Nat
    OBVIOUS
  <2> HIDE DEF f, T
  <2>2. IsFiniteSet(1..Len(s)) /\ Cardinality(1..Len(s)) = IF 1 > Len(s) THEN 0 ELSE Len(s) - 1 + 1
    BY <2>1, FS_Interval
  <2>. QED BY <2>1, <2>2
<1> HIDE DEF f, T
<1>6. Cardinality(T) = Cardinality(1..Len(s))
  BY <1>3, <1>4, <1>5, FS_Surjection
<1>. QED BY <1>5, <1>6 DEF T
=============================================================================
