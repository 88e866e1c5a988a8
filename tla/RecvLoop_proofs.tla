-------------------------- MODULE RecvLoop_proofs ---------------------------
(* Theorems about jnet_read_request's receiving half, for messages of any  *)
(* length over any bytes, buffers of any size and any timeout.             *)
EXTENDS RecvLoop, SequenceTheorems, WellFoundedInduction, TLAPS

\* Induction over the naturals, for a property given as the set of what has it.
LEMMA NatSet ==
  ASSUME NEW T \in SUBSET Nat, 0 \in T, \A n \in T : n + 1 \in T
  PROVE  T = Nat
<1> SUFFICES ASSUME Nat \ T # {} PROVE FALSE
  OBVIOUS
<1>0. IsWellFoundedOn(OpToRel(<,Nat), Nat)
  BY NatLessThanWellFounded
<1>1. PICK x \in Nat \ T : \A y \in Nat \ T : <<y, x>> \notin OpToRel(<,Nat)
  BY <1>0, WFMin, Zenon
<1>2. x # 0 /\ x - 1 \in Nat /\ x - 1 \notin T
  OBVIOUS
<1>3. <<x - 1, x>> \in OpToRel(<,Nat)
  BY <1>2 DEF OpToRel
<1> QED
  BY <1>1, <1>2, <1>3

\* f holds, at each i up to n, the concatenation of the first i members of ss.
Flattens(f, ss, n) ==
  \A i \in 1..n : f[i] = IF i = 1 THEN ss[i] ELSE f[i - 1] \o ss[i]

\* What such a function is at one place.
LEMMA FlattensAt ==
  ASSUME NEW f, NEW ss, NEW n, Flattens(f, ss, n), NEW i \in 1..n
  PROVE  f[i] = IF i = 1 THEN ss[i] ELSE f[i - 1] \o ss[i]
BY Zenon DEF Flattens

\* Such a function exists.
LEMMA FlattensExists ==
  ASSUME NEW S, NEW ss \in Seq(Seq(S)), NEW n \in 0..Len(ss)
  PROVE  \E f \in [1..n -> Seq(S)] : Flattens(f, ss, n)
<1> DEFINE T == {m \in Nat : m <= Len(ss) => \E f \in [1..m -> Seq(S)] : Flattens(f, ss, m)}
<1>0. \A i \in 1..Len(ss) : ss[i] \in Seq(S)
  OBVIOUS
<1>1. 0 \in T
  <2>1. [i \in 1..0 |-> <<>>] \in [1..0 -> Seq(S)]
    OBVIOUS
  <2>2. Flattens([i \in 1..0 |-> <<>>], ss, 0)
    BY DEF Flattens
  <2> QED  BY <2>1, <2>2
<1>2. ASSUME NEW m \in T PROVE m + 1 \in T
  <2> SUFFICES ASSUME m + 1 <= Len(ss)
               PROVE  \E g \in [1..m + 1 -> Seq(S)] : Flattens(g, ss, m + 1)
    OBVIOUS
  <2>0. m \in Nat /\ Len(ss) \in Nat
    OBVIOUS
  <2>1. PICK f \in [1..m -> Seq(S)] : Flattens(f, ss, m)
    BY <2>0
  <2> DEFINE x == IF m = 0 THEN ss[1] ELSE f[m] \o ss[m + 1]
             g == [i \in 1..m + 1 |-> IF i = m + 1 THEN x ELSE f[i]]
  <2>2. x \in Seq(S)
    <3>1. CASE m = 0  BY <3>1, <1>0, <2>0
    <3>2. CASE m # 0
      <4>1. f[m] \in Seq(S) /\ ss[m + 1] \in Seq(S)
        BY <3>2, <1>0, <2>0
      <4> QED  BY <4>1, <3>2, ConcatProperties
    <3> QED  BY <3>1, <3>2
  <2> HIDE DEF x
  <2>3. g \in [1..m + 1 -> Seq(S)]
    BY <2>0, <2>2
  <2>4. ASSUME NEW i \in 1..m + 1
        PROVE  g[i] = IF i = 1 THEN ss[i] ELSE g[i - 1] \o ss[i]
    <3>1. CASE i = m + 1
      <4>1. CASE m = 0  BY <3>1, <4>1 DEF x
      <4>2. CASE m # 0
        <5>1. g[i - 1] = f[m]
          BY <3>1, <4>2, <2>0
        <5>2. g[i] = f[m] \o ss[m + 1]
          BY <3>1, <4>2, <2>0 DEF x
        <5>3. i # 1
          BY <3>1, <4>2, <2>0
        <5> QED  BY <5>1, <5>2, <5>3, <3>1
      <4> QED  BY <4>1, <4>2
    <3>2. CASE i # m + 1
      <4>1. i \in 1..m /\ g[i] = f[i]
        BY <3>2, <2>0
      <4>2. f[i] = IF i = 1 THEN ss[i] ELSE f[i - 1] \o ss[i]
        BY <4>1, <2>1 DEF Flattens
      <4>3. i # 1 => g[i - 1] = f[i - 1]
        BY <4>1, <2>0
      <4> QED  BY <4>1, <4>2, <4>3
    <3> QED  BY <3>1, <3>2
  <2> HIDE DEF g
  <2>5. Flattens(g, ss, m + 1)
    BY <2>4 DEF Flattens
  <2> QED  BY <2>3, <2>5
<1>3. T = Nat
  <2> HIDE DEF T
  <2>1. T \in SUBSET Nat  BY DEF T
  <2> QED  BY <1>1, <1>2, <2>1, NatSet, Zenon
<1>4. n \in Nat /\ n <= Len(ss)
  OBVIOUS
<1>5. n \in T
  <2> HIDE DEF T
  <2> QED  BY <1>3, <1>4
<1> QED
  BY <1>4, <1>5

\* Only one: lists that begin alike have concatenations that begin alike.
LEMMA FlattensAgree ==
  ASSUME NEW f, NEW g, NEW ss, NEW tt, NEW n \in Nat,
         Flattens(f, ss, n), Flattens(g, tt, n), \A i \in 1..n : ss[i] = tt[i]
  PROVE  \A i \in 1..n : f[i] = g[i]
<1> DEFINE T == {m \in Nat : m \in 1..n => f[m] = g[m]}
<1>1. 0 \in T
  OBVIOUS
<1>2. ASSUME NEW m \in Nat, m \in T PROVE m + 1 \in T
  <2>1. m \in 1..n => f[m] = g[m]
    BY <1>2
  <2>2. m + 1 \in 1..n => f[m + 1] = g[m + 1]
    <3> HIDE DEF T
    <3> SUFFICES ASSUME m + 1 \in 1..n PROVE f[m + 1] = g[m + 1]
      OBVIOUS
    <3>1. f[m + 1] = IF m + 1 = 1 THEN ss[m + 1] ELSE f[m + 1 - 1] \o ss[m + 1]
      BY FlattensAt
    <3>2. g[m + 1] = IF m + 1 = 1 THEN tt[m + 1] ELSE g[m + 1 - 1] \o tt[m + 1]
      BY FlattensAt
    <3>3. m + 1 - 1 = m /\ ss[m + 1] = tt[m + 1] /\ (m + 1 # 1 => m \in 1..n)
      OBVIOUS
    <3> QED  BY <2>1, <3>1, <3>2, <3>3
  <2> QED  BY <2>2, <1>2
<1>3. T = Nat
  <2> HIDE DEF T
  <2>1. T \in SUBSET Nat  BY DEF T
  <2> QED  BY <1>1, <1>2, <2>1, NatSet
<1> QED
  BY <1>3

\* And FlattenSeq is its last value.
LEMMA FlattenByFunction ==
  ASSUME NEW S, NEW ss \in Seq(Seq(S)), Len(ss) # 0
  PROVE  \E f \in [1..Len(ss) -> Seq(S)] :
           /\ Flattens(f, ss, Len(ss))
           /\ FlattenSeq(ss) = f[Len(ss)]
<1> DEFINE R(f) == [i \in 1..Len(ss) |-> IF i = 1 THEN ss[i] ELSE f[i - 1] \o ss[i]]
           h == CHOOSE f : f = R(f)
<1>0. Len(ss) \in Nat /\ Len(ss) \in 0..Len(ss) /\ Len(ss) \in 1..Len(ss)
  OBVIOUS
<1>1. PICK f \in [1..Len(ss) -> Seq(S)] : Flattens(f, ss, Len(ss))
  BY <1>0, FlattensExists
<1>2. f = R(f)
  BY <1>1 DEF Flattens
<1>3. h = R(h)
  BY <1>2
<1>4. FlattenSeq(ss) = h[Len(ss)]
  BY DEF FlattenSeq
<1>5. Flattens(h, ss, Len(ss))
  <2> SUFFICES ASSUME NEW i \in 1..Len(ss)
               PROVE  h[i] = IF i = 1 THEN ss[i] ELSE h[i - 1] \o ss[i]
    BY DEF Flattens
  <2>1. R(h)[i] = IF i = 1 THEN ss[i] ELSE h[i - 1] \o ss[i]
    OBVIOUS
  <2> HIDE DEF h, R
  <2> QED  BY <1>3, <2>1, Zenon
<1> HIDE DEF h, R
<1>6. h[Len(ss)] = f[Len(ss)]
  <2>1. \A i \in 1..Len(ss) : h[i] = f[i]
    BY <1>0, <1>1, <1>5, FlattensAgree
  <2> QED  BY <1>0, <2>1
<1> QED  BY <1>1, <1>4, <1>6

\* Nothing concatenated is nothing.
LEMMA FlattenEmpty == FlattenSeq(<<>>) = <<>>
  BY DEF FlattenSeq

\* The concatenation of sequences is a sequence.
LEMMA FlattenType ==
  ASSUME NEW S, NEW ss \in Seq(Seq(S))
  PROVE  FlattenSeq(ss) \in Seq(S)
<1>0. Len(ss) \in Nat
  OBVIOUS
<1>1. CASE Len(ss) = 0
  <2>1. ss = <<>>
    BY <1>1
  <2> QED  BY <2>1, FlattenEmpty, EmptySeq, Zenon
<1>2. CASE Len(ss) # 0
  <2>1. PICK f \in [1..Len(ss) -> Seq(S)] : FlattenSeq(ss) = f[Len(ss)]
    BY <1>2, FlattenByFunction
  <2>2. Len(ss) \in 1..Len(ss)
    BY <1>0, <1>2
  <2> QED  BY <2>1, <2>2
<1> QED  BY <1>1, <1>2

\* One step of the definition of FlattenSeq.
LEMMA FlattensNext ==
  ASSUME NEW n \in Nat, n # 0, NEW g, NEW tt, Flattens(g, tt, n + 1)
  PROVE  g[n + 1] = g[n] \o tt[n + 1]
<1>1. n + 1 \in 1..n + 1
  OBVIOUS
<1>2. g[n + 1] = IF n + 1 = 1 THEN tt[n + 1] ELSE g[n + 1 - 1] \o tt[n + 1]
  BY <1>1, FlattensAt
<1>3. n + 1 # 1 /\ n + 1 - 1 = n
  OBVIOUS
<1> QED  BY <1>2, <1>3

\* And where the lists agree, of one list after the other.
LEMMA FlattensLonger ==
  ASSUME NEW n \in Nat, n # 0, NEW f, NEW g, NEW ss, NEW tt,
         Flattens(f, ss, n), Flattens(g, tt, n + 1), \A i \in 1..n : ss[i] = tt[i]
  PROVE  g[n + 1] = f[n] \o tt[n + 1]
<1>1. n \in 1..n
  OBVIOUS
<1>2. Flattens(g, tt, n)
  <2> SUFFICES ASSUME NEW i \in 1..n
               PROVE  g[i] = IF i = 1 THEN tt[i] ELSE g[i - 1] \o tt[i]
    BY DEF Flattens
  <2>1. i \in 1..n + 1
    OBVIOUS
  <2> QED  BY <2>1, FlattensAt
<1>3. f[n] = g[n]
  BY <1>1, <1>2, FlattensAgree
<1>4. g[n + 1] = g[n] \o tt[n + 1]
  BY FlattensNext
<1> QED  BY <1>3, <1>4

\* A sequence put at the end of the list is put at the end of its concatenation.
LEMMA FlattenAppend ==
  ASSUME NEW S, NEW ss \in Seq(Seq(S)), NEW t \in Seq(S)
  PROVE  FlattenSeq(Append(ss, t)) = FlattenSeq(ss) \o t
<1> DEFINE tt == Append(ss, t)
<1>0. /\ Len(ss) \in Nat /\ tt \in Seq(Seq(S)) /\ Len(tt) = Len(ss) + 1 /\ Len(tt) # 0
      /\ \A i \in 1..Len(ss) : ss[i] = tt[i]
      /\ tt[Len(ss) + 1] = t
  BY AppendProperties
<1> HIDE DEF tt
<1>1. PICK g \in [1..Len(tt) -> Seq(S)] :
        Flattens(g, tt, Len(tt)) /\ FlattenSeq(tt) = g[Len(tt)]
  BY <1>0, FlattenByFunction
<1>2. CASE Len(ss) = 0
  <2>1. ss = <<>>
    BY <1>2
  <2>2. FlattenSeq(ss) \o t = t
    BY <2>1, FlattenEmpty, ConcatEmptySeq
  <2>3. g[1] = tt[1]
    BY <1>0, <1>1, <1>2 DEF Flattens
  <2> QED  BY <2>2, <2>3, <1>0, <1>1, <1>2 DEF tt
<1>3. CASE Len(ss) # 0
  <2>1. PICK f \in [1..Len(ss) -> Seq(S)] :
          Flattens(f, ss, Len(ss)) /\ FlattenSeq(ss) = f[Len(ss)]
    BY <1>3, FlattenByFunction
  <2>2. g[Len(ss) + 1] = f[Len(ss)] \o tt[Len(ss) + 1]
    BY <1>0, <1>1, <1>3, <2>1, FlattensLonger, ZenonT(60)
  <2> QED  BY <2>1, <2>2, <1>0, <1>1 DEF tt
<1> QED  BY <1>2, <1>3

\* The concatenation of one sequence.
LEMMA FlattenOne ==
  ASSUME NEW S, NEW s \in Seq(S)
  PROVE  FlattenSeq(Append(<<>>, s)) = s
<1>1. <<>> \in Seq(Seq(S)) /\ <<>> \in Seq(S)
  OBVIOUS
<1>2. FlattenSeq(Append(<<>>, s)) = <<>> \o s
  BY <1>1, FlattenAppend, FlattenEmpty
<1> QED  BY <1>2, ConcatEmptySeq

\* Concatenation is associative, in a form that needs no search for its types.
LEMMA Regroup ==
  ASSUME NEW S, NEW x, x \in Seq(S), NEW y, y \in Seq(S), NEW z, z \in Seq(S)
  PROVE  (x \o y) \o z = x \o (y \o z)
BY ConcatAssociative

\* A sequence of some length is not the empty one.
LEMMA NotEmpty ==
  ASSUME NEW S, NEW s \in Seq(S), Len(s) # 0
  PROVE  s # <<>>
BY EmptySeq

\* If the concatenation of v begins with its head, so does that of a longer list.
LEMMA FlattenHeadStep ==
  ASSUME NEW S, NEW v \in Seq(Seq(S)), NEW e \in Seq(S)
  PROVE  Len(v) # 0 /\ FlattenSeq(v) = Head(v) \o FlattenSeq(Tail(v)) =>
           FlattenSeq(Append(v, e)) = Head(Append(v, e)) \o FlattenSeq(Tail(Append(v, e)))
<1>0. \A a, b \in Seq(S) : (a \o b) \o e = a \o (b \o e)
  BY Regroup, SMTT(40)
<1> SUFFICES ASSUME Len(v) # 0, FlattenSeq(v) = Head(v) \o FlattenSeq(Tail(v))
             PROVE  FlattenSeq(Append(v, e)) = Head(Append(v, e)) \o FlattenSeq(Tail(Append(v, e)))
  OBVIOUS
<1>1. v # <<>>
  BY NotEmpty
<1>2. Head(Append(v, e)) = Head(v) /\ Tail(Append(v, e)) = Append(Tail(v), e)
  BY <1>1, HeadTailAppend
<1>3. Head(v) \in Seq(S) /\ Tail(v) \in Seq(Seq(S))
  BY <1>1, HeadTailProperties
<1>4. FlattenSeq(Append(v, e)) = FlattenSeq(v) \o e
  BY FlattenAppend
<1>5. FlattenSeq(Append(Tail(v), e)) = FlattenSeq(Tail(v)) \o e
  BY <1>3, FlattenAppend
<1>6. FlattenSeq(Tail(v)) \in Seq(S)
  BY <1>3, FlattenType
<1>7. (Head(v) \o FlattenSeq(Tail(v))) \o e = Head(v) \o (FlattenSeq(Tail(v)) \o e)
  BY <1>3, <1>6, <1>0
<1> QED  BY <1>2, <1>4, <1>5, <1>7

\* A list of one sequence is that sequence, with nothing after it.
LEMMA FlattenHeadOne ==
  ASSUME NEW S, NEW u \in Seq(Seq(S)), Len(u) = 1
  PROVE  FlattenSeq(u) = Head(u) \o FlattenSeq(Tail(u))
<1>1. u # <<>>
  BY NotEmpty
<1>2. PICK v \in Seq(Seq(S)), e \in Seq(S) : u = Append(v, e)
  BY <1>1, SequenceEmptyOrAppend
<1>3. v = <<>>
  BY <1>2
<1>4. Head(u) = e /\ Tail(u) = <<>>
  BY <1>2, <1>3, HeadTailAppend
<1>5. FlattenSeq(u) = e /\ e \o <<>> = e
  BY <1>2, <1>3, FlattenOne, ConcatEmptySeq
<1> QED  BY <1>4, <1>5, FlattenEmpty

\* What is concatenated is the first sequence followed by the others: by induction over
\* the length of the list, with the two lemmas above.
LEMMA FlattenHead ==
  ASSUME NEW S, NEW ss \in Seq(Seq(S)), Len(ss) # 0
  PROVE  FlattenSeq(ss) = Head(ss) \o FlattenSeq(Tail(ss))
<1> DEFINE Splits(u) == FlattenSeq(u) = Head(u) \o FlattenSeq(Tail(u))
           T == {n \in Nat : \A u \in Seq(Seq(S)) : Len(u) = n + 1 => Splits(u)}
<1>1. ASSUME NEW u \in Seq(Seq(S)), Len(u) = 1 PROVE Splits(u)
  BY <1>1, FlattenHeadOne
<1>2. ASSUME NEW n \in Nat, \A u \in Seq(Seq(S)) : Len(u) = n + 1 => Splits(u),
             NEW u \in Seq(Seq(S)), Len(u) = (n + 1) + 1
      PROVE  Splits(u)
  <2>0. u # <<>>
    BY <1>2, NotEmpty
  <2>1. PICK v \in Seq(Seq(S)), e \in Seq(S) : u = Append(v, e)
    BY <2>0, SequenceEmptyOrAppend
  <2>2. Len(v) = n + 1 /\ Len(v) # 0
    BY <1>2, <2>1, AppendProperties
  <2>3. Splits(v)
    BY <1>2, <2>2
  <2> QED  BY <2>1, <2>2, <2>3, FlattenHeadStep
<1> HIDE DEF Splits
<1>3. T = Nat
  <2>1. 0 \in T
    BY <1>1
  <2>2. \A n \in T : n + 1 \in T
    BY <1>2
  <2> HIDE DEF T
  <2>3. T \in SUBSET Nat  BY DEF T
  <2> QED  BY <2>1, <2>2, <2>3, NatSet, Zenon
<1>4. Len(ss) \in Nat
  OBVIOUS
<1>5. Len(ss) - 1 \in Nat /\ Len(ss) - 1 + 1 = Len(ss)
  BY <1>4
<1>6. Len(ss) - 1 \in T
  <2> HIDE DEF T
  <2> QED  BY <1>3, <1>5
<1>7. Splits(ss)
  BY <1>5, <1>6
<1> QED  BY <1>7 DEF Splits

\* Empty sequences at the end of the list add nothing.
LEMMA FlattenFilled ==
  ASSUME NEW S, NEW ss \in Seq(Seq(S)), NEW n \in 0..Len(ss),
         \A i \in n + 1..Len(ss) : ss[i] = <<>>
  PROVE  FlattenSeq(ss) = FlattenSeq(SubSeq(ss, 1, n))
<1> DEFINE T == {k \in Nat : n + k <= Len(ss) =>
                   FlattenSeq(SubSeq(ss, 1, n + k)) = FlattenSeq(SubSeq(ss, 1, n))}
<1>0. Len(ss) \in Nat /\ n \in Nat
  OBVIOUS
<1>1. 0 \in T
  BY <1>0
<1>2. ASSUME NEW k \in T PROVE k + 1 \in T
  <2> SUFFICES ASSUME n + (k + 1) <= Len(ss)
               PROVE  FlattenSeq(SubSeq(ss, 1, n + (k + 1))) = FlattenSeq(SubSeq(ss, 1, n))
    OBVIOUS
  <2> DEFINE u == SubSeq(ss, 1, n + k)
  <2>0. k \in Nat /\ n + k \in 0..Len(ss)
    BY <1>0
  <2>1. u \in Seq(Seq(S))
    BY <2>0, <1>0, SubSeqProperties
  <2>2. SubSeq(ss, 1, n + (k + 1)) = Append(u, ss[n + (k + 1)])
    BY <2>0, <1>0
  <2>3. ss[n + (k + 1)] = <<>>
    BY <2>0, <1>0
  <2>4. FlattenSeq(SubSeq(ss, 1, n + (k + 1))) = FlattenSeq(u) \o <<>>
    <3>1. <<>> \in Seq(S)
      OBVIOUS
    <3>2. FlattenSeq(Append(u, <<>>)) = FlattenSeq(u) \o <<>>
      <4> HIDE DEF u
      <4> QED  BY <2>1, <3>1, FlattenAppend
    <3> QED  BY <2>2, <2>3, <3>2
  <2>5. FlattenSeq(u) \o <<>> = FlattenSeq(u)
    BY <2>1, FlattenType, ConcatEmptySeq
  <2> QED  BY <2>4, <2>5, <2>0
<1>3. T = Nat
  <2> HIDE DEF T
  <2>1. T \in SUBSET Nat  BY DEF T
  <2> QED  BY <1>1, <1>2, <2>1, NatSet, Zenon
<1>4. Len(ss) - n \in T /\ n + (Len(ss) - n) = Len(ss)
  <2>1. Len(ss) - n \in Nat /\ n + (Len(ss) - n) = Len(ss)
    BY <1>0
  <2> HIDE DEF T
  <2> QED  BY <1>3, <2>1
<1>5. SubSeq(ss, 1, Len(ss)) = ss
  BY SubSeqFull
<1>6. FlattenSeq(SubSeq(ss, 1, Len(ss))) = FlattenSeq(SubSeq(ss, 1, n))
  BY <1>4, <1>0
<1> QED  BY <1>5, <1>6

-----------------------------------------------------------------------------
(* What Kept computes, for any sequence and any places.                    *)

\* f holds, at each i up to n, what s has at those of the places that are at most i.
KeptBy(f, s, places, n) ==
  /\ f[0] = <<>>
  /\ \A i \in 1..n : f[i] = IF i \in places THEN Append(f[i - 1], s[i]) ELSE f[i - 1]

\* What such a function is at one place.
LEMMA KeptAt ==
  ASSUME NEW f, NEW s, NEW places, NEW n \in Nat, KeptBy(f, s, places, n),
         NEW i \in Nat, i + 1 \in 1..n
  PROVE  f[i + 1] = IF i + 1 \in places THEN Append(f[i], s[i + 1]) ELSE f[i]
<1>1. f[i + 1] = IF i + 1 \in places THEN Append(f[i + 1 - 1], s[i + 1]) ELSE f[i + 1 - 1]
  BY DEF KeptBy
<1>2. i + 1 - 1 = i
  OBVIOUS
<1> QED  BY <1>1, <1>2

\* Such a function exists.
LEMMA KeptExists ==
  ASSUME NEW S, NEW s \in Seq(S), NEW places, NEW n \in 0..Len(s)
  PROVE  \E f \in [0..n -> Seq(S)] : KeptBy(f, s, places, n)
<1> DEFINE T == {m \in Nat : m <= Len(s) => \E f \in [0..m -> Seq(S)] : KeptBy(f, s, places, m)}
<1>0. Len(s) \in Nat
  OBVIOUS
<1>1. 0 \in T
  <2>1. [i \in 0..0 |-> <<>>] \in [0..0 -> Seq(S)]
    OBVIOUS
  <2>2. KeptBy([i \in 0..0 |-> <<>>], s, places, 0)
    BY DEF KeptBy
  <2> QED  BY <2>1, <2>2
<1>2. ASSUME NEW m \in Nat, m \in T PROVE m + 1 \in T
  <2> HIDE DEF T
  <2>1. ASSUME m + 1 <= Len(s)
        PROVE  \E g \in [0..m + 1 -> Seq(S)] : KeptBy(g, s, places, m + 1)
    <3>1. PICK f \in [0..m -> Seq(S)] : KeptBy(f, s, places, m)
      BY <1>0, <1>2, <2>1 DEF T
    <3> DEFINE x == IF m + 1 \in places THEN Append(f[m], s[m + 1]) ELSE f[m]
               g == [i \in 0..m + 1 |-> IF i = m + 1 THEN x ELSE f[i]]
    <3>2. x \in Seq(S)
      <4>1. s[m + 1] \in S /\ f[m] \in Seq(S)
        BY <1>0, <2>1
      <4> QED  BY <4>1
    <3> HIDE DEF x
    <3>3. g \in [0..m + 1 -> Seq(S)]
      BY <3>2
    <3>4. ASSUME NEW i \in 1..m + 1
          PROVE  g[i] = IF i \in places THEN Append(g[i - 1], s[i]) ELSE g[i - 1]
      <4>1. CASE i = m + 1
        <5>1. g[i] = x /\ g[i - 1] = f[m]
          BY <4>1
        <5> QED  BY <5>1, <4>1 DEF x
      <4>2. CASE i # m + 1
        <5>1. g[i] = f[i] /\ g[i - 1] = f[i - 1] /\ i \in 1..m
          BY <4>2
        <5>2. f[i] = IF i \in places THEN Append(f[i - 1], s[i]) ELSE f[i - 1]
          BY <5>1, <3>1 DEF KeptBy
        <5> QED  BY <5>1, <5>2
      <4> QED  BY <4>1, <4>2
    <3>5. g[0] = <<>>
      <4>1. g[0] = f[0]
        OBVIOUS
      <4> QED  BY <4>1, <3>1 DEF KeptBy
    <3> HIDE DEF g
    <3>6. KeptBy(g, s, places, m + 1)
      BY <3>4, <3>5 DEF KeptBy
    <3> QED  BY <3>3, <3>6
  <2> QED  BY <2>1 DEF T
<1>3. T = Nat
  <2> HIDE DEF T
  <2>1. T \in SUBSET Nat  BY DEF T
  <2> QED  BY <1>1, <1>2, <2>1, NatSet
<1>4. n \in Nat /\ n <= Len(s)
  OBVIOUS
<1>5. n \in T
  <2> HIDE DEF T
  <2> QED  BY <1>3, <1>4
<1> QED
  BY <1>4, <1>5

\* It depends on nothing beyond n.
LEMMA KeptAgree ==
  ASSUME NEW f, NEW g, NEW s, NEW t, NEW p, NEW q, NEW n \in Nat,
         KeptBy(f, s, p, n), KeptBy(g, t, q, n),
         \A i \in 1..n : s[i] = t[i] /\ (i \in p <=> i \in q)
  PROVE  f[n] = g[n]
<1> DEFINE T == {m \in Nat : m \in 0..n => f[m] = g[m]}
<1>1. 0 \in T
  BY DEF KeptBy
<1>2. ASSUME NEW m \in Nat, m \in T PROVE m + 1 \in T
  <2>1. m \in 0..n => f[m] = g[m]
    BY <1>2
  <2>2. m + 1 \in 1..n => f[m + 1] = g[m + 1]
    <3> HIDE DEF T
    <3> SUFFICES ASSUME m + 1 \in 1..n PROVE f[m + 1] = g[m + 1]
      OBVIOUS
    <3>1. f[m + 1] = IF m + 1 \in p THEN Append(f[m], s[m + 1]) ELSE f[m]
      BY KeptAt
    <3>2. g[m + 1] = IF m + 1 \in q THEN Append(g[m], t[m + 1]) ELSE g[m]
      BY KeptAt
    <3>3. s[m + 1] = t[m + 1] /\ (m + 1 \in p <=> m + 1 \in q) /\ m \in 0..n
      OBVIOUS
    <3> QED  BY <2>1, <3>1, <3>2, <3>3
  <2> QED  BY <2>2, <1>2
<1>3. T = Nat
  <2> HIDE DEF T
  <2>1. T \in SUBSET Nat  BY DEF T
  <2> QED  BY <1>1, <1>2, <2>1, NatSet
<1>4. n \in T
  <2> HIDE DEF T
  <2> QED  BY <1>3
<1> QED
  BY <1>4

\* And Kept is its last value.
LEMMA KeptByFunction ==
  ASSUME NEW S, NEW s \in Seq(S), NEW places
  PROVE  \E f \in [0..Len(s) -> Seq(S)] :
           KeptBy(f, s, places, Len(s)) /\ Reader!Kept(s, places) = f[Len(s)]
<1> DEFINE R(f) == [i \in 0..Len(s) |-> IF i = 0 THEN <<>>
                                        ELSE IF i \in places THEN Append(f[i - 1], s[i])
                                        ELSE f[i - 1]]
           h == CHOOSE f : f = R(f)
<1>0. Len(s) \in Nat /\ Len(s) \in 0..Len(s)
  OBVIOUS
<1>1. PICK f \in [0..Len(s) -> Seq(S)] : KeptBy(f, s, places, Len(s))
  BY <1>0, KeptExists
<1>2. f = R(f)
  <2>1. ASSUME NEW i \in 0..Len(s) PROVE f[i] = R(f)[i]
    <3>1. CASE i = 0
      BY <3>1, <1>0, <1>1 DEF KeptBy
    <3>2. CASE i # 0
      <4>1. i \in 1..Len(s)
        BY <3>2
      <4> QED  BY <3>2, <4>1, <1>1 DEF KeptBy
    <3> QED  BY <3>1, <3>2
  <2> QED  BY <2>1
<1>3. h = R(h)
  BY <1>2
<1>4. Reader!Kept(s, places) = h[Len(s)]
  BY DEF Reader!Kept
<1>5. KeptBy(h, s, places, Len(s))
  <2>1. h[0] = <<>>
    <3>1. R(h)[0] = <<>>
      BY <1>0
    <3> HIDE DEF h, R
    <3> QED  BY <1>3, <3>1, Zenon
  <2>2. ASSUME NEW i \in 1..Len(s)
        PROVE  h[i] = IF i \in places THEN Append(h[i - 1], s[i]) ELSE h[i - 1]
    <3>1. R(h)[i] = IF i \in places THEN Append(h[i - 1], s[i]) ELSE h[i - 1]
      OBVIOUS
    <3> HIDE DEF h, R
    <3> QED  BY <1>3, <3>1, Zenon
  <2> QED  BY <2>1, <2>2 DEF KeptBy
<1> HIDE DEF h, R
<1>6. h[Len(s)] = f[Len(s)]
  BY <1>0, <1>1, <1>5, KeptAgree
<1> QED  BY <1>1, <1>4, <1>6

\* Of nothing, nothing is kept.
LEMMA KeptEmpty == ASSUME NEW places PROVE Reader!Kept(<<>>, places) = <<>>
<1>1. <<>> \in Seq({})
  OBVIOUS
<1>2. PICK f : KeptBy(f, <<>>, places, Len(<<>>)) /\ Reader!Kept(<<>>, places) = f[Len(<<>>)]
  BY <1>1, KeptByFunction
<1> QED  BY <1>2 DEF KeptBy

\* What is kept of a sequence is a sequence over the same set.
LEMMA KeptType ==
  ASSUME NEW S, NEW s \in Seq(S), NEW places
  PROVE  Reader!Kept(s, places) \in Seq(S)
<1>1. PICK f \in [0..Len(s) -> Seq(S)] : Reader!Kept(s, places) = f[Len(s)]
  BY KeptByFunction
<1>2. Len(s) \in 0..Len(s)
  OBVIOUS
<1> QED  BY <1>1, <1>2

\* What is kept of a sequence does not depend on places outside it.
LEMMA KeptSame ==
  ASSUME NEW S, NEW s \in Seq(S), NEW p, NEW q, \A i \in 1..Len(s) : i \in p <=> i \in q
  PROVE  Reader!Kept(s, p) = Reader!Kept(s, q)
<1>0. Len(s) \in Nat
  OBVIOUS
<1>1. PICK f : KeptBy(f, s, p, Len(s)) /\ Reader!Kept(s, p) = f[Len(s)]
  BY KeptByFunction
<1>2. PICK g : KeptBy(g, s, q, Len(s)) /\ Reader!Kept(s, q) = g[Len(s)]
  BY KeptByFunction
<1>3. f[Len(s)] = g[Len(s)]
  BY <1>0, <1>1, <1>2, KeptAgree
<1> QED  BY <1>1, <1>2, <1>3

\* What is kept of a sequence with one more element.
LEMMA KeptAppend ==
  ASSUME NEW S, NEW s \in Seq(S), NEW e \in S, NEW places
  PROVE  Reader!Kept(Append(s, e), places) =
           IF Len(s) + 1 \in places THEN Append(Reader!Kept(s, places), e)
           ELSE Reader!Kept(s, places)
<1> DEFINE t == Append(s, e)
<1>0. /\ Len(s) \in Nat /\ t \in Seq(S) /\ Len(t) = Len(s) + 1 /\ t[Len(s) + 1] = e
      /\ \A i \in 1..Len(s) : s[i] = t[i]
  BY AppendProperties
<1> HIDE DEF t
<1>1. PICK f : KeptBy(f, s, places, Len(s)) /\ Reader!Kept(s, places) = f[Len(s)]
  BY KeptByFunction
<1>2. PICK g : KeptBy(g, t, places, Len(t)) /\ Reader!Kept(t, places) = g[Len(t)]
  BY <1>0, KeptByFunction
<1>3. KeptBy(g, t, places, Len(s))
  <2>1. \A i \in 1..Len(s) : i \in 1..Len(t)
    BY <1>0
  <2> QED  BY <1>2, <2>1 DEF KeptBy
<1>4. f[Len(s)] = g[Len(s)]
  BY <1>0, <1>1, <1>3, KeptAgree
<1>5. Len(s) + 1 \in 1..Len(t) /\ Len(t) \in Nat
  BY <1>0
<1>6. g[Len(s) + 1] = IF Len(s) + 1 \in places THEN Append(g[Len(s)], t[Len(s) + 1]) ELSE g[Len(s)]
  BY <1>0, <1>2, <1>5, KeptAt
<1> QED  BY <1>0, <1>1, <1>2, <1>4, <1>6 DEF t

\* A sequence is its first n elements followed by the others.
LEMMA SplitAt ==
  ASSUME NEW S, NEW s \in Seq(S), NEW n \in 0..Len(s)
  PROVE  /\ SubSeq(s, 1, n) \in Seq(S) /\ Len(SubSeq(s, 1, n)) = n
         /\ SubSeq(s, n + 1, Len(s)) \in Seq(S) /\ Len(SubSeq(s, n + 1, Len(s))) = Len(s) - n
         /\ SubSeq(s, 1, n) \o SubSeq(s, n + 1, Len(s)) = s
<1>0. Len(s) \in Nat /\ n \in Nat /\ n <= Len(s)
  OBVIOUS
<1>1. SubSeq(s, 1, n) \in Seq(S) /\ Len(SubSeq(s, 1, n)) = n
  BY <1>0, SubSeqProperties
<1>2. SubSeq(s, n + 1, Len(s)) \in Seq(S) /\ Len(SubSeq(s, n + 1, Len(s))) = Len(s) - n
  BY <1>0, SubSeqProperties
<1>3. SubSeq(s, 1, n) \o SubSeq(s, n + 1, Len(s)) = SubSeq(s, 1, Len(s))
  <2>1. 1 \in 1..Len(s) + 1 /\ n \in 1 - 1..Len(s) /\ Len(s) \in n..Len(s)
    BY <1>0
  <2> QED  BY <2>1, ConcatAdjacentSubSeq
<1>4. SubSeq(s, 1, Len(s)) = s
  BY SubSeqFull
<1> QED  BY <1>1, <1>2, <1>3, <1>4

\* The smaller of two numbers, as Received and SendSome take it.
LEMMA MinTwo ==
  ASSUME NEW a \in Int, NEW b \in Int
  PROVE  Min({a, b}) = IF a <= b THEN a ELSE b
BY DEF Min

\* A set of naturals has a least element, and Min is it.
LEMMA MinNat ==
  ASSUME NEW T \in SUBSET Nat, T # {}
  PROVE  Min(T) \in T /\ \A i \in T : Min(T) <= i
<1>0. IsWellFoundedOn(OpToRel(<,Nat), Nat)
  BY NatLessThanWellFounded
<1>1. PICK x \in T : \A y \in T : <<y, x>> \notin OpToRel(<,Nat)
  BY <1>0, WFMin, Zenon
<1>2. ASSUME NEW y \in T PROVE x <= y
  <2>1. ~(y < x)
    BY <1>1 DEF OpToRel
  <2> QED  BY <2>1
<1> QED  BY <1>2 DEF Min

\* A list of buffers of which those from k on are empty, when d is put into the k-th.
LEMMA FlattenFill ==
  ASSUME NEW S, NEW ss \in Seq(Seq(S)), NEW k \in 1..Len(ss), NEW d \in Seq(S),
         \A i \in k..Len(ss) : ss[i] = <<>>
  PROVE  FlattenSeq([ss EXCEPT ![k] = d]) = FlattenSeq(ss) \o d
<1> DEFINE tt == [ss EXCEPT ![k] = d]
<1>0. /\ Len(ss) \in Nat /\ k \in Nat /\ k - 1 \in 0..Len(ss) /\ k \in 0..Len(ss)
      /\ k - 1 \in Nat /\ (k - 1) + 1 = k
  OBVIOUS
<1>1. /\ tt \in Seq(Seq(S)) /\ Len(tt) = Len(ss)
      /\ \A j \in 1..Len(ss) : tt[j] = IF j = k THEN d ELSE ss[j]
  BY ExceptSeq
<1> HIDE DEF tt
<1>2. FlattenSeq(ss) = FlattenSeq(SubSeq(ss, 1, k - 1))
  <2>1. \A i \in (k - 1) + 1..Len(ss) : ss[i] = <<>>
    BY <1>0
  <2> QED  BY <1>0, <2>1, FlattenFilled
<1>3. FlattenSeq(tt) = FlattenSeq(SubSeq(tt, 1, k))
  <2>1. ASSUME NEW i \in k + 1..Len(tt) PROVE tt[i] = <<>>
    <3>1. i \in 1..Len(ss) /\ i # k /\ i \in k..Len(ss)
      BY <1>0, <1>1
    <3>2. tt[i] = ss[i]
      BY <1>1, <3>1
    <3> QED  BY <3>1, <3>2
  <2> QED  BY <1>0, <1>1, <2>1, FlattenFilled
<1>4. SubSeq(tt, 1, k) = Append(SubSeq(ss, 1, k - 1), d)
  <2>1. SubSeq(ss, 1, k - 1) \in Seq(Seq(S)) /\ Len(SubSeq(ss, 1, k - 1)) = k - 1
    BY <1>0, SplitAt
  <2>2. \A i \in 1..k - 1 : SubSeq(ss, 1, k - 1)[i] = ss[i]
    BY <1>0, SubSeqProperties
  <2>3. SubSeq(tt, 1, k) \in Seq(Seq(S)) /\ Len(SubSeq(tt, 1, k)) = k
    <3>1. k \in 0..Len(tt)
      BY <1>0, <1>1
    <3> QED  BY <1>1, <3>1, SplitAt
  <2>4. \A i \in 1..k : SubSeq(tt, 1, k)[i] = tt[i]
    BY <1>0, <1>1, SubSeqProperties
  <2> DEFINE u == Append(SubSeq(ss, 1, k - 1), d)
  <2>5. u \in Seq(Seq(S)) /\ Len(u) = k /\ (\A i \in 1..k - 1 : u[i] = ss[i]) /\ u[k] = d
    BY <1>0, <2>1, <2>2, AppendProperties
  <2>6. ASSUME NEW i \in 1..k PROVE SubSeq(tt, 1, k)[i] = u[i]
    <3>1. SubSeq(tt, 1, k)[i] = tt[i] /\ i \in 1..Len(ss)
      BY <1>0, <2>4
    <3>2. tt[i] = IF i = k THEN d ELSE ss[i]
      BY <1>1, <3>1
    <3>3. CASE i = k
      BY <2>5, <3>1, <3>2, <3>3
    <3>4. CASE i # k
      <4>1. i \in 1..k - 1
        BY <1>0, <3>4
      <4> QED  BY <2>5, <3>1, <3>2, <3>4, <4>1
    <3> QED  BY <3>3, <3>4
  <2> HIDE DEF u
  <2>7. SubSeq(tt, 1, k) = u
    BY <2>3, <2>5, <2>6, SeqEqual
  <2> QED  BY <2>7 DEF u
<1>5. FlattenSeq(Append(SubSeq(ss, 1, k - 1), d)) = FlattenSeq(SubSeq(ss, 1, k - 1)) \o d
  <2>1. SubSeq(ss, 1, k - 1) \in Seq(Seq(S))
    BY <1>0, SplitAt
  <2> QED  BY <2>1, FlattenAppend
<1> QED  BY <1>2, <1>3, <1>4, <1>5 DEF tt

\* strcpy() copies what is before the first NUL.
LEMMA TextIs ==
  ASSUME NEW S, NEW d \in Seq(S)
  PROVE  \E c \in 0..Len(d) : /\ Text(d) = SubSeq(d, 1, c)
                              /\ \A i \in 1..c : d[i] # Nul
                              /\ c < Len(d) => d[c + 1] = Nul
<1> DEFINE nuls == {i \in DOMAIN d : d[i] = Nul}
<1>0. Len(d) \in Nat /\ DOMAIN d = 1..Len(d) /\ Len(d) \in 0..Len(d)
  OBVIOUS
<1>1. CASE nuls = {}
  <2>1. Text(d) = d /\ SubSeq(d, 1, Len(d)) = d
    BY <1>1, SubSeqFull DEF Text
  <2>2. \A i \in 1..Len(d) : d[i] # Nul
    BY <1>0, <1>1
  <2>3. ~(Len(d) < Len(d))
    BY <1>0
  <2>4. Text(d) = SubSeq(d, 1, Len(d))
    BY <2>1
  <2> HIDE DEF nuls
  <2> QED  BY <1>0, <2>2, <2>3, <2>4
<1>2. CASE nuls # {}
  <2>1. Min(nuls) \in nuls /\ \A i \in nuls : Min(nuls) <= i
    <3>1. nuls \in SUBSET Nat
      BY <1>0
    <3> HIDE DEF nuls
    <3> QED  BY <3>1, <1>2, MinNat
  <2>2. Text(d) = SubSeq(d, 1, Min(nuls) - 1)
    BY <1>2 DEF Text
  <2>3. PICK c : c = Min(nuls) - 1
    OBVIOUS
  <2>4. c \in 0..Len(d) /\ c < Len(d) /\ c + 1 = Min(nuls)
    BY <1>0, <2>1, <2>3
  <2>5. d[c + 1] = Nul
    BY <2>1, <2>4
  <2>6. ASSUME NEW i \in 1..c PROVE d[i] # Nul
    <3>1. i \in DOMAIN d /\ ~(Min(nuls) <= i)
      BY <1>0, <2>1, <2>4
    <3>2. i \notin nuls
      BY <2>1, <3>1
    <3> QED  BY <3>1, <3>2
  <2> HIDE DEF nuls
  <2> QED  BY <2>2, <2>3, <2>4, <2>5, <2>6
<1> QED  BY <1>1, <1>2

\* What is kept of a longer front of m.
LEMMA KeptLonger ==
  ASSUME NEW S, NEW m \in Seq(S), NEW n \in Nat, n + 1 <= Len(m), NEW places
  PROVE  Reader!Kept(SubSeq(m, 1, n + 1), places) =
           IF n + 1 \in places THEN Append(Reader!Kept(SubSeq(m, 1, n), places), m[n + 1])
           ELSE Reader!Kept(SubSeq(m, 1, n), places)
<1>0. Len(m) \in Nat /\ n \in 0..Len(m) /\ m[n + 1] \in S
  OBVIOUS
<1>1. SubSeq(m, 1, n + 1) = Append(SubSeq(m, 1, n), m[n + 1])
  BY <1>0
<1>2. SubSeq(m, 1, n) \in Seq(S) /\ Len(SubSeq(m, 1, n)) = n
  BY <1>0, SplitAt
<1>3. PICK u \in Seq(S) : u = SubSeq(m, 1, n) /\ Len(u) = n
  BY <1>2
<1>4. PICK e \in S : e = m[n + 1]
  BY <1>0
<1>5. Reader!Kept(Append(u, e), places) =
        IF Len(u) + 1 \in places THEN Append(Reader!Kept(u, places), e) ELSE Reader!Kept(u, places)
  BY KeptAppend
<1> QED  BY <1>1, <1>3, <1>4, <1>5

\* m holds d behind its first n bytes.
Holds(m, n, d) == n + Len(d) <= Len(m) /\ \A i \in 1..Len(d) : d[i] = m[n + i]

\* The first c bytes of such a d may be added to a reading of what is before it.
Extends(m, n, d, c, places) ==
  Reader!Kept(SubSeq(m, 1, n + Len(d)), places \cup (n + 1..n + c)) =
    Reader!Kept(SubSeq(m, 1, n), places) \o SubSeq(d, 1, c)

\* Copying the first c bytes of the d that follows the first n of m.
LEMMA KeptMore ==
  \A m, d \in Seq(Bytes) : \A n \in Nat : \A c \in 0..Len(d) : \A places \in SUBSET (1..n) :
    Holds(m, n, d) => Extends(m, n, d, c, places)
<1> SUFFICES ASSUME NEW m \in Seq(Bytes), NEW d \in Seq(Bytes), NEW n \in Nat,
                    n + Len(d) <= Len(m), \A i \in 1..Len(d) : d[i] = m[n + i],
                    NEW c \in 0..Len(d), NEW places \in SUBSET (1..n)
             PROVE  Reader!Kept(SubSeq(m, 1, n + Len(d)), places \cup (n + 1..n + c)) =
                      Reader!Kept(SubSeq(m, 1, n), places) \o SubSeq(d, 1, c)
  BY ZenonT(60) DEF Holds, Extends
<1> DEFINE all  == places \cup (n + 1..n + c)
           X    == Reader!Kept(SubSeq(m, 1, n), places)
           Y(j) == IF j <= c THEN X \o SubSeq(d, 1, j) ELSE X \o SubSeq(d, 1, c)
           T    == {j \in Nat : j <= Len(d) => Reader!Kept(SubSeq(m, 1, n + j), all) = Y(j)}
<1>0. Len(m) \in Nat /\ Len(d) \in Nat /\ c \in Nat /\ n \in 0..Len(m) /\ n + 0 = n
  OBVIOUS
<1>1. SubSeq(m, 1, n) \in Seq(Bytes) /\ Len(SubSeq(m, 1, n)) = n
  BY <1>0, SplitAt
<1>2. X \in Seq(Bytes)
  BY <1>1, KeptType
<1>3. Reader!Kept(SubSeq(m, 1, n), all) = X
  <2>1. \A i \in 1..n : i \in places <=> i \in all
    BY <1>0
  <2> HIDE DEF all
  <2> QED  BY <1>1, <2>1, KeptSame
<1> HIDE DEF X
<1>4. 0 \in T
  <2>1. SubSeq(d, 1, 0) = <<>> /\ X \o <<>> = X
    BY <1>2, SubSeqEmpty, ConcatEmptySeq
  <2>2. Y(0) = X
    <3>1. 0 <= c
      BY <1>0
    <3> QED  BY <2>1, <3>1
  <2> HIDE DEF all, Y
  <2> QED  BY <1>0, <1>3, <2>2
<1>5. ASSUME NEW j \in Nat, j \in T PROVE j + 1 \in T
  <2>1. ASSUME j + 1 <= Len(d)
        PROVE  Reader!Kept(SubSeq(m, 1, n + (j + 1)), all) = Y(j + 1)
    <3>1. Reader!Kept(SubSeq(m, 1, n + j), all) = Y(j)
      BY <1>0, <1>5, <2>1
    <3>2. n + j \in Nat /\ (n + j) + 1 = n + (j + 1) /\ (n + j) + 1 <= Len(m)
      BY <1>0, <2>1
    <3>3. n + (j + 1) \in all <=> j + 1 <= c
      BY <1>0
    <3>4. m[n + (j + 1)] = d[j + 1] /\ d[j + 1] \in Bytes
      BY <2>1
    <3> HIDE DEF all, T, Y
    <3>5. Reader!Kept(SubSeq(m, 1, n + (j + 1)), all) =
            IF j + 1 <= c THEN Append(Y(j), d[j + 1]) ELSE Y(j)
      BY <3>1, <3>2, <3>3, <3>4, KeptLonger
    <3>6. CASE j + 1 <= c
      <4>1. SubSeq(d, 1, j + 1) = Append(SubSeq(d, 1, j), d[j + 1])
        BY <2>1, <1>0
      <4>2. SubSeq(d, 1, j) \in Seq(Bytes)
        BY <2>1, <1>0, SplitAt
      <4>3. X \o Append(SubSeq(d, 1, j), d[j + 1]) = Append(X \o SubSeq(d, 1, j), d[j + 1])
        BY <1>2, <3>4, <4>2, SMTT(40)
      <4>4. j <= c
        BY <3>6, <1>0
      <4> QED  BY <3>5, <3>6, <4>1, <4>3, <4>4 DEF Y
    <3>7. CASE ~(j + 1 <= c)
      <4>1. CASE j = c
        BY <3>5, <3>7, <4>1 DEF Y
      <4>2. CASE j # c
        <5>1. ~(j <= c)
          BY <3>7, <4>2, <1>0
        <5> QED  BY <3>5, <3>7, <5>1 DEF Y
      <4> QED  BY <4>1, <4>2
    <3> QED  BY <3>6, <3>7
  <2> QED  BY <2>1
<1>6. T = Nat
  <2> HIDE DEF T
  <2>1. T \in SUBSET Nat  BY DEF T
  <2> QED  BY <1>4, <1>5, <2>1, NatSet
<1>7. Len(d) \in T
  <2> HIDE DEF T
  <2> QED  BY <1>0, <1>6
<1>8. Reader!Kept(SubSeq(m, 1, n + Len(d)), all) = Y(Len(d))
  BY <1>0, <1>7
<1>9. Y(Len(d)) = X \o SubSeq(d, 1, c)
  <2>1. Len(d) <= c => Len(d) = c
    BY <1>0
  <2> QED  BY <2>1
<1> QED  BY <1>8, <1>9 DEF X

\* The request is no longer than what it was read from, and all of it where there is no NUL.
LEMMA KeptLen ==
  ASSUME NEW S, NEW m \in Seq(S), NEW n \in 0..Len(m), NEW places
  PROVE  Len(Reader!Kept(SubSeq(m, 1, n), places)) <= n
<1> DEFINE T == {j \in Nat : j <= Len(m) => Len(Reader!Kept(SubSeq(m, 1, j), places)) <= j}
<1>0. Len(m) \in Nat
  OBVIOUS
<1>1. 0 \in T
  <2>1. SubSeq(m, 1, 0) = <<>>
    BY SubSeqEmpty
  <2>2. Reader!Kept(SubSeq(m, 1, 0), places) = <<>>
    BY <2>1, KeptEmpty
  <2> QED  BY <2>2
<1>2. ASSUME NEW j \in Nat, j \in T PROVE j + 1 \in T
  <2> HIDE DEF T
  <2>1. ASSUME j + 1 <= Len(m) PROVE Len(Reader!Kept(SubSeq(m, 1, j + 1), places)) <= j + 1
    <3>1. Len(Reader!Kept(SubSeq(m, 1, j), places)) <= j
      BY <1>0, <1>2, <2>1 DEF T
    <3>2. Reader!Kept(SubSeq(m, 1, j), places) \in Seq(S) /\ m[j + 1] \in S
      <4>1. j \in 0..Len(m) /\ j + 1 \in 1..Len(m)
        BY <1>0, <2>1
      <4>2. SubSeq(m, 1, j) \in Seq(S)
        BY <4>1, SplitAt
      <4>3. Reader!Kept(SubSeq(m, 1, j), places) \in Seq(S)
        BY <4>2, KeptType
      <4> QED  BY <4>1, <4>3
    <3>3. Len(Append(Reader!Kept(SubSeq(m, 1, j), places), m[j + 1])) =
            Len(Reader!Kept(SubSeq(m, 1, j), places)) + 1
      BY <3>2
    <3>4. Len(Reader!Kept(SubSeq(m, 1, j), places)) \in Nat
      BY <3>2
    <3>5. Len(Reader!Kept(SubSeq(m, 1, j + 1), places)) <= Len(Reader!Kept(SubSeq(m, 1, j), places)) + 1
      <4>1. Reader!Kept(SubSeq(m, 1, j + 1), places) =
              IF j + 1 \in places THEN Append(Reader!Kept(SubSeq(m, 1, j), places), m[j + 1])
              ELSE Reader!Kept(SubSeq(m, 1, j), places)
        BY <2>1, KeptLonger
      <4>2. CASE j + 1 \in places
        BY <3>3, <3>4, <4>1, <4>2
      <4>3. CASE j + 1 \notin places
        BY <3>4, <4>1, <4>3
      <4> QED  BY <4>2, <4>3
    <3>6. PICK a, b \in Int : a = Len(Reader!Kept(SubSeq(m, 1, j + 1), places))
                            /\ b = Len(Reader!Kept(SubSeq(m, 1, j), places))
      <4>1. Reader!Kept(SubSeq(m, 1, j + 1), places) \in Seq(S)
        <5>1. j + 1 \in 0..Len(m)
          BY <1>0, <2>1
        <5> QED  BY <5>1, SplitAt, KeptType
      <4> QED  BY <3>4, <4>1
    <3> QED  BY <3>1, <3>5, <3>6
  <2> QED  BY <2>1 DEF T
<1>3. T = Nat
  <2> HIDE DEF T
  <2>1. T \in SUBSET Nat  BY DEF T
  <2> QED  BY <1>1, <1>2, <2>1, NatSet
<1>4. n \in T
  <2> HIDE DEF T
  <2> QED  BY <1>3
<1> QED  BY <1>4

\* Where all places are kept, all is kept.
LEMMA KeptAll ==
  ASSUME NEW S, NEW m \in Seq(S), NEW n \in 0..Len(m), NEW places, 1..n \subseteq places
  PROVE  Reader!Kept(SubSeq(m, 1, n), places) = SubSeq(m, 1, n)
<1> DEFINE T == {j \in Nat : j <= n => Reader!Kept(SubSeq(m, 1, j), places) = SubSeq(m, 1, j)}
<1>0. Len(m) \in Nat /\ n \in Nat /\ n <= Len(m)
  OBVIOUS
<1>1. 0 \in T
  <2>1. SubSeq(m, 1, 0) = <<>>
    BY SubSeqEmpty
  <2> QED  BY <2>1, KeptEmpty
<1>2. ASSUME NEW j \in Nat, j \in T PROVE j + 1 \in T
  <2> HIDE DEF T
  <2>1. ASSUME j + 1 <= n PROVE Reader!Kept(SubSeq(m, 1, j + 1), places) = SubSeq(m, 1, j + 1)
    <3>1. Reader!Kept(SubSeq(m, 1, j), places) = SubSeq(m, 1, j)
      BY <1>0, <1>2, <2>1 DEF T
    <3>2. j + 1 \in places /\ j + 1 <= Len(m)
      BY <1>0, <2>1
    <3>3. SubSeq(m, 1, j + 1) = Append(SubSeq(m, 1, j), m[j + 1])
      BY <3>2
    <3> QED  BY <3>1, <3>2, <3>3, KeptLonger
  <2> QED  BY <2>1 DEF T
<1>3. T = Nat
  <2> HIDE DEF T
  <2>1. T \in SUBSET Nat  BY DEF T
  <2> QED  BY <1>1, <1>2, <2>1, NatSet
<1>4. n \in T
  <2> HIDE DEF T
  <2> QED  BY <1>0, <1>3
<1> QED  BY <1>0, <1>4

\* d and then t are what m holds from n to k.
Split(m, n, d, t, k) == n <= k /\ k <= Len(m) /\ d \o t = SubSeq(m, n + 1, k)

\* Where the pieces of a front of m lie.
LEMMA PieceOf ==
  \A m, d, t \in Seq(Bytes) : \A n, k \in Nat :
    Split(m, n, d, t, k) =>
      n + Len(d) <= k /\ Holds(m, n, d) /\ t = SubSeq(m, n + Len(d) + 1, k)
<1> TAKE m, d, t \in Seq(Bytes)
<1> TAKE n, k \in Nat
<1> HAVE Split(m, n, d, t, k)
<1> USE DEF Split
<1>0. Len(m) \in Nat /\ Len(d) \in Nat /\ Len(t) \in Nat
  OBVIOUS
<1> DEFINE w == SubSeq(m, n + 1, k)
<1>1. /\ w \in Seq(Bytes) /\ Len(w) = k - n
      /\ \A i \in 1..k - n : w[i] = m[n + i]
  <2>1. \A i \in n + 1..k : m[i] \in Bytes
    BY <1>0
  <2>2. n + 1 \in Int /\ k \in Int
    OBVIOUS
  <2>3. /\ w \in Seq(Bytes) /\ Len(w) = IF n + 1 <= k THEN k - (n + 1) + 1 ELSE 0
        /\ \A i \in 1..k - (n + 1) + 1 : w[i] = m[(n + 1) + i - 1]
    BY <2>1, <2>2, SubSeqProperties
  <2> HIDE DEF w
  <2>4. \A i \in 1..k - n : i \in 1..k - (n + 1) + 1 /\ (n + 1) + i - 1 = n + i
    OBVIOUS
  <2> QED  BY <2>3, <2>4
<1>2. /\ Len(w) = Len(d) + Len(t)
      /\ \A i \in 1..Len(d) + Len(t) : w[i] = IF i <= Len(d) THEN d[i] ELSE t[i - Len(d)]
  <2>1. w = d \o t
    OBVIOUS
  <2> HIDE DEF w
  <2> QED  BY <2>1, ConcatProperties
<1> HIDE DEF w
<1>3. n + Len(d) <= k /\ Len(t) = k - (n + Len(d))
  <2>1. k - n = Len(d) + Len(t)
    BY <1>1, <1>2
  <2> QED  BY <1>0, <2>1
<1>4. ASSUME NEW i \in 1..Len(d) PROVE d[i] = m[n + i]
  <2>1. i \in 1..Len(d) + Len(t) /\ i <= Len(d) /\ i \in 1..k - n
    BY <1>0, <1>3
  <2> QED  BY <1>1, <1>2, <2>1
<1>5. t = SubSeq(m, n + Len(d) + 1, k)
  <2> DEFINE u == SubSeq(m, n + Len(d) + 1, k)
  <2>1. \A i \in n + Len(d) + 1..k : m[i] \in Bytes
    BY <1>0
  <2>2. /\ u \in Seq(Bytes)
        /\ Len(u) = IF n + Len(d) + 1 <= k THEN k - (n + Len(d) + 1) + 1 ELSE 0
        /\ \A i \in 1..k - (n + Len(d) + 1) + 1 : u[i] = m[(n + Len(d) + 1) + i - 1]
    BY <2>1, <1>0, SubSeqProperties
  <2> HIDE DEF u
  <2>3. Len(u) = Len(t)
    <3>1. n + Len(d) + 1 <= k => Len(u) = k - (n + Len(d) + 1) + 1
      BY <2>2
    <3>2. ~(n + Len(d) + 1 <= k) => Len(u) = 0
      BY <2>2
    <3> QED  BY <1>0, <1>3, <3>1, <3>2
  <2>4. ASSUME NEW i \in 1..Len(t) PROVE t[i] = u[i]
    <3>1. i + Len(d) \in 1..Len(d) + Len(t) /\ ~(i + Len(d) <= Len(d)) /\ i + Len(d) - Len(d) = i
      BY <1>0
    <3>2. w[i + Len(d)] = t[i]
      BY <1>2, <3>1
    <3>3. i + Len(d) \in 1..k - n
      BY <1>0, <1>3
    <3>4. w[i + Len(d)] = m[n + (i + Len(d))]
      BY <1>1, <3>3
    <3>5. i \in 1..k - (n + Len(d) + 1) + 1 /\ (n + Len(d) + 1) + i - 1 = n + (i + Len(d))
      BY <1>0, <1>3
    <3>6. u[i] = m[n + (i + Len(d))]
      BY <2>2, <3>5
    <3> QED  BY <3>2, <3>4, <3>6
  <2>5. t = u
    BY <2>2, <2>3, <2>4, SeqEqual
  <2> QED  BY <2>5 DEF u
<1> QED  BY <1>0, <1>3, <1>4, <1>5 DEF Holds

-----------------------------------------------------------------------------
(* The invariant of the loop and the copy, and the steps that keep it.     *)

Receiving == pc \in {"check", "recv", "asleep"}

\* What jnet_read_request has and counts, and when.
Typed ==
  /\ message \in Messages
  /\ rest \in Seq(Bytes) /\ sock \in Seq(Bytes) /\ request \in Seq(Bytes) /\ unread \in Seq(Bytes)
  /\ pc \in {"check", "recv", "asleep", "copy", "done"}
  /\ nodes \in Seq(Seq(Bytes)) /\ \A i \in DOMAIN nodes : Len(nodes[i]) < BuffSize
  /\ last \in Nat /\ total \in Nat /\ prompt \in BOOLEAN

\* While the loop receives, the buffers from last on are empty, and there are
\* no more than two of them: two where the code relies on a next one.
Listed ==
  Receiving =>
    /\ last \in 1..Len(nodes) /\ Len(nodes) \in {last, last + 1}
    /\ pc # "check" => Len(nodes) = last + 1
    /\ \A i \in last..Len(nodes) : nodes[i] = <<>>

\* While the loop receives, everything is somewhere.
Whole ==
  Receiving =>
    /\ FlattenSeq(nodes) \o sock \o rest = message
    /\ total = Len(FlattenSeq(nodes))
    /\ request = <<>>

\* Afterwards the request is a reading of the first n bytes, and the buffers
\* not yet copied hold what follows them.
CopiedTo(n) ==
  /\ \E places \in SUBSET (1..n) :
       /\ Reader!Keepable(SubSeq(message, 1, n), places)
       /\ request = Reader!Kept(SubSeq(message, 1, n), places)
  /\ FlattenSeq(nodes) = SubSeq(message, n + 1, total)

Copied ==
  ~Receiving =>
    /\ total + Len(rest) <= Len(message)
    /\ \E n \in 0..total : CopiedTo(n)
    /\ pc = "done" => nodes = <<>>

\* How long the loop can have waited, and that it waited the whole timeout for nothing.
Timed ==
  /\ elapsed \in Nat /\ late \in 0..MaxLate
  /\ elapsed <= Timeout + 2
  /\ pc \in {"recv", "asleep"} => elapsed <= Timeout + 1
  /\ late = 0 => elapsed <= Timeout + 1
  /\ late = 0 /\ pc \in {"recv", "asleep"} => elapsed <= Timeout
  /\ ~Receiving /\ total = 0 => elapsed > Timeout

\* A request that was there at the first recv() is read without a pause.
Prompt ==
  /\ prompt => rest = <<>> /\ total > 0
  /\ prompt /\ late = 0 => sock = <<>> \/ (pc \in {"check", "recv"} /\ elapsed = 0)
  /\ prompt /\ late = 0 /\ ~Receiving => total = Len(message)


RInv == Typed /\ Listed /\ Whole /\ Copied /\ Timed /\ Prompt

\* What travels from r to the end of s stays in its place.
LEMMA ArriveMoves ==
  \A f, s, r \in Seq(Bytes) : \A n \in 0..Len(r) :
    (f \o (s \o SubSeq(r, 1, n))) \o SubSeq(r, n + 1, Len(r)) = (f \o s) \o r
<1> TAKE f, s, r \in Seq(Bytes)
<1> TAKE n \in 0..Len(r)
<1>1. PICK p \in Seq(Bytes) : p = SubSeq(r, 1, n)
  BY SplitAt
<1>2. PICK q \in Seq(Bytes) : q = SubSeq(r, n + 1, Len(r))
  BY SplitAt
<1>3. p \o q = r
  BY <1>1, <1>2, SplitAt
<1>4. f \o (s \o p) = (f \o s) \o p
  BY SMTT(40)
<1>5. PICK g \in Seq(Bytes) : g = f \o s
  BY ConcatProperties
<1>6. (g \o p) \o q = g \o (p \o q)
  BY SMTT(40)
<1> QED  BY <1>1, <1>2, <1>3, <1>4, <1>5, <1>6

\* And what is taken from the front of s to the end of f.
LEMMA ReceiveMoves ==
  \A f, s \in Seq(Bytes) : \A n \in 0..Len(s) :
    (f \o SubSeq(s, 1, n)) \o SubSeq(s, n + 1, Len(s)) = f \o s
<1> TAKE f, s \in Seq(Bytes)
<1> TAKE n \in 0..Len(s)
<1>1. PICK p \in Seq(Bytes) : p = SubSeq(s, 1, n)
  BY SplitAt
<1>2. PICK q \in Seq(Bytes) : q = SubSeq(s, n + 1, Len(s))
  BY SplitAt
<1>3. p \o q = s
  BY <1>1, <1>2, SplitAt
<1>4. (f \o p) \o q = f \o (p \o q)
  BY ConcatAssociative, SMTT(40)
<1> QED  BY <1>1, <1>2, <1>3, <1>4

\* A message is a sequence of its own bytes.
LEMMA MessageSeq == message \in Messages => message \in Seq(Bytes)
<1> SUFFICES ASSUME message \in Messages PROVE message \in Seq(Bytes)
  OBVIOUS
<1>1. message \in Seq(Byte)
  BY MessageAssumption
<1>2. DOMAIN message = 1..Len(message) /\ Len(message) \in Nat /\ message \in [1..Len(message) -> Byte]
  BY <1>1
<1>3. message \in [1..Len(message) -> Bytes]
  BY <1>2 DEF Bytes
<1> QED  BY <1>2, <1>3

\* The invariant holds before the first look at the clock.
LEMMA InitRInv == Init => RInv
<1> SUFFICES ASSUME Init PROVE RInv
  OBVIOUS
<1> USE DEF Init, Receiving
<1>0. message \in Seq(Bytes) /\ <<>> \in Seq(Bytes) /\ nodes = Append(<<>>, <<>>)
  BY MessageSeq
<1>1. FlattenSeq(nodes) = <<>>
  BY <1>0, FlattenOne
<1>2. Typed
  <2>1. nodes \in Seq(Seq(Bytes)) /\ Len(nodes) = 1 /\ nodes[1] = <<>>
    OBVIOUS
  <2>2. \A i \in DOMAIN nodes : Len(nodes[i]) < BuffSize
    BY <2>1, SizeAssumption
  <2> QED  BY <1>0, <2>1, <2>2 DEF Typed
<1>3. Listed
  BY DEF Listed
<1>4. Whole
  <2>1. <<>> \o <<>> = <<>> /\ <<>> \o message = message
    BY <1>0, ConcatEmptySeq
  <2> QED  BY <1>1, <2>1 DEF Whole
<1>5. Copied
  BY DEF Copied
<1>6. Timed
  BY SizeAssumption DEF Timed
<1>7. Prompt
  BY DEF Prompt
<1> QED  BY <1>2, <1>3, <1>4, <1>5, <1>6, <1>7 DEF RInv

\* What the invariant says of the bytes: where they are, and how many.
LEMMA Counted ==
  RInv => /\ message \in Seq(Bytes) /\ Len(message) \in Nat
          /\ Len(sock) \in Nat /\ Len(rest) \in Nat
          /\ FlattenSeq(nodes) \in Seq(Bytes)
          /\ Receiving => total + Len(sock) + Len(rest) = Len(message)
<1> SUFFICES ASSUME RInv
             PROVE  /\ message \in Seq(Bytes) /\ Len(message) \in Nat
                    /\ Len(sock) \in Nat /\ Len(rest) \in Nat
                    /\ FlattenSeq(nodes) \in Seq(Bytes)
                    /\ Receiving => total + Len(sock) + Len(rest) = Len(message)
  OBVIOUS
<1>1. Typed /\ Whole
  BY DEF RInv
<1>2. message \in Seq(Bytes) /\ sock \in Seq(Bytes) /\ rest \in Seq(Bytes) /\ nodes \in Seq(Seq(Bytes))
  BY <1>1, MessageSeq DEF Typed
<1>3. FlattenSeq(nodes) \in Seq(Bytes)
  BY <1>2, FlattenType
<1>4. Len(message) \in Nat /\ Len(sock) \in Nat /\ Len(rest) \in Nat
  BY <1>2
<1>5. ASSUME Receiving PROVE total + Len(sock) + Len(rest) = Len(message)
  <2>1. FlattenSeq(nodes) \o sock \o rest = message /\ total = Len(FlattenSeq(nodes))
    BY <1>1, <1>5 DEF Whole
  <2>2. FlattenSeq(nodes) \o sock \in Seq(Bytes) /\ Len(FlattenSeq(nodes) \o sock) = total + Len(sock)
    BY <1>2, <1>3, <2>1, ConcatProperties
  <2>3. Len((FlattenSeq(nodes) \o sock) \o rest) = Len(FlattenSeq(nodes) \o sock) + Len(rest)
    BY <1>2, <2>2, ConcatProperties
  <2> QED  BY <2>1, <2>2, <2>3
<1> QED  BY <1>2, <1>3, <1>4, <1>5

\* Bytes that arrive move from what is to come to the connection.
LEMMA ArriveKeeps == RInv /\ Arrive /\ UNCHANGED message => RInv'
<1> SUFFICES ASSUME RInv, Arrive, UNCHANGED message PROVE RInv'
  OBVIOUS
<1> USE DEF RInv, list, history
<1>0. Bytes' = Bytes /\ Receiving' = Receiving
  BY DEF Arrive, Bytes, Receiving
<1>1. PICK n \in 1..Len(rest) : /\ sock' = sock \o SubSeq(rest, 1, n)
                                /\ rest' = SubSeq(rest, n + 1, Len(rest))
  BY DEF Arrive
<1>2. Len(rest) \in Nat /\ n \in 0..Len(rest) /\ rest \in Seq(Bytes) /\ sock \in Seq(Bytes)
  BY <1>1 DEF Typed
<1>3. /\ rest' \in Seq(Bytes) /\ sock' \in Seq(Bytes)
      /\ Len(rest') <= Len(rest) /\ Len(rest') \in Nat
      /\ SubSeq(rest, 1, n) \in Seq(Bytes)
      /\ SubSeq(rest, 1, n) \o rest' = rest
  <2>1. /\ SubSeq(rest, n + 1, Len(rest)) \in Seq(Bytes)
        /\ Len(SubSeq(rest, n + 1, Len(rest))) = Len(rest) - n
        /\ SubSeq(rest, 1, n) \in Seq(Bytes)
        /\ SubSeq(rest, 1, n) \o SubSeq(rest, n + 1, Len(rest)) = rest
    BY <1>2, SplitAt
  <2>2. sock \o SubSeq(rest, 1, n) \in Seq(Bytes)
    BY <1>2, <2>1, ConcatProperties
  <2>3. Len(rest) - n <= Len(rest) /\ Len(rest) - n \in Nat
    BY <1>2
  <2> QED  BY <1>1, <2>1, <2>2, <2>3
<1>4. ~prompt
  BY <1>1, <1>2 DEF Prompt
<1>5. Typed'
  BY <1>0, <1>3 DEF Typed, Arrive
<1>6. Listed'
  BY <1>0 DEF Listed, Arrive
<1>7. Whole'
  <2> SUFFICES ASSUME Receiving
               PROVE  /\ FlattenSeq(nodes) \o sock' \o rest' = message
                      /\ total = Len(FlattenSeq(nodes))
                      /\ request = <<>>
    BY <1>0 DEF Whole, Arrive
  <2>1. FlattenSeq(nodes) \in Seq(Bytes)
    BY Counted
  <2>2. (FlattenSeq(nodes) \o (sock \o SubSeq(rest, 1, n))) \o SubSeq(rest, n + 1, Len(rest)) =
          (FlattenSeq(nodes) \o sock) \o rest
    BY <1>2, <2>1, ArriveMoves, ZenonT(60)
  <2>3. (FlattenSeq(nodes) \o sock') \o rest' = (FlattenSeq(nodes) \o sock) \o rest
    BY <1>1, <2>2
  <2> QED  BY <2>3 DEF Whole
<1>8. Copied'
  <2> SUFFICES ASSUME ~Receiving, Copied
               PROVE  /\ total + Len(rest') <= Len(message)
                      /\ \E n_1 \in 0..total : CopiedTo(n_1)'
                      /\ pc = "done" => nodes = <<>>
    BY <1>0 DEF Copied, Arrive
  <2>1. total + Len(rest') <= Len(message)
    BY <1>2, <1>3, Counted DEF Copied, Typed
  <2>2. \A k \in 0..total : CopiedTo(k) => CopiedTo(k)'
    BY DEF CopiedTo, Arrive
  <2> QED  BY <2>1, <2>2 DEF Copied
<1>9. Timed'
  BY <1>0 DEF Timed, Arrive
<1>10. Prompt'
  BY <1>4 DEF Prompt, Arrive
<1> QED  BY <1>5, <1>6, <1>7, <1>8, <1>9, <1>10

\* A tick the thread does not run is one that late counts.
LEMMA LoseCPUKeeps == RInv /\ LoseCPU /\ UNCHANGED message => RInv'
<1> SUFFICES ASSUME RInv, LoseCPU, UNCHANGED message PROVE RInv'
  OBVIOUS
<1> USE DEF RInv, list, network
<1>0. Bytes' = Bytes /\ Receiving' /\ Receiving
  BY DEF LoseCPU, Bytes, Receiving
<1>1. Typed'
  BY <1>0 DEF Typed, LoseCPU
<1>2. Listed'
  BY <1>0 DEF Listed, LoseCPU
<1>3. Whole'
  BY <1>0 DEF Whole, LoseCPU
<1>4. Copied'
  BY <1>0 DEF Copied
<1>5. Timed'
  BY <1>0, SizeAssumption DEF Timed, LoseCPU
<1>6. Prompt'
  BY <1>0 DEF Prompt, LoseCPU, Timed
<1> QED  BY <1>1, <1>2, <1>3, <1>4, <1>5, <1>6

\* A buffer put behind the last one is empty, so the concatenation stays.
LEMMA TryReceiveKeeps ==
  RInv /\ pc = "check" /\ ~GaveUp /\ TryReceive /\ UNCHANGED message => RInv'
<1> SUFFICES ASSUME RInv, pc = "check", ~GaveUp, TryReceive, UNCHANGED message PROVE RInv'
  OBVIOUS
<1> USE DEF RInv, network, history
<1>0. Bytes' = Bytes /\ Receiving' /\ Receiving
  BY DEF TryReceive, Bytes, Receiving
<1>1. /\ last \in 1..Len(nodes) /\ Len(nodes) \in {last, last + 1} /\ Len(nodes) \in Nat
      /\ \A i \in last..Len(nodes) : nodes[i] = <<>>
      /\ nodes \in Seq(Seq(Bytes)) /\ <<>> \in Seq(Bytes)
  BY <1>0 DEF Listed, Typed
<1>2. /\ nodes' \in Seq(Seq(Bytes)) /\ Len(nodes') = last + 1
      /\ \A i \in 1..Len(nodes') : nodes'[i] = IF i <= Len(nodes) THEN nodes[i] ELSE <<>>
      /\ FlattenSeq(nodes') = FlattenSeq(nodes)
  <2>1. CASE last = Len(nodes)
    <3>1. nodes' = Append(nodes, <<>>)
      BY <2>1 DEF TryReceive
    <3>2. FlattenSeq(nodes) \o <<>> = FlattenSeq(nodes)
      BY Counted, ConcatEmptySeq
    <3>3. FlattenSeq(nodes') = FlattenSeq(nodes)
      BY <1>1, <3>1, <3>2, FlattenAppend
    <3>4. /\ nodes' \in Seq(Seq(Bytes)) /\ Len(nodes') = Len(nodes) + 1
          /\ \A i \in 1..Len(nodes) : nodes'[i] = nodes[i]
          /\ nodes'[Len(nodes) + 1] = <<>>
      BY <1>1, <3>1, AppendProperties
    <3>5. ASSUME NEW i \in 1..Len(nodes') PROVE nodes'[i] = IF i <= Len(nodes) THEN nodes[i] ELSE <<>>
      <4>1. i <= Len(nodes) \/ i = Len(nodes) + 1
        <5>1. i \in 1..Len(nodes) + 1
          BY <3>4
        <5> QED  BY <1>1, <5>1
      <4>2. i <= Len(nodes) => i \in 1..Len(nodes)
        OBVIOUS
      <4>3. i = Len(nodes) + 1 => ~(i <= Len(nodes))
        BY <1>1
      <4> QED  BY <3>4, <4>1, <4>2, <4>3
    <3> QED  BY <2>1, <3>3, <3>4, <3>5
  <2>2. CASE last # Len(nodes)
    <3>1. nodes' = nodes
      BY <2>2 DEF TryReceive
    <3> QED  BY <1>1, <2>2, <3>1
  <2> QED  BY <2>1, <2>2
<1>3. Typed'
  <2>1. \A i \in DOMAIN nodes' : Len(nodes'[i]) < BuffSize
    <3> SUFFICES ASSUME NEW i \in 1..Len(nodes') PROVE Len(nodes'[i]) < BuffSize
      BY <1>2
    <3>1. CASE i <= Len(nodes)
      <4>1. i \in DOMAIN nodes /\ nodes'[i] = nodes[i]
        BY <1>1, <1>2, <3>1
      <4> QED  BY <4>1 DEF Typed
    <3>2. CASE ~(i <= Len(nodes))
      BY <1>2, <3>2, SizeAssumption
    <3> QED  BY <3>1, <3>2
  <2> QED  BY <1>0, <1>2, <2>1 DEF Typed, TryReceive
<1>4. Listed'
  <2>1. last' = last /\ pc' = "recv"
    BY DEF TryReceive
  <2>2. ASSUME NEW i \in last..Len(nodes') PROVE nodes'[i] = <<>>
    BY <1>1, <1>2, <2>2, SMTT(40)
  <2>3. last \in 1..Len(nodes') /\ Len(nodes') \in {last, last + 1}
    BY <1>1, <1>2
  <2> QED  BY <1>2, <2>1, <2>2, <2>3 DEF Listed
<1>5. Whole'
  BY <1>0, <1>2 DEF Whole, TryReceive
<1>6. Copied'
  BY <1>0 DEF Copied
<1>7. Timed'
  BY <1>0, SizeAssumption DEF Timed, TryReceive, GaveUp
<1>8. Prompt'
  BY <1>0 DEF Prompt, TryReceive, GaveUp, Timed
<1> QED  BY <1>3, <1>4, <1>5, <1>6, <1>7, <1>8

\* The request as it is before anything is copied.
LEMMA GiveUpKeeps ==
  /\ RInv /\ pc = "check" /\ GaveUp /\ pc' = "copy" /\ unread' = sock
  /\ UNCHANGED <<message, network, list, elapsed, request, late, prompt>>
  => RInv'
<1> SUFFICES ASSUME RInv, pc = "check", GaveUp, pc' = "copy", unread' = sock,
                    UNCHANGED <<message, network, list, elapsed, request, late, prompt>>
             PROVE  RInv'
  OBVIOUS
<1> USE DEF RInv, network, list
<1>0. Bytes' = Bytes /\ ~Receiving' /\ Receiving
  BY DEF Bytes, Receiving
<1>1. Typed'
  BY <1>0 DEF Typed
<1>2. Listed'
  BY <1>0 DEF Listed
<1>3. Whole'
  BY <1>0 DEF Whole
<1>4. /\ FlattenSeq(nodes) \o sock \o rest = message /\ total = Len(FlattenSeq(nodes)) /\ request = <<>>
      /\ total + Len(sock) + Len(rest) = Len(message)
      /\ FlattenSeq(nodes) \in Seq(Bytes) /\ sock \in Seq(Bytes) /\ rest \in Seq(Bytes)
      /\ Len(sock) \in Nat /\ Len(rest) \in Nat /\ Len(message) \in Nat /\ message \in Seq(Bytes)
      /\ total \in Nat
  BY <1>0, Counted DEF Whole, Typed
<1>5. Copied'
  <2>1. total + Len(rest) <= Len(message)
    BY <1>4
  <2>2. FlattenSeq(nodes) = SubSeq(message, 1, total)
    <3>1. PICK f \in Seq(Bytes) : f = FlattenSeq(nodes)
      BY <1>4
    <3>2. PICK t \in Seq(Bytes) : t = sock \o rest
      BY <1>4, ConcatProperties
    <3>3. f \o t = message
      <4>1. (FlattenSeq(nodes) \o sock) \o rest = FlattenSeq(nodes) \o (sock \o rest)
        <5>1. \A b, c \in Seq(Bytes) : (f \o b) \o c = f \o (b \o c)
          BY <3>1, ConcatAssociative, SMTT(40)
        <5> QED  BY <1>4, <3>1, <5>1
      <4> QED  BY <1>4, <3>1, <3>2, <4>1
    <3>4. f = SubSeq(message, 1, Len(f))
      BY <3>3
    <3> QED  BY <1>4, <3>1, <3>4
  <2>3. CopiedTo(0)'
    <3>1. SubSeq(message, 1, 0) = <<>> /\ {} \in SUBSET (1..0)
      BY SubSeqEmpty
    <3>2. Reader!Keepable(<<>>, {})
      BY DEF Reader!Keepable
    <3>3. Reader!Kept(<<>>, {}) = <<>>
      BY KeptEmpty
    <3>4. 0 + 1 = 1
      OBVIOUS
    <3> QED  BY <1>4, <2>2, <3>1, <3>2, <3>3, <3>4 DEF CopiedTo
  <2>4. 0 \in 0..total
    BY <1>4
  <2> QED  BY <2>1, <2>3, <2>4 DEF Copied
<1>6. Timed'
  BY <1>0, <1>4, SizeAssumption DEF Timed, GaveUp
<1>7. Prompt'
  <2>1. ASSUME prompt, late = 0 PROVE sock = <<>> /\ total = Len(message)
    <3>1. elapsed # 0
      BY SizeAssumption DEF GaveUp, Timed
    <3>2. sock = <<>> /\ rest = <<>>
      BY <2>1, <3>1 DEF Prompt
    <3> QED  BY <1>4, <3>2
  <2> QED  BY <2>1 DEF Prompt
<1> QED  BY <1>1, <1>2, <1>3, <1>5, <1>6, <1>7

\* Both outcomes of looking at the clock keep the invariant.
LEMMA CheckKeeps == RInv /\ Check /\ UNCHANGED message => RInv'
BY TryReceiveKeeps, GiveUpKeeps DEF Check

\* recv() returns some of what is there, and leaves room for the NUL.
LEMMA ReceivedIs ==
  RInv /\ pc = "recv" /\ sock # <<>> => Received \in 1..Len(sock) /\ Received < BuffSize
<1> SUFFICES ASSUME RInv, pc = "recv", sock # <<>>
             PROVE  Received \in 1..Len(sock) /\ Received < BuffSize
  OBVIOUS
<1>1. Len(sock) \in Nat \ {0} /\ BuffSize \in Nat /\ BuffSize >= 2
  BY SizeAssumption, EmptySeq DEF RInv, Typed
<1>2. Received = IF BuffSize - 1 <= Len(sock) THEN BuffSize - 1 ELSE Len(sock)
  BY <1>1, MinTwo DEF Received
<1> QED  BY <1>1, <1>2

\* What recv() returns goes behind everything received so far: the buffer it is
\* put into is the last one that is not empty.
LEMMA ReceiveKeeps == RInv /\ Receive /\ UNCHANGED message => RInv'
<1> SUFFICES ASSUME RInv, Receive, UNCHANGED message PROVE RInv'
  OBVIOUS
<1> DEFINE r == Received
           d == SubSeq(sock, 1, r)
<1> USE DEF RInv
<1>0. Bytes' = Bytes /\ Receiving' /\ Receiving /\ pc = "recv" /\ pc' = "check" /\ sock # <<>>
  BY DEF Receive, Bytes, Receiving
<1>1. r \in 1..Len(sock) /\ r < BuffSize
  BY <1>0, ReceivedIs
<1> HIDE DEF r
<1>2. /\ sock \in Seq(Bytes) /\ rest \in Seq(Bytes) /\ Len(sock) \in Nat
      /\ r \in Nat /\ r \in 0..Len(sock)
      /\ nodes \in Seq(Seq(Bytes)) /\ Len(nodes) \in Nat
      /\ Len(nodes) = last + 1 /\ last \in 1..Len(nodes)
      /\ \A i \in last..Len(nodes) : nodes[i] = <<>>
      /\ total = Len(FlattenSeq(nodes)) /\ total \in Nat /\ request = <<>>
      /\ FlattenSeq(nodes) \in Seq(Bytes) /\ (FlattenSeq(nodes) \o sock) \o rest = message
  <2>1. sock \in Seq(Bytes) /\ rest \in Seq(Bytes) /\ nodes \in Seq(Seq(Bytes)) /\ total \in Nat
    BY DEF Typed
  <2>2. Len(sock) \in Nat /\ Len(nodes) \in Nat /\ r \in Nat /\ r \in 0..Len(sock)
    BY <1>1, <2>1
  <2>3. FlattenSeq(nodes) \in Seq(Bytes)
    BY Counted
  <2>4. /\ Len(nodes) = last + 1 /\ last \in 1..Len(nodes)
        /\ \A i \in last..Len(nodes) : nodes[i] = <<>>
    BY <1>0 DEF Listed
  <2>5. /\ total = Len(FlattenSeq(nodes)) /\ request = <<>>
        /\ (FlattenSeq(nodes) \o sock) \o rest = message
    BY <1>0 DEF Whole
  <2> QED  BY <2>1, <2>2, <2>3, <2>4, <2>5
<1>3. /\ nodes' = [nodes EXCEPT ![last] = d] /\ last' = last + 1 /\ total' = total + r
      /\ sock' = SubSeq(sock, r + 1, Len(sock)) /\ elapsed' = 0
      /\ prompt' = (prompt \/ (total = 0 /\ rest = <<>>))
      /\ rest' = rest /\ request' = request /\ late' = late /\ unread' = unread
  BY DEF Receive, Take, r
<1>4. d \in Seq(Bytes) /\ Len(d) = r /\ sock' \in Seq(Bytes)
  BY <1>2, <1>3, SplitAt
<1> HIDE DEF d
<1>5. /\ nodes' \in Seq(Seq(Bytes)) /\ Len(nodes') = Len(nodes)
      /\ \A j \in 1..Len(nodes) : nodes'[j] = IF j = last THEN d ELSE nodes[j]
  BY <1>2, <1>3, <1>4, ExceptSeq
<1>6. FlattenSeq(nodes') = FlattenSeq(nodes) \o d
  <2>1. FlattenSeq([nodes EXCEPT ![last] = d]) = FlattenSeq(nodes) \o d
    BY <1>2, <1>4, FlattenFill
  <2> QED  BY <1>3, <2>1
<1>7. Typed'
  <2>1. ASSUME NEW i \in DOMAIN nodes' PROVE Len(nodes'[i]) < BuffSize
    <3>1. i \in 1..Len(nodes) /\ i \in DOMAIN nodes
      BY <1>2, <1>5
    <3>2. CASE i = last
      BY <1>1, <1>4, <1>5, <3>1, <3>2
    <3>3. CASE i # last
      BY <1>5, <3>1, <3>3 DEF Typed
    <3> QED  BY <3>2, <3>3
  <2>2. last' \in Nat /\ total' \in Nat /\ prompt' \in BOOLEAN
    BY <1>2, <1>3 DEF Typed
  <2> QED  BY <1>0, <1>3, <1>4, <1>5, <2>1, <2>2 DEF Typed
<1>8. Listed'
  <2>1. last' \in 1..Len(nodes') /\ Len(nodes') = last'
    BY <1>2, <1>3, <1>5, SMTT(40)
  <2>2. ASSUME NEW i \in last'..Len(nodes') PROVE nodes'[i] = <<>>
    <3>1. i = last + 1 /\ i \in 1..Len(nodes) /\ i # last /\ i \in last..Len(nodes)
      BY <1>2, <1>3, <1>5, SMTT(40)
    <3> QED  BY <1>2, <1>5, <3>1
  <2> QED  BY <1>0, <2>1, <2>2 DEF Listed
<1>9. Whole'
  <2>1. Len(FlattenSeq(nodes) \o d) = total + r
    BY <1>2, <1>4, ConcatProperties
  <2>2. (FlattenSeq(nodes) \o SubSeq(sock, 1, r)) \o SubSeq(sock, r + 1, Len(sock)) =
          FlattenSeq(nodes) \o sock
    BY <1>2, ReceiveMoves, Zenon
  <2>3. (FlattenSeq(nodes') \o sock') \o rest' = message
    BY <1>2, <1>3, <1>6, <2>2 DEF d
  <2> QED  BY <1>2, <1>3, <1>6, <2>1, <2>3 DEF Whole
<1>10. Copied'
  BY <1>0 DEF Copied
<1>11. Timed'
  BY <1>0, <1>3, SizeAssumption DEF Timed
<1>12. Prompt'
  <2>1. total' > 0
    BY <1>1, <1>2, <1>3
  <2> QED  BY <1>0, <1>3, <2>1 DEF Prompt
<1> QED  BY <1>7, <1>8, <1>9, <1>10, <1>11, <1>12

\* A recv() that returns nothing changes nothing.
LEMMA NothingKeeps == RInv /\ Nothing /\ UNCHANGED message => RInv'
<1> SUFFICES ASSUME RInv, Nothing, UNCHANGED message PROVE RInv'
  OBVIOUS
<1> USE DEF RInv, network, list, history
<1>0. Bytes' = Bytes /\ Receiving' /\ Receiving /\ sock = <<>>
  BY DEF Nothing, Bytes, Receiving
<1>1. Typed'
  BY <1>0 DEF Typed, Nothing
<1>2. Listed'
  BY <1>0 DEF Listed, Nothing
<1>3. Whole'
  BY <1>0 DEF Whole, Nothing
<1>4. Copied'
  BY <1>0 DEF Copied
<1>5. Timed'
  BY <1>0 DEF Timed, Nothing
<1>6. Prompt'
  BY <1>0 DEF Prompt, Nothing
<1> QED  BY <1>1, <1>2, <1>3, <1>4, <1>5, <1>6

\* usleep() takes a tick, and the limits bound how many ticks that can make.
LEMMA WakeKeeps == RInv /\ Wake /\ UNCHANGED message => RInv'
<1> SUFFICES ASSUME RInv, Wake, UNCHANGED message PROVE RInv'
  OBVIOUS
<1> USE DEF RInv, network, list, history
<1>0. Bytes' = Bytes /\ Receiving' /\ Receiving
  BY DEF Wake, Bytes, Receiving
<1>1. Typed'
  BY <1>0 DEF Typed, Wake
<1>2. Listed'
  BY <1>0 DEF Listed, Wake
<1>3. Whole'
  BY <1>0 DEF Whole, Wake
<1>4. Copied'
  BY <1>0 DEF Copied
<1>5. Timed'
  BY <1>0, SizeAssumption DEF Timed, Wake
<1>6. Prompt'
  BY <1>0 DEF Prompt, Wake
<1> QED  BY <1>1, <1>2, <1>3, <1>4, <1>5, <1>6

\* When no buffer is left the request stays as it is.
LEMMA ReturnKeeps == RInv /\ Return /\ UNCHANGED message => RInv'
<1> SUFFICES ASSUME RInv, Return, UNCHANGED message PROVE RInv'
  OBVIOUS
<1> USE DEF RInv, network, list, history
<1>0. Bytes' = Bytes /\ ~Receiving' /\ ~Receiving /\ nodes = <<>>
  BY DEF Return, Bytes, Receiving
<1>1. Typed'
  BY <1>0 DEF Typed, Return
<1>2. Listed'
  BY <1>0 DEF Listed
<1>3. Whole'
  BY <1>0 DEF Whole
<1>4. Copied'
  <2>1. \A k \in 0..total : CopiedTo(k) => CopiedTo(k)'
    BY DEF CopiedTo, Return
  <2> QED  BY <1>0, <2>1 DEF Copied, Return
<1>5. Timed'
  BY <1>0 DEF Timed, Return
<1>6. Prompt'
  BY <1>0 DEF Prompt, Return
<1> QED  BY <1>1, <1>2, <1>3, <1>4, <1>5, <1>6

\* The bytes behind the NUL at which strcpy() stopped may be left out.
LEMMA KeepableMore ==
  ASSUME NEW S, NEW m \in Seq(S), NEW n \in Nat, NEW d \in Seq(S), n + Len(d) <= Len(m),
         \A i \in 1..Len(d) : d[i] = m[n + i],
         NEW c \in 0..Len(d), \A i \in 1..c : d[i] # Nul, c < Len(d) => d[c + 1] = Nul,
         NEW places \in SUBSET (1..n), Reader!Keepable(SubSeq(m, 1, n), places)
  PROVE  Reader!Keepable(SubSeq(m, 1, n + Len(d)), places \cup (n + 1..n + c))
<1>0. Len(m) \in Nat /\ Len(d) \in Nat /\ c \in Nat /\ n \in 0..Len(m) /\ n + Len(d) \in 0..Len(m)
  OBVIOUS
<1> DEFINE u == SubSeq(m, 1, n)
           v == SubSeq(m, 1, n + Len(d))
           all == places \cup (n + 1..n + c)
<1>1. u \in Seq(S) /\ Len(u) = n /\ \A i \in 1..n : u[i] = m[i]
  <2>1. \A i \in 1..n : m[i] \in S
    BY <1>0
  <2>2. \A i \in 1..n : i \in 1..n - 1 + 1 /\ 1 + i - 1 = i
    BY <1>0
  <2> QED  BY <1>0, <2>1, <2>2, SplitAt, SubSeqProperties
<1>2. v \in Seq(S) /\ Len(v) = n + Len(d) /\ \A i \in 1..n + Len(d) : v[i] = m[i]
  <2>1. \A i \in 1..n + Len(d) : m[i] \in S
    BY <1>0
  <2>2. \A i \in 1..n + Len(d) : i \in 1..(n + Len(d)) - 1 + 1 /\ 1 + i - 1 = i
    BY <1>0
  <2> QED  BY <1>0, <2>1, <2>2, SplitAt, SubSeqProperties
<1>3. DOMAIN u = 1..n /\ DOMAIN v = 1..n + Len(d)
  BY <1>1, <1>2
<1>4. /\ \A i \in places : u[i] # Nul
      /\ \A i \in 1..n \ places : \E j \in 1..i : u[j] = Nul
  BY <1>3 DEF Reader!Keepable
<1> HIDE DEF u, v
<1>5. ASSUME NEW i \in all PROVE v[i] # Nul
  <2>1. CASE i \in places
    <3>1. u[i] # Nul /\ i \in 1..n /\ i \in 1..n + Len(d)
      BY <1>0, <1>4, <2>1
    <3>2. u[i] = m[i] /\ v[i] = m[i]
      BY <1>1, <1>2, <3>1
    <3> QED  BY <3>1, <3>2
  <2>2. CASE i \in n + 1..n + c
    <3>1. i - n \in 1..c /\ i - n \in 1..Len(d) /\ n + (i - n) = i /\ i \in 1..n + Len(d)
      BY <1>0, <2>2
    <3>2. v[i] = m[i] /\ d[i - n] = m[n + (i - n)] /\ d[i - n] # Nul
      BY <1>2, <3>1
    <3> QED  BY <3>1, <3>2
  <2> QED  BY <2>1, <2>2
<1>6. ASSUME NEW i \in (1..n + Len(d)) \ all PROVE \E j \in 1..i : v[j] = Nul
  <2>1. CASE i <= n
    <3>1. i \in 1..n \ places
      BY <1>0, <1>6, <2>1
    <3>2. PICK j \in 1..i : u[j] = Nul
      BY <1>4, <3>1
    <3>3. j \in 1..n /\ j \in 1..n + Len(d)
      BY <1>0, <2>1
    <3> QED  BY <1>1, <1>2, <3>2, <3>3
  <2>2. CASE ~(i <= n)
    <3>1. ~(i <= n + c)
      BY <1>0, <1>6, <2>2
    <3>2. c < Len(d) /\ n + c + 1 \in 1..i /\ n + c + 1 \in 1..n + Len(d)
          /\ c + 1 \in 1..Len(d) /\ n + (c + 1) = n + c + 1
      BY <1>0, <3>1
    <3>3. v[n + c + 1] = m[n + c + 1] /\ d[c + 1] = m[n + (c + 1)] /\ d[c + 1] = Nul
      BY <1>2, <3>2
    <3> QED  BY <3>2, <3>3
  <2> QED  BY <2>1, <2>2
<1> QED  BY <1>3, <1>5, <1>6 DEF Reader!Keepable, v

\* Copying a buffer extends the reading by what strcpy() takes of it, up to its first NUL.
LEMMA CopyKeeps == RInv /\ Copy /\ UNCHANGED message => RInv'
<1> SUFFICES ASSUME RInv, Copy, UNCHANGED message PROVE RInv'
  OBVIOUS
<1> USE DEF RInv
<1>0. Bytes' = Bytes /\ ~Receiving' /\ ~Receiving /\ pc' = "copy" /\ pc = "copy" /\ nodes # <<>>
  BY DEF Copy, Bytes, Receiving
<1>1. /\ request' = request \o Text(Head(nodes)) /\ nodes' = Tail(nodes)
      /\ rest' = rest /\ sock' = sock /\ last' = last /\ total' = total /\ elapsed' = elapsed
      /\ late' = late /\ unread' = unread /\ prompt' = prompt
  BY DEF Copy, network, history
<1>2. PICK d : d = Head(nodes)
  OBVIOUS
<1>3. /\ nodes \in Seq(Seq(Bytes)) /\ d \in Seq(Bytes) /\ Tail(nodes) \in Seq(Seq(Bytes))
      /\ Len(nodes) # 0 /\ Len(d) \in Nat /\ Len(Tail(nodes)) = Len(nodes) - 1
      /\ \A i \in 1..Len(Tail(nodes)) : Tail(nodes)[i] = nodes[i + 1]
  <2>1. nodes \in Seq(Seq(Bytes))
    BY DEF Typed
  <2>2. Len(nodes) # 0
    BY <1>0, <2>1, EmptySeq
  <2>3. d \in Seq(Bytes)
    BY <1>0, <1>2, <2>1, HeadTailProperties
  <2>4. Len(d) \in Nat
    BY <2>3
  <2> QED  BY <1>0, <2>1, <2>2, <2>3, <2>4, HeadTailProperties
<1>4. PICK n \in 0..total : CopiedTo(n)
  BY <1>0 DEF Copied
<1>5. PICK places \in SUBSET (1..n) :
        /\ Reader!Keepable(SubSeq(message, 1, n), places)
        /\ request = Reader!Kept(SubSeq(message, 1, n), places)
  BY <1>4 DEF CopiedTo
<1>6. PICK c \in 0..Len(d) : /\ Text(d) = SubSeq(d, 1, c)
                             /\ \A i \in 1..c : d[i] # Nul
                             /\ c < Len(d) => d[c + 1] = Nul
  BY <1>3, TextIs
<1>7. d \o FlattenSeq(Tail(nodes)) = SubSeq(message, n + 1, total)
  <2>1. FlattenSeq(nodes) = d \o FlattenSeq(Tail(nodes))
    BY <1>3, <1>2, FlattenHead
  <2> QED  BY <1>4, <2>1 DEF CopiedTo
<1>8. /\ message \in Seq(Bytes) /\ Len(message) \in Nat /\ total \in Nat /\ total <= Len(message)
      /\ n \in Nat /\ n <= total
  <2>1. total + Len(rest) <= Len(message) /\ Len(rest) \in Nat /\ total \in Nat
    BY <1>0, Counted DEF Copied, Typed
  <2>2. message \in Seq(Bytes) /\ Len(message) \in Nat
    BY Counted
  <2> QED  BY <2>1, <2>2
<1>9. PICK t \in Seq(Bytes) : t = FlattenSeq(Tail(nodes))
  BY <1>3, FlattenType
<1>10. /\ n + Len(d) <= total
      /\ Holds(message, n, d)
      /\ t = SubSeq(message, n + Len(d) + 1, total)
  <2>1. Split(message, n, d, t, total) /\ d \in Seq(Bytes)
    BY <1>3, <1>7, <1>8, <1>9 DEF Split
  <2> QED  BY <1>8, <1>9, <2>1, PieceOf
<1>11. n + Len(d) <= Len(message)
  BY <1>3, <1>8, <1>10
<1>12. PICK k \in Nat : k = n + Len(d)
  BY <1>3, <1>8
<1>13. PICK all : all = places \cup (n + 1..n + c)
  OBVIOUS
<1>14. all \in SUBSET (1..k)
  BY <1>3, <1>8, <1>12, <1>13
<1>15. Reader!Kept(SubSeq(message, 1, k), all) = request \o SubSeq(d, 1, c)
  <2>1. Reader!Kept(SubSeq(message, 1, n + Len(d)), places \cup (n + 1..n + c)) =
           Reader!Kept(SubSeq(message, 1, n), places) \o SubSeq(d, 1, c)
    <3>1. Extends(message, n, d, c, places)
      BY <1>3, <1>8, <1>10, KeptMore
    <3> QED  BY <3>1 DEF Extends
  <2> QED  BY <1>5, <1>12, <1>13, <2>1
<1>16. Reader!Keepable(SubSeq(message, 1, k), all)
  <2>1. Reader!Keepable(SubSeq(message, 1, n + Len(d)), places \cup (n + 1..n + c))
    BY <1>3, <1>5, <1>6, <1>8, <1>10, <1>11, KeepableMore DEF Holds
  <2> QED  BY <1>12, <1>13, <2>1
<1>17. request' = request \o SubSeq(d, 1, c)
  BY <1>1, <1>6, <1>2
<1>18. Typed'
  <2>1. SubSeq(d, 1, c) \in Seq(Bytes)
    BY <1>3, SplitAt
  <2>2. request' \in Seq(Bytes)
    BY <1>17, <2>1, ConcatProperties DEF Typed
  <2>3. ASSUME NEW i \in DOMAIN nodes' PROVE Len(nodes'[i]) < BuffSize
    <3>1. i \in 1..Len(Tail(nodes)) /\ i + 1 \in DOMAIN nodes /\ nodes'[i] = nodes[i + 1]
      BY <1>1, <1>3
    <3> QED  BY <3>1 DEF Typed
  <2> QED  BY <1>0, <1>1, <1>3, <2>2, <2>3 DEF Typed
<1>19. Listed'
  BY <1>0 DEF Listed
<1>20. Whole'
  BY <1>0 DEF Whole
<1>21. Copied'
  <2>1. CopiedTo(k)'
    BY <1>1, <1>9, <1>10, <1>12, <1>14, <1>15, <1>16, <1>17 DEF CopiedTo
  <2>2. k \in 0..total
    BY <1>8, <1>10, <1>12
  <2>3. total + Len(rest) <= Len(message)
    BY <1>0 DEF Copied
  <2> QED  BY <1>0, <1>1, <2>1, <2>2, <2>3 DEF Copied
<1>22. Timed'
  BY <1>0, <1>1 DEF Timed
<1>23. Prompt'
  BY <1>0, <1>1 DEF Prompt
<1> QED  BY <1>18, <1>19, <1>20, <1>21, <1>22, <1>23

\* Every step of the loop, the client and the machine keeps the invariant.
LEMMA NextKeepsRInv == RInv /\ [Next]_vars => RInv'
<1> SUFFICES ASSUME RInv, [Next]_vars PROVE RInv'
  OBVIOUS
<1>1. CASE Next
  BY <1>1, ArriveKeeps, LoseCPUKeeps, CheckKeeps, ReceiveKeeps, NothingKeeps, WakeKeeps,
     CopyKeeps, ReturnKeeps DEF Next, Step
<1>2. CASE UNCHANGED vars
  <2> USE <1>2 DEF vars, network, list, history, RInv
  <2>0. Bytes' = Bytes /\ Receiving' = Receiving
    BY DEF Bytes, Receiving
  <2>1. Typed'
    BY <2>0 DEF Typed
  <2>2. Listed' /\ Whole'
    BY <2>0 DEF Listed, Whole
  <2>3. Copied'
    <3>1. \A k \in 0..total : CopiedTo(k) => CopiedTo(k)'
      BY DEF CopiedTo
    <3> QED  BY <2>0, <3>1 DEF Copied
  <2>4. Timed' /\ Prompt'
    BY <2>0 DEF Timed, Prompt
  <2> QED  BY <2>1, <2>2, <2>3, <2>4
<1> QED  BY <1>1, <1>2

\* RInv is an invariant of jnet_read_request's receiving half, whatever arrives when.
THEOREM ReadInvariance == Spec => []RInv
BY InitRInv, NextKeepsRInv, PTL DEF Spec

-----------------------------------------------------------------------------
(* What follows from it.                                                   *)

\* The types of the module follow: last is a node of the list, with a successor when
\* recv() is called, and total never exceeds the message.
LEMMA TypedSoFar == RInv => TypeOK
<1> SUFFICES ASSUME RInv PROVE TypeOK
  OBVIOUS
<1> USE DEF RInv
<1>1. last \in Nat /\ Len(nodes) \in Nat /\ DOMAIN nodes = 1..Len(nodes)
  BY DEF Typed
<1>2. pc \in {"check", "recv", "asleep"} => last \in DOMAIN nodes
  BY <1>1 DEF Listed, Receiving
<1>3. pc = "recv" => last + 1 \in DOMAIN nodes
  BY <1>1 DEF Listed, Receiving
<1>4. total \in 0..Len(message)
  <2>1. CASE Receiving
    <3>1. total + Len(sock) + Len(rest) = Len(message)
      BY <2>1, Counted
    <3>2. total \in Nat /\ Len(sock) \in Nat /\ Len(rest) \in Nat /\ Len(message) \in Nat
      BY Counted DEF Typed
    <3> QED  BY <3>1, <3>2
  <2>2. CASE ~Receiving
    <3>1. total \in Nat /\ Len(rest) \in Nat /\ Len(message) \in Nat
      BY Counted DEF Typed
    <3> QED  BY <2>2, <3>1 DEF Copied
  <2> QED  BY <2>1, <2>2
<1>5. elapsed \in 0..Timeout + 1 + MaxLate /\ late \in 0..MaxLate
  BY SizeAssumption DEF Timed
<1> QED  BY <1>2, <1>3, <1>4, <1>5 DEF TypeOK, Typed

\* After the loop the buffers hold what of the total has not been copied.
LEMMA LeftToCopy ==
  ASSUME RInv, ~Receiving, NEW n \in 0..total, CopiedTo(n)
  PROVE  /\ n \in 0..Len(message) /\ total \in 0..Len(message)
         /\ Len(FlattenSeq(nodes)) = total - n
<1>1. message \in Seq(Bytes) /\ total \in 0..Len(message) /\ Len(message) \in Nat
  BY TypedSoFar, Counted DEF TypeOK
<1>2. \A i \in n + 1..total : message[i] \in Bytes
  BY <1>1
<1>3. Len(SubSeq(message, n + 1, total)) =
        IF n + 1 <= total THEN total - (n + 1) + 1 ELSE 0
  BY <1>1, <1>2, SubSeqProperties
<1>4. Len(FlattenSeq(nodes)) = Len(SubSeq(message, n + 1, total))
  BY DEF CopiedTo
<1> QED  BY <1>1, <1>3, <1>4

\* What was received is all there, in order, and its copy fits what is allocated for it.
LEMMA LosesNothing == RInv => NothingLost
<1> SUFFICES ASSUME RInv PROVE NothingLost
  OBVIOUS
<1>1. ASSUME pc \in {"check", "recv", "asleep"}
      PROVE  FlattenSeq(nodes) \o sock \o rest = message /\ total = Len(FlattenSeq(nodes))
  BY <1>1 DEF RInv, Whole, Receiving
<1>2. ASSUME pc \in {"copy", "done"} PROVE Len(request) + Len(FlattenSeq(nodes)) <= total
  <2>1. ~Receiving
    BY <1>2 DEF Receiving
  <2>2. PICK n \in 0..total : CopiedTo(n)
    BY <2>1 DEF RInv, Copied
  <2>3. n \in 0..Len(message) /\ total \in 0..Len(message) /\ Len(FlattenSeq(nodes)) = total - n
    BY <2>1, <2>2, LeftToCopy
  <2>4. message \in Seq(Bytes) /\ request \in Seq(Bytes) /\ Len(message) \in Nat
    BY Counted DEF RInv, Typed
  <2>5. PICK places \in SUBSET (1..n) : request = Reader!Kept(SubSeq(message, 1, n), places)
    BY <2>2 DEF CopiedTo
  <2>6. Len(Reader!Kept(SubSeq(message, 1, n), places)) <= n
    BY <2>3, <2>4, KeptLen
  <2>7. Len(request) \in Nat
    BY <2>4
  <2> QED  BY <2>3, <2>4, <2>5, <2>6, <2>7
<1> QED  BY <1>1, <1>2 DEF NothingLost

\* Without data the whole timeout has passed.
LEMMA WaitsForData == RInv => EmptyAfterTimeout
BY DEF RInv, Timed, Receiving, EmptyAfterTimeout

\* A message that was all there at the first recv() and has no NUL was received to its
\* end, and every byte of it was kept.
LEMMA ReadsPromptWhole == RInv => PromptRequestWhole
<1> SUFFICES ASSUME RInv, pc = "done", prompt, late = 0, Nul \notin Bytes
             PROVE  request = message
  BY DEF PromptRequestWhole
<1>1. ~Receiving
  BY DEF Receiving
<1>2. total = Len(message) /\ nodes = <<>>
  BY <1>1 DEF RInv, Prompt, Copied
<1>3. PICK n \in 0..total : CopiedTo(n)
  BY <1>1 DEF RInv, Copied
<1>4. Len(FlattenSeq(nodes)) = total - n /\ total \in 0..Len(message)
  BY <1>1, <1>3, LeftToCopy
<1>5. n = total
  <2>1. Len(FlattenSeq(nodes)) = 0
    BY <1>2, FlattenEmpty
  <2> QED  BY <1>4, <2>1
<1>6. message \in Seq(Bytes) /\ Len(message) \in Nat
  BY Counted
<1>7. SubSeq(message, 1, n) = message
  BY <1>2, <1>5, <1>6
<1>8. PICK places \in SUBSET (1..n) :
        /\ Reader!Keepable(message, places)
        /\ request = Reader!Kept(message, places)
  BY <1>3, <1>7 DEF CopiedTo
<1>9. 1..n \subseteq places
  <2>1. \A i \in DOMAIN message : message[i] # Nul
    BY DEF Bytes
  <2>2. DOMAIN message = 1..n
    BY <1>2, <1>5, <1>6
  <2>3. ASSUME NEW i \in 1..n, i \notin places PROVE FALSE
    <3>1. PICK j \in 1..i : message[j] = Nul
      BY <1>8, <2>2, <2>3 DEF Reader!Keepable
    <3>2. j \in DOMAIN message
      BY <2>2, <1>5, <1>6
    <3> QED  BY <2>1, <3>1, <3>2
  <2> QED  BY <2>3
<1>10. Reader!Kept(SubSeq(message, 1, n), places) = SubSeq(message, 1, n)
  BY <1>2, <1>5, <1>6, <1>9, KeptAll
<1> QED  BY <1>7, <1>8, <1>10

\* jnet_read_request always reads into a node that exists and has a successor, and no
\* buffer is filled beyond the byte its NUL needs.
THEOREM TypeCorrect == Spec => []TypeOK
BY ReadInvariance, TypedSoFar, PTL

\* No byte is lost, repeated or moved until the copy, and the copy fits the
\* totalBytes + 1 bytes that were allocated for it.
THEOREM NothingLostHolds == Spec => []NothingLost
BY ReadInvariance, LosesNothing, PTL

\* An empty request is returned only after the whole timeout.
THEOREM EmptyAfterTimeoutHolds == Spec => []EmptyAfterTimeout
BY ReadInvariance, WaitsForData, PTL

\* A text that was all there at the first recv() is returned whole, in however many
\* buffers it came, if the thread was not kept from reading.
THEOREM PromptRequestWholeHolds == Spec => []PromptRequestWhole
BY ReadInvariance, ReadsPromptWhole, PTL

\* The loop begins as a RequestReader begins.
LEMMA ReaderInit == Init => Reader!Init
<1> SUFFICES ASSUME Init PROVE Reader!Init
  OBVIOUS
<1>1. message \in Messages /\ rest = message /\ pc = "check"
  BY DEF Init
<1>2. Len(message) \in Nat
  <2>1. message \in Seq(Bytes)
    BY <1>1, MessageSeq
  <2> QED  BY <2>1
<1>3. Len(message) - Len(rest) = 0
  BY <1>1, <1>2
<1> QED  BY <1>1, <1>3 DEF Reader!Init

\* A step that neither sends nor returns is one the caller does not see.
LEMMA ReaderStutters ==
  (pc' = "done" <=> pc = "done") /\ (pc = "done" => request' = request)
    /\ UNCHANGED <<message, rest>> => UNCHANGED Reader!vars
BY DEF Reader!vars

\* What arrives is what the client sends.
LEMMA ReaderSends == RInv /\ Arrive /\ UNCHANGED message => Reader!Send
<1> SUFFICES ASSUME RInv, Arrive, UNCHANGED message PROVE Reader!Send
  OBVIOUS
<1>1. Len(message) \in Nat /\ Len(rest) \in Nat /\ rest \in Seq(Bytes)
  BY Counted DEF RInv, Typed
<1>2. Len(rest) <= Len(message)
  <2>1. total \in Nat
    BY DEF RInv, Typed
  <2> QED  BY <1>1, <2>1, Counted DEF RInv, Copied
<1>3. PICK n \in 1..Len(rest) : rest' = SubSeq(rest, n + 1, Len(rest))
  BY DEF Arrive
<1>4. Len(rest') = Len(rest) - n
  <2>1. n \in 0..Len(rest)
    BY <1>1
  <2>2. Len(SubSeq(rest, n + 1, Len(rest))) = Len(rest) - n
    BY <1>1, <2>1, SplitAt
  <2> QED  BY <1>3, <2>2
<1>5. Len(message) - Len(rest) < Len(message)
      /\ Len(message) - Len(rest') \in (Len(message) - Len(rest)) + 1..Len(message)
  BY <1>1, <1>2, <1>4
<1>6. pc' = pc /\ request' = request /\ message' = message
  BY DEF Arrive
<1> QED  BY <1>5, <1>6 DEF Reader!Send

\* What is returned is a reading of a front of what was sent.
LEMMA ReaderReturns == RInv /\ Return /\ UNCHANGED message => Reader!Return
<1> SUFFICES ASSUME RInv, Return, UNCHANGED message PROVE Reader!Return
  OBVIOUS
<1>1. pc = "copy" /\ pc' = "done" /\ ~Receiving
      /\ request' = request /\ rest' = rest /\ message' = message
  BY DEF Return, Receiving, network
<1>2. PICK n \in 0..total : CopiedTo(n)
  BY <1>1 DEF RInv, Copied
<1>3. n \in 0..Len(message) - Len(rest) /\ n \in 0..Len(message)
  <2>1. Len(message) \in Nat /\ Len(rest) \in Nat /\ total \in Nat
    BY Counted DEF RInv, Typed
  <2>2. total + Len(rest) <= Len(message)
    BY <1>1 DEF RInv, Copied
  <2> QED  BY <2>1, <2>2
<1>4. PICK s : s = SubSeq(message, 1, n)
  OBVIOUS
<1>5. DOMAIN s = 1..n
  <2>1. message \in Seq(Bytes)
    BY Counted
  <2>2. s \in Seq(Bytes) /\ Len(s) = n
    BY <1>3, <1>4, <2>1, SplitAt
  <2> QED  BY <2>2
<1>6. PICK places \in SUBSET (1..n) : Reader!Keepable(s, places) /\ request = Reader!Kept(s, places)
  BY <1>2, <1>4 DEF CopiedTo
<1>7. request \in Reader!Readings(s)
  BY <1>5, <1>6 DEF Reader!Readings
<1>8. \E r \in Reader!Readings(SubSeq(message, 1, n)) : {request} = {r}
  BY <1>4, <1>7
<1>9. \E k \in 0..Len(message) - Len(rest) :
         \E r \in Reader!Readings(SubSeq(message, 1, k)) : {request} = {r}
  BY <1>3, <1>8
<1> QED  BY <1>1, <1>9 DEF Reader!Return

\* Every step of jnet_read_request is one of a RequestReader or none.
LEMMA ReaderSteps == RInv /\ [Next]_vars => [Reader!Next]_(Reader!vars)
<1> SUFFICES ASSUME RInv, [Next]_vars PROVE Reader!Next \/ UNCHANGED Reader!vars
  OBVIOUS
<1>1. CASE Arrive /\ UNCHANGED message
  BY <1>1, ReaderSends DEF Reader!Next
<1>2. CASE Return /\ UNCHANGED message
  BY <1>2, ReaderReturns DEF Reader!Next
<1>3. CASE (LoseCPU \/ Check \/ Receive \/ Nothing \/ Wake \/ Copy) /\ UNCHANGED message
  <2>1. pc # "done" /\ pc' # "done" /\ UNCHANGED <<message, rest>>
    BY <1>3 DEF LoseCPU, Check, TryReceive, Receive, Nothing, Wake, Copy, network
  <2> QED  BY <2>1, ReaderStutters
<1>4. CASE UNCHANGED vars
  BY <1>4, ReaderStutters DEF vars, network
<1> QED  BY <1>1, <1>2, <1>3, <1>4 DEF Next, Step

\* jnet_read_request implements RequestReader: it returns once, and what it returns is
\* read from the front of what the client sent, in order and with nothing added.
THEOREM ReadsInOrderHolds == Spec => ReadsInOrder
BY ReaderInit, ReaderSteps, ReadInvariance, PTL DEF Spec, ReadsInOrder, Reader!Spec
=============================================================================
