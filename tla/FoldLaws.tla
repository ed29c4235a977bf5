------------------------------- MODULE FoldLaws -------------------------------
(***************************************************************************)
(* Induction over the natural numbers, and what the left fold of           *)
(* SequencesExt does to the empty sequence and to the last element of a    *)
(* longer one.  A module that folds with an operator of its own            *)
(* instantiates this one with that operator.                               *)
(***************************************************************************)
EXTENDS Integers, SequencesExt, TLAPS, SequenceTheorems, WellFoundedInduction

CONSTANT Op(_, _)

Fold(base, s) == FoldLeft(Op, base, s)

\* A set that holds 0 and the successor of each of its members holds every number.
LEMMA Induction ==
  ASSUME NEW S, 0 \in S, \A n \in Nat : n \in S => n + 1 \in S
  PROVE  \A n \in Nat : n \in S
<1> SUFFICES ASSUME Nat \ S # {} PROVE FALSE
  OBVIOUS
<1>1. PICK m \in Nat \ S : \A y \in Nat \ S : ~(<<y, m>> \in OpToRel(<, Nat))
  BY NatLessThanWellFounded, WFMin
<1>2. \A k \in Nat : k < m => k \in S
  BY <1>1 DEF OpToRel
<1>3. m # 0
  BY <1>1
<1>4. m - 1 \in Nat /\ m - 1 < m /\ (m - 1) + 1 = m
  BY <1>3
<1>5. QED
  BY <1>2, <1>4

\* The function behind a fold: what it gives for a set of indices is the fold of the
\* elements at those indices.
IsFold(iter, I, base, s) ==
    iter = [J \in SUBSET I |-> IF J = {} THEN base ELSE Op(iter[J \ {Max(J)}], s[Max(J)])]

LEMMA MaxOfInterval ==
  ASSUME NEW k \in Nat
  PROVE  Max(1 .. k + 1) = k + 1 /\ (1 .. k + 1) \ {k + 1} = 1 .. k
<1>1. \A m \in 1 .. k + 1 : (\A n \in 1 .. k + 1 : m >= n) => m = k + 1
  OBVIOUS
<1>2. k + 1 \in 1 .. k + 1 /\ \A n \in 1 .. k + 1 : k + 1 >= n
  OBVIOUS
<1>3. Max(1 .. k + 1) = k + 1
  BY <1>1, <1>2 DEF Max
<1>4. QED
  BY <1>3

LEMMA MaxOfSet ==
  ASSUME NEW k \in Nat, NEW J \in SUBSET (1 .. k + 1), k + 1 \in J
  PROVE  Max(J) = k + 1
<1>1. \A m \in J : (\A n \in J : m >= n) => m = k + 1
  OBVIOUS
<1>2. \A n \in J : k + 1 >= n
  OBVIOUS
<1>3. QED
  BY <1>1, <1>2 DEF Max

LEMMA MaxInSet ==
  ASSUME NEW k \in Nat, NEW J \in SUBSET (1 .. k), J # {}
  PROVE  Max(J) \in J
<1> DEFINE P == {n \in Nat : \A K \in SUBSET (1 .. n) : K # {} => Max(K) \in K}
<1>1. 0 \in P
  <2>1. 1 .. 0 = {} /\ SUBSET {} = {{}}
    OBVIOUS
  <2>2. QED
    BY <2>1
<1>2. ASSUME NEW n \in Nat, n \in P
      PROVE  n + 1 \in P
  <2>1. SUFFICES ASSUME NEW K \in SUBSET (1 .. n + 1), K # {}
                 PROVE  Max(K) \in K
    OBVIOUS
  <2>2. CASE n + 1 \in K
    BY <2>2, MaxOfSet
  <2>3. CASE n + 1 \notin K
    <3>1. K \in SUBSET (1 .. n)
      BY <2>3
    <3>2. QED
      BY <1>2, <2>1, <3>1
  <2>4. QED
    BY <2>2, <2>3
<1> HIDE DEF P
<1>3. k \in P
  BY <1>1, <1>2, Induction
<1>4. QED
  BY <1>3 DEF P

\* Such a function exists.
LEMMA IsFoldExists ==
  ASSUME NEW base, NEW s, NEW k \in Nat
  PROVE  \E iter : IsFold(iter, 1 .. k, base, s)
<1> DEFINE P == {n \in Nat : \E iter : IsFold(iter, 1 .. n, base, s)}
<1>1. 0 \in P
  <2>1. 1 .. 0 = {} /\ SUBSET {} = {{}}
    OBVIOUS
  <2> DEFINE g == [J \in {{}} |-> base]
  <2>2. IsFold(g, 1 .. 0, base, s)
    BY <2>1 DEF IsFold
  <2> HIDE DEF g
  <2>3. QED
    BY <2>2
<1>2. ASSUME NEW n \in Nat, n \in P
      PROVE  n + 1 \in P
  <2>1. PICK g : IsFold(g, 1 .. n, base, s)
    BY <1>2
  <2> DEFINE h == [J \in SUBSET (1 .. n + 1) |->
                     IF n + 1 \in J THEN Op(g[J \ {n + 1}], s[n + 1]) ELSE g[J]]
  <2>2. \A J \in SUBSET (1 .. n) : h[J] = g[J]
    <3> SUFFICES ASSUME NEW J \in SUBSET (1 .. n) PROVE h[J] = g[J]
      OBVIOUS
    <3>1. J \in SUBSET (1 .. n + 1) /\ n + 1 \notin J
      OBVIOUS
    <3>2. QED
      BY <3>1
  <2>3. ASSUME NEW J \in SUBSET (1 .. n + 1)
        PROVE  h[J] = IF J = {} THEN base ELSE Op(h[J \ {Max(J)}], s[Max(J)])
    <3>1. CASE n + 1 \in J
      <4>1. Max(J) = n + 1
        BY <3>1, MaxOfSet
      <4>2. J \ {n + 1} \in SUBSET (1 .. n)
        OBVIOUS
      <4>3. h[J \ {n + 1}] = g[J \ {n + 1}]
        BY <2>2, <4>2
      <4>4. h[J] = Op(g[J \ {n + 1}], s[n + 1])
        BY <3>1
      <4> HIDE DEF h
      <4>5. QED
        BY <3>1, <4>1, <4>3, <4>4
    <3>2. CASE n + 1 \notin J
      <4>1. J \in SUBSET (1 .. n)
        BY <3>2
      <4>2. g[J] = IF J = {} THEN base ELSE Op(g[J \ {Max(J)}], s[Max(J)])
        BY <2>1, <4>1 DEF IsFold
      <4>3. J # {} => J \ {Max(J)} \in SUBSET (1 .. n)
        BY <4>1
      <4> HIDE DEF h
      <4>4. QED
        BY <2>2, <4>1, <4>2, <4>3
    <3>3. QED
      BY <3>1, <3>2
  <2>4. h = [J \in SUBSET (1 .. n + 1) |-> h[J]]
    OBVIOUS
  <2> HIDE DEF h
  <2>5. IsFold(h, 1 .. n + 1, base, s)
    <3>1. [J \in SUBSET (1 .. n + 1) |-> h[J]]
            = [J \in SUBSET (1 .. n + 1) |->
                 IF J = {} THEN base ELSE Op(h[J \ {Max(J)}], s[Max(J)])]
      BY <2>3
    <3>2. QED
      BY <2>4, <3>1 DEF IsFold
  <2>6. QED
    BY <2>5
<1> HIDE DEF P
<1>3. k \in P
  BY <1>1, <1>2, Induction
<1>4. QED
  BY <1>3 DEF P

\* Its values for no index and for the first ones.
LEMMA IsFoldBase ==
  ASSUME NEW base, NEW s, NEW I, NEW f, IsFold(f, I, base, s)
  PROVE  f[{}] = base
  BY DEF IsFold

LEMMA IsFoldStep ==
  ASSUME NEW base, NEW s, NEW k \in Nat, NEW f, IsFold(f, 1 .. k, base, s),
         NEW n \in Nat, n + 1 <= k
  PROVE  f[1 .. n + 1] = Op(f[1 .. n], s[n + 1])
<1> DEFINE I == 1 .. n + 1
           J == 1 .. n
<1>1. Max(I) = n + 1 /\ I \ {n + 1} = J
  BY MaxOfInterval
<1>2. I # {} /\ I \in SUBSET (1 .. k)
  <2>1. n + 1 \in I
    OBVIOUS
  <2>2. \A i \in I : i \in 1 .. k
    OBVIOUS
  <2>3. QED
    BY <2>1, <2>2
<1> HIDE DEF I, J
<1>3. f[I] = IF I = {} THEN base ELSE Op(f[I \ {Max(I)}], s[Max(I)])
  BY <1>2 DEF IsFold
<1>4. f[I] = Op(f[J], s[n + 1])
  BY <1>1, <1>2, <1>3
<1>5. QED
  BY <1>4 DEF I, J

\* Two such functions over the same elements agree.
LEMMA IsFoldUnique ==
  ASSUME NEW base, NEW s, NEW t, NEW k \in Nat, NEW l \in Nat, NEW f, NEW g,
         IsFold(f, 1 .. k, base, s), IsFold(g, 1 .. l, base, t),
         NEW m \in Nat, m <= k, m <= l, \A i \in 1 .. m : s[i] = t[i]
  PROVE  f[1 .. m] = g[1 .. m]
<1> DEFINE P == {n \in Nat : n <= m => f[1 .. n] = g[1 .. n]}
<1>1. 0 \in P
  <2>1. 1 .. 0 = {}
    OBVIOUS
  <2>2. f[{}] = base
    BY IsFoldBase
  <2>3. g[{}] = base
    BY IsFoldBase
  <2>4. QED
    BY <2>1, <2>2, <2>3
<1>2. ASSUME NEW n \in Nat, n \in P, n + 1 <= m
      PROVE  f[1 .. n + 1] = g[1 .. n + 1]
  <2>1. f[1 .. n] = g[1 .. n]
    BY <1>2
  <2>2. n + 1 <= k /\ n + 1 <= l /\ s[n + 1] = t[n + 1]
    BY <1>2
  <2>3. f[1 .. n + 1] = Op(f[1 .. n], s[n + 1]) /\ g[1 .. n + 1] = Op(g[1 .. n], t[n + 1])
    BY <2>2, IsFoldStep
  <2>4. QED
    BY <2>1, <2>2, <2>3
<1>3. \A n \in Nat : n \in P => n + 1 \in P
  BY <1>2
<1> HIDE DEF P
<1>4. m \in P
  BY <1>1, <1>3, Induction
<1>5. QED
  BY <1>4 DEF P

\* A fold is the value of that function for all the indices.
LEMMA FoldIsFold ==
  ASSUME NEW X, NEW s \in Seq(X), NEW base
  PROVE  \E f : IsFold(f, 1 .. Len(s), base, s) /\ Fold(base, s) = f[1 .. Len(s)]
<1> DEFINE f == CHOOSE iter : IsFold(iter, 1 .. Len(s), base, s)
<1>1. DOMAIN s = 1 .. Len(s) /\ Len(s) \in Nat
  BY LenProperties
<1>2. IsFold(f, 1 .. Len(s), base, s)
  BY <1>1, IsFoldExists
<1>3. Fold(base, s) = f[1 .. Len(s)]
  BY <1>1 DEF Fold, FoldLeft, MapThenFoldSet, IsFold
<1>4. QED
  BY <1>2, <1>3

\* The fold of the empty sequence.
LEMMA FoldEmpty == ASSUME NEW base PROVE Fold(base, <<>>) = base
<1>1. <<>> \in Seq({}) /\ Len(<<>>) = 0 /\ 1 .. 0 = {}
  OBVIOUS
<1>2. PICK f : IsFold(f, {}, base, <<>>) /\ Fold(base, <<>>) = f[{}]
  BY <1>1, FoldIsFold
<1>3. {} \in SUBSET {}
  OBVIOUS
<1>4. QED
  BY <1>2, <1>3 DEF IsFold

\* The last element is folded in last.
LEMMA FoldAppend ==
  ASSUME NEW X, NEW s \in Seq(X), NEW e \in X, NEW base
  PROVE  Fold(base, Append(s, e)) = Op(Fold(base, s), e)
<1> DEFINE t == Append(s, e)
           k == Len(s)
<1>1. t \in Seq(X) /\ Len(t) = k + 1 /\ k \in Nat /\ t[k + 1] = e /\ \A i \in 1 .. k : t[i] = s[i]
  BY AppendProperties, LenProperties
<1> HIDE DEF t, k
<1>2. PICK f : IsFold(f, 1 .. k, base, s) /\ Fold(base, s) = f[1 .. k]
  BY FoldIsFold DEF k
<1>3. PICK g : IsFold(g, 1 .. k + 1, base, t) /\ Fold(base, t) = g[1 .. k + 1]
  <2>1. \E g : IsFold(g, 1 .. Len(t), base, t) /\ Fold(base, t) = g[1 .. Len(t)]
    BY <1>1, FoldIsFold
  <2>2. QED
    BY <1>1, <2>1
<1>4. g[1 .. k] = f[1 .. k]
  BY <1>1, <1>2, <1>3, IsFoldUnique
<1>5. g[1 .. k + 1] = Op(g[1 .. k], t[k + 1])
  <2>1. k + 1 \in Nat /\ k + 1 <= k + 1
    BY <1>1
  <2>2. QED
    BY <1>1, <1>3, <2>1, IsFoldStep
<1>6. QED
  BY <1>1, <1>2, <1>3, <1>4, <1>5 DEF t

\* A set of sequences that holds the empty one and the longer ones of its members.
LEMMA SequenceInduction ==
  ASSUME NEW X, NEW S, <<>> \in S, \A s \in Seq(X) : \A e \in X : s \in S => Append(s, e) \in S
  PROVE  \A s \in Seq(X) : s \in S
<1> DEFINE P == {n \in Nat : \A s \in Seq(X) : Len(s) = n => s \in S}
<1>1. 0 \in P
  <2>1. \A s \in Seq(X) : Len(s) = 0 => s = <<>>
    BY EmptySeq
  <2>2. QED
    BY <2>1
<1>2. ASSUME NEW n \in Nat, n \in P
      PROVE  n + 1 \in P
  <2>1. SUFFICES ASSUME NEW s \in Seq(X), Len(s) = n + 1
                 PROVE  s \in S
    OBVIOUS
  <2>2. s # <<>>
    BY <2>1
  <2>3. PICK r \in Seq(X), e \in X : s = Append(r, e)
    BY <2>2, SequenceEmptyOrAppend
  <2>4. Len(r) = n
    BY <2>1, <2>3, AppendProperties, LenProperties
  <2>5. QED
    BY <1>2, <2>3, <2>4
<1> HIDE DEF P
<1>3. \A n \in Nat : n \in P
  BY <1>1, <1>2, Induction
<1>4. QED
  BY <1>3, LenProperties DEF P

\* One sequence after the other.
LEMMA FoldConcat ==
  ASSUME NEW X, NEW s \in Seq(X), NEW t \in Seq(X), NEW base
  PROVE  Fold(base, s \o t) = Fold(Fold(base, s), t)
<1> DEFINE P == {r \in Seq(X) : Fold(base, s \o r) = Fold(Fold(base, s), r)}
<1>1. <<>> \in P
  <2>1. s \o <<>> = s /\ <<>> \in Seq(X)
    BY ConcatEmptySeq
  <2>2. QED
    BY <2>1, FoldEmpty
<1>2. ASSUME NEW r \in Seq(X), NEW e \in X, r \in P
      PROVE  Append(r, e) \in P
  <2>1. s \o Append(r, e) = Append(s \o r, e) /\ s \o r \in Seq(X) /\ Append(r, e) \in Seq(X)
    OBVIOUS
  <2>2. Fold(base, Append(s \o r, e)) = Op(Fold(base, s \o r), e)
    BY <2>1, FoldAppend
  <2>3. Fold(Fold(base, s), Append(r, e)) = Op(Fold(Fold(base, s), r), e)
    BY FoldAppend
  <2>4. QED
    BY <1>2, <2>1, <2>2, <2>3
<1> HIDE DEF P
<1>3. t \in P
  BY <1>1, <1>2, SequenceInduction
<1>4. QED
  BY <1>3 DEF P
===============================================================================
