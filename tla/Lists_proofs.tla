---------------------------- MODULE Lists_proofs ----------------------------
(***************************************************************************)
(* Lemmas about Lists: what Ascending, Pick and Keep return for every      *)
(* finite set and every sequence, and induction over the naturals in the   *)
(* form that needs no operator as a parameter.                             *)
(***************************************************************************)
EXTENDS Lists, SequencesExt, FiniteSetTheorems, SequenceTheorems, TLAPS

\* Induction: a set that holds 0 and, with a number, the next one, holds them all.
LEMMA SetInduction ==
  ASSUME NEW S, 0 \in S, \A n \in Nat : n \in S => n + 1 \in S
  PROVE  Nat \subseteq S
<1> DEFINE T == Nat \ S
           R == OpToRel(<, Nat)
<1> SUFFICES ASSUME T # {} PROVE FALSE
  OBVIOUS
<1>1. IsWellFoundedOn(R, Nat)
  BY NatLessThanWellFounded
<1>2. \A x, y \in Nat : <<y, x>> \in R <=> y < x
  BY DEF OpToRel
<1> HIDE DEF R
<1>3. PICK x \in T : \A y \in T : <<y, x>> \notin R
  BY <1>1, WFMin
<1>4. \A y \in T : ~(y < x)
  BY <1>2, <1>3
<1>5. x - 1 \notin T
  BY <1>4
<1> QED
  BY <1>5

-----------------------------------------------------------------------------
(* Sequences of anything *)

LEMMA SeqIsList == ASSUME NEW S, NEW s \in Seq(S) PROVE IsList(s)
  BY DEF IsList

LEMMA ListIsSeq ==
  ASSUME NEW s, IsList(s)
  PROVE  s \in Seq({s[i] : i \in 1 .. Len(s)})
  BY DEF IsList

LEMMA ListIs ==
  ASSUME NEW s, NEW n \in Nat, s = [i \in 1 .. n |-> s[i]]
  PROVE  IsList(s) /\ Len(s) = n
  BY DEF IsList

LEMMA ListEqual ==
  ASSUME NEW s, NEW t, IsList(s), IsList(t), Len(s) = Len(t),
         \A i \in 1 .. Len(s) : s[i] = t[i]
  PROVE  s = t
  BY DEF IsList

LEMMA ConcatIs ==
  ASSUME NEW s, NEW t, IsList(s), IsList(t)
  PROVE  /\ IsList(s \o t) /\ Len(s \o t) = Len(s) + Len(t)
         /\ \A i \in 1 .. Len(s) : (s \o t)[i] = s[i]
         /\ \A i \in 1 .. Len(t) : (s \o t)[Len(s) + i] = t[i]
<1> DEFINE S == {s[i] : i \in 1 .. Len(s)} \cup {t[i] : i \in 1 .. Len(t)}
<1>1. s \in Seq(S) /\ t \in Seq(S)
  BY DEF IsList
<1> HIDE DEF S
<1>2. Len(s) \in Nat /\ Len(t) \in Nat
  BY <1>1, LenProperties
<1>3. /\ s \o t \in Seq(S) /\ Len(s \o t) = Len(s) + Len(t)
      /\ \A i \in 1 .. Len(s) + Len(t) :
           (s \o t)[i] = IF i <= Len(s) THEN s[i] ELSE t[i - Len(s)]
  BY <1>1, ConcatProperties
<1>4. \A i \in 1 .. Len(t) : (s \o t)[Len(s) + i] = t[i]
  <2> SUFFICES ASSUME NEW i \in 1 .. Len(t) PROVE (s \o t)[Len(s) + i] = t[i]
    OBVIOUS
  <2>1. Len(s) + i \in 1 .. Len(s) + Len(t) /\ ~(Len(s) + i <= Len(s)) /\ (Len(s) + i) - Len(s) = i
    BY <1>2
  <2> QED
    BY <1>3, <2>1
<1>5. \A i \in 1 .. Len(s) : (s \o t)[i] = s[i]
  BY <1>2, <1>3
<1> QED
  BY <1>3, <1>4, <1>5, SeqIsList

\* The same without \o, whose axioms lead the provers astray.
IsConcat(c, s, t) == c = s \o t

LEMMA ConcatOf ==
  ASSUME NEW s, NEW t, IsList(s), IsList(t), NEW c, IsConcat(c, s, t)
  PROVE  /\ IsList(c) /\ Len(c) = Len(s) + Len(t)
         /\ \A i \in 1 .. Len(s) : c[i] = s[i]
         /\ \A i \in 1 .. Len(t) : c[Len(s) + i] = t[i]
<1>1. c = s \o t
  BY DEF IsConcat
<1> QED
  BY SMTT(20), <1>1, ConcatIs

\* What stands where in a concatenation.
LEMMA ConcatAt ==
  ASSUME NEW s, NEW t, IsList(s), IsList(t), NEW c, IsConcat(c, s, t), NEW n \in 1 .. Len(c)
  PROVE  \/ n \in 1 .. Len(s) /\ c[n] = s[n]
         \/ \E j \in 1 .. Len(t) : n = Len(s) + j /\ c[n] = t[j]
<1>1. PICK l, m, k : l = Len(s) /\ m = Len(t) /\ k = Len(c)
  OBVIOUS
<1>2. /\ Len(c) = Len(s) + Len(t)
      /\ \A i \in 1 .. Len(s) : c[i] = s[i]
      /\ \A i \in 1 .. Len(t) : c[Len(s) + i] = t[i]
  BY ONLY IsList(s), IsList(t), IsConcat(c, s, t), ConcatOf
<1>3. l \in Nat /\ m \in Nat /\ k = l + m /\ n \in 1 .. k
  BY <1>1, <1>2 DEF IsList
<1>4. n \in 1 .. l \/ \E j \in 1 .. m : n = l + j
  <2>1. n > l => n - l \in 1 .. m /\ n = l + (n - l)
    BY ONLY <1>3
  <2> QED
    BY ONLY <1>3, <2>1
<1>5. \A i \in 1 .. l : c[i] = s[i]
  BY <1>1, <1>2
<1>6. \A i \in 1 .. m : c[l + i] = t[i]
  BY <1>1, <1>2
<1>7. \/ n \in 1 .. l /\ c[n] = s[n]
      \/ \E j \in 1 .. m : n = l + j /\ c[n] = t[j]
  BY ONLY <1>4, <1>5, <1>6
<1> QED
  BY ONLY <1>1, <1>7

LEMMA AppendIs ==
  ASSUME NEW s, NEW e, IsList(s)
  PROVE  /\ IsList(Append(s, e)) /\ Len(Append(s, e)) = Len(s) + 1
         /\ \A i \in 1 .. Len(s) : Append(s, e)[i] = s[i]
         /\ Append(s, e)[Len(s) + 1] = e
<1> DEFINE S == {s[i] : i \in 1 .. Len(s)} \cup {e}
<1>1. s \in Seq(S) /\ e \in S
  BY DEF IsList
<1> HIDE DEF S
<1> DEFINE a == Append(s, e)
<1>2. /\ a \in Seq(S) /\ Len(a) = Len(s) + 1
      /\ \A i \in 1 .. Len(s) : a[i] = s[i]
      /\ a[Len(s) + 1] = e
  BY <1>1, AppendProperties
<1> HIDE DEF a
<1>3. IsList(a)
  BY <1>2, SeqIsList
<1> QED
  BY <1>2, <1>3 DEF a

-----------------------------------------------------------------------------
(* Ascending *)

LEMMA RankTyped ==
  ASSUME NEW S \in SUBSET Nat, IsFiniteSet(S), NEW i \in S
  PROVE  Rank(i, S) \in 1 .. Cardinality(S)
<1> DEFINE T == {j \in S : j <= i}
<1>1. IsFiniteSet(T) /\ Cardinality(T) <= Cardinality(S)
  BY FS_Subset
<1>2. Cardinality(T) # 0
  <2>1. i \in T
    OBVIOUS
  <2> QED
    BY <1>1, <2>1, FS_EmptySet
<1>3. Cardinality(T) \in Nat /\ Cardinality(S) \in Nat
  BY <1>1, FS_CardinalityType
<1> QED
  BY <1>1, <1>2, <1>3 DEF Rank

LEMMA RankGrows ==
  ASSUME NEW S \in SUBSET Nat, IsFiniteSet(S), NEW i \in S, NEW j \in S, i < j
  PROVE  Rank(i, S) < Rank(j, S)
<1> DEFINE A == {k \in S : k <= i}
           B == {k \in S : k <= j}
<1>0. S \subseteq Nat /\ i \in Nat /\ j \in Nat
  OBVIOUS
<1>1. A \in SUBSET B /\ j \in B /\ j \notin A
  <2>1. \A k \in S : k <= i => k <= j
    BY <1>0
  <2>2. A \subseteq B
    BY <2>1
  <2> QED
    BY <1>0, <2>2
<1>2. IsFiniteSet(B) /\ IsFiniteSet(A)
  BY FS_Subset
<1> HIDE DEF A, B
<1>3. Cardinality(A) <= Cardinality(B) /\ Cardinality(B) # Cardinality(A)
  BY <1>1, <1>2, FS_Subset
<1>4. Cardinality(A) \in Nat /\ Cardinality(B) \in Nat
  BY <1>2, FS_CardinalityType
<1> QED
  BY <1>3, <1>4 DEF Rank, A, B

LEMMA RankOnto ==
  ASSUME NEW S \in SUBSET Nat, IsFiniteSet(S), NEW k \in 1 .. Cardinality(S)
  PROVE  \E i \in S : Rank(i, S) = k
<1> DEFINE T == 1 .. Cardinality(S)
           f == [i \in S |-> Rank(i, S)]
<1>1. Cardinality(S) \in Nat
  BY FS_CardinalityType
<1>2. IsFiniteSet(T) /\ Cardinality(T) = Cardinality(S)
  BY <1>1, FS_Interval
<1>3. f \in [S -> T]
  BY RankTyped
<1>4. \A i, j \in S : f[i] = f[j] => i = j
  <2> SUFFICES ASSUME NEW i \in S, NEW j \in S, i # j PROVE Rank(i, S) # Rank(j, S)
    OBVIOUS
  <2>1. Rank(i, S) \in Nat /\ Rank(j, S) \in Nat
    BY <1>1, RankTyped
  <2>2. i < j \/ j < i
    OBVIOUS
  <2> QED
    BY <2>1, <2>2, RankGrows
<1> HIDE DEF f
<1>5. f \in Injection(S, T)
  BY <1>3, <1>4 DEF Injection, IsInjective
<1> HIDE DEF T
<1>6. f \in Surjection(S, T)
  BY <1>2, <1>5, FS_Injection
<1>7. \E i \in S : f[i] = k
  BY <1>6 DEF Surjection, T
<1> QED
  BY <1>7 DEF f

\* The members of S in order, each once.
LEMMA AscendingIs ==
  ASSUME NEW S \in SUBSET Nat, IsFiniteSet(S)
  PROVE  /\ Cardinality(S) \in Nat
         /\ Ascending(S) \in [1 .. Cardinality(S) -> S]
         /\ \A k \in 1 .. Cardinality(S) : Rank(Ascending(S)[k], S) = k
         /\ \A k, l \in 1 .. Cardinality(S) : k < l => Ascending(S)[k] < Ascending(S)[l]
         /\ \A i \in S : \E k \in 1 .. Cardinality(S) : Ascending(S)[k] = i
<1>1. Cardinality(S) \in Nat
  BY FS_CardinalityType
<1> DEFINE n == Cardinality(S)
           a == Ascending(S)
<1>2. \A k \in 1 .. n : a[k] \in S /\ Rank(a[k], S) = k
  <2> SUFFICES ASSUME NEW k \in 1 .. n
               PROVE  a[k] \in S /\ Rank(a[k], S) = k
    OBVIOUS
  <2>1. a[k] = CHOOSE i \in S : Rank(i, S) = k
    BY DEF Ascending
  <2>2. \E i \in S : Rank(i, S) = k
    BY RankOnto
  <2> QED
    BY <2>1, <2>2, Zenon
<1>3. a \in [1 .. n -> S]
  BY <1>2 DEF Ascending
<1> HIDE DEF a
<1>4. \A i, j \in S : i < j <=> Rank(i, S) < Rank(j, S)
  <2> SUFFICES ASSUME NEW i \in S, NEW j \in S
               PROVE  i < j <=> Rank(i, S) < Rank(j, S)
    OBVIOUS
  <2>1. Rank(i, S) \in Nat /\ Rank(j, S) \in Nat
    BY <1>1, RankTyped
  <2>2. CASE i < j
    BY <2>2, RankGrows
  <2>3. CASE j < i
    BY <2>1, <2>3, RankGrows
  <2> QED
    BY <2>1, <2>2, <2>3
<1>5. \A k, l \in 1 .. n : k < l => a[k] < a[l]
  BY <1>2, <1>4
<1>6. \A i \in S : \E k \in 1 .. n : a[k] = i
  <2> SUFFICES ASSUME NEW i \in S PROVE \E k \in 1 .. n : a[k] = i
    OBVIOUS
  <2>1. Rank(i, S) \in 1 .. n
    BY RankTyped
  <2>2. PICK b \in S : b = a[Rank(i, S)] /\ Rank(b, S) = Rank(i, S)
    BY <1>2, <2>1
  <2>3. ~(b < i) /\ ~(i < b)
    <3>1. Rank(i, S) \in Nat
      BY <1>1, <2>1
    <3> QED
      BY <1>4, <2>2, <3>1
  <2>4. b = i
    BY <2>3
  <2> QED
    BY <2>1, <2>2, <2>4
<1> QED
  BY <1>1, <1>2, <1>3, <1>5, <1>6 DEF a

\* There is no other way to list the members of S in order.
LEMMA AscendingUnique ==
  ASSUME NEW S \in SUBSET Nat, NEW n \in Nat, NEW f \in [1 .. n -> S],
         \A k, l \in 1 .. n : k < l => f[k] < f[l],
         \A i \in S : \E k \in 1 .. n : f[k] = i
  PROVE  IsFiniteSet(S) /\ Cardinality(S) = n /\ Ascending(S) = f
<1>0. \A k \in 1 .. n : f[k] \in S /\ f[k] \in Nat
  OBVIOUS
<1>1. \A k, l \in 1 .. n : f[k] = f[l] => k = l
  <2> SUFFICES ASSUME NEW k \in 1 .. n, NEW l \in 1 .. n, f[k] = f[l] PROVE k = l
    OBVIOUS
  <2>1. ~(k < l) /\ ~(l < k)
    BY <1>0
  <2> QED
    BY <2>1
<1>2. \A k, l \in 1 .. n : f[l] <= f[k] <=> l <= k
  <2> SUFFICES ASSUME NEW k \in 1 .. n, NEW l \in 1 .. n PROVE f[l] <= f[k] <=> l <= k
    OBVIOUS
  <2>1. k < l \/ l < k \/ k = l
    OBVIOUS
  <2> QED
    BY <1>0, <2>1
<1>3. ASSUME NEW T, NEW m \in 0 .. n, T = {f[l] : l \in 1 .. m}
      PROVE  IsFiniteSet(T) /\ Cardinality(T) = m
  <2> DEFINE g == [l \in 1 .. m |-> f[l]]
  <2>1. g \in [1 .. m -> T] /\ m \in Nat
    BY <1>3
  <2>2. \A k, l \in 1 .. m : g[k] = g[l] => k = l
    BY <1>1, <1>3
  <2>3. \A t \in T : \E l \in 1 .. m : g[l] = t
    BY <1>3
  <2>4. g \in Bijection(1 .. m, T)
    BY <2>1, <2>2, <2>3 DEF Bijection, Injection, IsInjective, Surjection
  <2>5. ExistsBijection(1 .. m, T)
    BY <2>4 DEF ExistsBijection
  <2> QED
    BY <2>1, <2>5, FS_CountingElements, FS_NatBijection
<1>4. IsFiniteSet(S) /\ Cardinality(S) = n
  <2>1. S = {f[l] : l \in 1 .. n}
    BY <1>0
  <2>2. n \in 0 .. n
    OBVIOUS
  <2> QED
    BY <1>3, <2>1, <2>2
<1>5. ASSUME NEW k \in 1 .. n
      PROVE  Rank(f[k], S) = k
  <2>1. {j \in S : j <= f[k]} = {f[l] : l \in 1 .. k}
    <3>1. ASSUME NEW j \in S, j <= f[k] PROVE j \in {f[l] : l \in 1 .. k}
      <4>1. PICK l \in 1 .. n : f[l] = j
        OBVIOUS
      <4>2. l <= k
        BY <1>2, <3>1, <4>1
      <4> QED
        BY <4>1, <4>2
    <3>2. ASSUME NEW l \in 1 .. k PROVE f[l] \in S /\ f[l] <= f[k]
      <4>1. l \in 1 .. n /\ l <= k
        OBVIOUS
      <4> QED
        BY <1>0, <1>2, <4>1
    <3> QED
      BY <3>1, <3>2
  <2>2. k \in 0 .. n
    OBVIOUS
  <2> QED
    BY <1>3, <2>1, <2>2 DEF Rank
<1>6. ASSUME NEW k \in 1 .. n
      PROVE  Ascending(S)[k] = f[k]
  <2>1. PICK i \in S : i = Ascending(S)[k] /\ Rank(i, S) = k
    BY <1>4, AscendingIs
  <2>2. PICK l \in 1 .. n : f[l] = i
    OBVIOUS
  <2>3. l = k
    BY <1>5, <2>1, <2>2
  <2> QED
    BY <2>1, <2>2, <2>3
<1>7. Ascending(S) = [k \in 1 .. n |-> Ascending(S)[k]]
  BY <1>4, AscendingIs
<1> QED
  BY <1>4, <1>6, <1>7

-----------------------------------------------------------------------------
(* Pick *)

LEMMA PickIs ==
  ASSUME NEW s, NEW I \in SUBSET Nat, IsFiniteSet(I)
  PROVE  /\ IsList(Pick(s, I)) /\ Len(Pick(s, I)) = Cardinality(I)
         /\ \A k \in 1 .. Cardinality(I) : Pick(s, I)[k] = s[Ascending(I)[k]]
<1>1. Cardinality(I) \in Nat
  BY AscendingIs
<1>2. Pick(s, I) = [k \in 1 .. Cardinality(I) |-> s[Ascending(I)[k]]]
  BY DEF Pick
<1> QED
  BY <1>1, <1>2, ListIs

\* Every element picked stands at one of the positions, and the other way round.
LEMMA PickFrom ==
  ASSUME NEW s, NEW I \in SUBSET Nat, IsFiniteSet(I)
  PROVE  /\ \A k \in 1 .. Len(Pick(s, I)) : \E i \in I : Pick(s, I)[k] = s[i]
         /\ \A i \in I : \E k \in 1 .. Len(Pick(s, I)) : Pick(s, I)[k] = s[i]
<1>1. /\ Ascending(I) \in [1 .. Cardinality(I) -> I]
      /\ \A i \in I : \E k \in 1 .. Cardinality(I) : Ascending(I)[k] = i
  BY AscendingIs
<1>2. /\ Len(Pick(s, I)) = Cardinality(I)
      /\ \A k \in 1 .. Cardinality(I) : Pick(s, I)[k] = s[Ascending(I)[k]]
  BY PickIs
<1>3. \A k \in 1 .. Cardinality(I) : Ascending(I)[k] \in I
  BY <1>1
<1>4. \A k \in 1 .. Cardinality(I) : \E i \in I : Pick(s, I)[k] = s[i]
  BY ONLY <1>2, <1>3
<1>5. \A i \in I : \E k \in 1 .. Cardinality(I) : Pick(s, I)[k] = s[i]
  BY ONLY <1>1, <1>2
<1> QED
  BY ONLY <1>2, <1>4, <1>5

\* Picked in the order of f, which lists the positions upwards.
LEMMA PickBy ==
  ASSUME NEW s, NEW I \in SUBSET Nat, NEW n \in Nat, NEW f \in [1 .. n -> I],
         \A k, l \in 1 .. n : k < l => f[k] < f[l],
         \A i \in I : \E k \in 1 .. n : f[k] = i
  PROVE  /\ IsFiniteSet(I) /\ Cardinality(I) = n /\ IsList(Pick(s, I)) /\ Len(Pick(s, I)) = n
         /\ \A k \in 1 .. n : Pick(s, I)[k] = s[f[k]]
<1>1. IsFiniteSet(I) /\ Cardinality(I) = n /\ Ascending(I) = f
  BY AscendingUnique
<1> QED
  BY <1>1, PickIs

LEMMA PickNone == ASSUME NEW s PROVE Pick(s, {}) = <<>>
<1>1. Cardinality({}) = 0
  BY FS_EmptySet
<1> QED
  BY <1>1 DEF Pick

LEMMA PickAll ==
  ASSUME NEW s, NEW n \in Nat
  PROVE  Pick(s, 1 .. n) = [k \in 1 .. n |-> s[k]]
<1> DEFINE f == [k \in 1 .. n |-> k]
           I == 1 .. n
<1>1. /\ f \in [1 .. n -> I] /\ I \in SUBSET Nat
      /\ \A k, l \in 1 .. n : k < l => f[k] < f[l]
      /\ \A i \in I : \E k \in 1 .. n : f[k] = i
  OBVIOUS
<1>2. \A k \in 1 .. n : f[k] = k
  OBVIOUS
<1> HIDE DEF f, I
<1>3. /\ IsList(Pick(s, I)) /\ Len(Pick(s, I)) = n
      /\ \A k \in 1 .. n : Pick(s, I)[k] = s[f[k]]
  BY <1>1, PickBy
<1> QED
  BY <1>2, <1>3 DEF IsList, I

LEMMA PickSame ==
  ASSUME NEW s, NEW t, NEW I \in SUBSET Nat, IsFiniteSet(I), \A i \in I : s[i] = t[i]
  PROVE  Pick(s, I) = Pick(t, I)
<1>1. Ascending(I) \in [1 .. Cardinality(I) -> I]
  BY AscendingIs
<1> QED
  BY <1>1 DEF Pick

\* Picking from what was picked.
LEMMA PickPick ==
  ASSUME NEW s, NEW I \in SUBSET Nat, IsFiniteSet(I),
         NEW J \in SUBSET (1 .. Cardinality(I)), NEW K \in SUBSET I,
         \A k \in 1 .. Cardinality(I) : k \in J <=> Ascending(I)[k] \in K
  PROVE  Pick(Pick(s, I), J) = Pick(s, K)
<1> DEFINE n == Cardinality(I)
           m == Cardinality(J)
           a == Ascending(I)
           b == Ascending(J)
           f == [k \in 1 .. m |-> a[b[k]]]
           p == Pick(s, I)
<1>1. /\ n \in Nat /\ a \in [1 .. n -> I]
      /\ \A k, l \in 1 .. n : k < l => a[k] < a[l]
      /\ \A i \in I : \E k \in 1 .. n : a[k] = i
  BY AscendingIs
<1>2. J \in SUBSET Nat /\ IsFiniteSet(J)
  <2>1. IsFiniteSet(1 .. n)
    BY <1>1, FS_Interval
  <2>2. 1 .. n \subseteq Nat
    BY <1>1
  <2> QED
    BY <2>1, <2>2, FS_Subset
<1>3. /\ m \in Nat /\ b \in [1 .. m -> J]
      /\ \A k, l \in 1 .. m : k < l => b[k] < b[l]
      /\ \A j \in J : \E k \in 1 .. m : b[k] = j
  BY <1>2, AscendingIs
<1>4. \A k \in 1 .. n : p[k] = s[a[k]]
  BY PickIs
<1>5. \A k \in 1 .. n : k \in J <=> a[k] \in K
  OBVIOUS
<1> HIDE DEF n, m, a, b, p
<1>6. \A k \in 1 .. m : b[k] \in 1 .. n /\ b[k] \in J /\ f[k] = a[b[k]]
  BY <1>3 DEF n
<1>7. f \in [1 .. m -> K]
  BY <1>5, <1>6
<1>8. \A k, l \in 1 .. m : k < l => f[k] < f[l]
  BY <1>1, <1>3, <1>6
<1>9. \A i \in K : \E k \in 1 .. m : f[k] = i
  <2> SUFFICES ASSUME NEW i \in K PROVE \E k \in 1 .. m : f[k] = i
    OBVIOUS
  <2>1. PICK j \in 1 .. n : a[j] = i
    BY <1>1
  <2>2. PICK k \in 1 .. m : b[k] = j
    BY <1>3, <1>5, <2>1
  <2> QED
    BY <1>6, <2>1, <2>2
<1> HIDE DEF f
<1>10. K \in SUBSET Nat
  OBVIOUS
<1>11. /\ IsList(Pick(s, K)) /\ Len(Pick(s, K)) = m
       /\ \A k \in 1 .. m : Pick(s, K)[k] = s[f[k]]
  <2>1. m \in Nat
    BY <1>3
  <2> QED
    BY ONLY <1>7, <1>8, <1>9, <1>10, <2>1, PickBy
<1>12. /\ IsList(Pick(p, J)) /\ Len(Pick(p, J)) = m
       /\ \A k \in 1 .. m : Pick(p, J)[k] = p[b[k]]
  BY <1>2, PickIs DEF m, b
<1>13. \A k \in 1 .. m : Pick(p, J)[k] = Pick(s, K)[k]
  BY <1>4, <1>6, <1>11, <1>12
<1>14. Pick(p, J) = Pick(s, K)
  BY <1>11, <1>12, <1>13, ListEqual
<1> QED
  BY <1>14 DEF p

\* One position more, after all the others.
LEMMA PickNext ==
  ASSUME NEW s, NEW I \in SUBSET Nat, IsFiniteSet(I), NEW m \in Nat, \A i \in I : i < m
  PROVE  Pick(s, I \cup {m}) = Append(Pick(s, I), s[m])
<1> DEFINE n == Cardinality(I)
           a == Ascending(I)
           f == [k \in 1 .. n + 1 |-> IF k <= n THEN a[k] ELSE m]
           J == I \cup {m}
<1>1. /\ n \in Nat /\ a \in [1 .. n -> I]
      /\ \A k, l \in 1 .. n : k < l => a[k] < a[l]
      /\ \A i \in I : \E k \in 1 .. n : a[k] = i
  BY AscendingIs
<1>2. /\ IsList(Pick(s, I)) /\ Len(Pick(s, I)) = n
      /\ \A k \in 1 .. n : Pick(s, I)[k] = s[a[k]]
  BY PickIs
<1> HIDE DEF n, a
<1>3. (\A k \in 1 .. n : f[k] = a[k]) /\ f[n + 1] = m
  BY <1>1
<1>4. f \in [1 .. n + 1 -> J] /\ J \in SUBSET Nat /\ n + 1 \in Nat
  BY <1>1
<1>5. \A i \in J : \E k \in 1 .. n + 1 : f[k] = i
  <2> SUFFICES ASSUME NEW i \in J PROVE \E k \in 1 .. n + 1 : f[k] = i
    OBVIOUS
  <2>1. CASE i = m
    BY <1>1, <1>3, <2>1
  <2>2. CASE i \in I
    <3>1. PICK k \in 1 .. n : a[k] = i
      BY <1>1, <2>2
    <3> QED
      BY <1>1, <1>3, <3>1
  <2> QED
    BY <2>1, <2>2
<1>6. \A k, l \in 1 .. n + 1 : k < l => f[k] < f[l]
  <2> SUFFICES ASSUME NEW k \in 1 .. n + 1, NEW l \in 1 .. n + 1, k < l PROVE f[k] < f[l]
    OBVIOUS
  <2>1. k \in 1 .. n
    BY <1>1
  <2>2. CASE l \in 1 .. n
    BY <1>1, <1>3, <2>1, <2>2
  <2>3. CASE l = n + 1
    BY ZenonT(60), <1>1, <1>3, <2>1, <2>3
  <2> QED
    BY <1>1, <2>2, <2>3
<1> HIDE DEF f, J
<1>7. /\ IsList(Pick(s, J)) /\ Len(Pick(s, J)) = n + 1
      /\ \A k \in 1 .. n + 1 : Pick(s, J)[k] = s[f[k]]
  <2>1. PICK h, c, K : h = f /\ c = n + 1 /\ K = J
    OBVIOUS
  <2>2. /\ K \in SUBSET Nat /\ c \in Nat /\ h \in [1 .. c -> K]
        /\ \A k, l \in 1 .. c : k < l => h[k] < h[l]
        /\ \A i \in K : \E k \in 1 .. c : h[k] = i
    BY ONLY <1>4, <1>5, <1>6, <2>1
  <2>3. /\ IsList(Pick(s, K)) /\ Len(Pick(s, K)) = c
        /\ \A k \in 1 .. c : Pick(s, K)[k] = s[h[k]]
    BY ONLY <2>2, PickBy
  <2> QED
    BY ONLY <2>1, <2>3
<1> DEFINE q == Append(Pick(s, I), s[m])
<1>8. /\ IsList(q) /\ Len(q) = n + 1
      /\ \A k \in 1 .. n : q[k] = Pick(s, I)[k]
      /\ q[n + 1] = s[m]
  BY <1>2, AppendIs
<1> HIDE DEF q
<1>9. \A k \in 1 .. n + 1 : Pick(s, J)[k] = q[k]
  <2> SUFFICES ASSUME NEW k \in 1 .. n + 1 PROVE Pick(s, J)[k] = q[k]
    OBVIOUS
  <2>1. CASE k \in 1 .. n
    BY <1>1, <1>2, <1>3, <1>7, <1>8, <2>1
  <2>2. CASE k = n + 1
    BY <1>3, <1>7, <1>8, <2>2
  <2> QED
    BY <1>1, <2>1, <2>2
<1>10. Pick(s, J) = q
  BY <1>7, <1>8, <1>9, ListEqual
<1> QED
  BY <1>10 DEF q, J

\* Picking from two sequences laid end to end.
LEMMA PickConcat ==
  ASSUME NEW s, NEW t, IsList(s), IsList(t),
         NEW I \in SUBSET (1 .. Len(s)), NEW J \in SUBSET (1 .. Len(t)),
         NEW P, \A i : i \in P <=> i \in I \/ \E j \in J : i = Len(s) + j
  PROVE  Pick(s \o t, P) = Pick(s, I) \o Pick(t, J)
<1> DEFINE l == Len(s)
           n == Cardinality(I)
           m == Cardinality(J)
           a == Ascending(I)
           b == Ascending(J)
           c == s \o t
           K == I \cup {l + j : j \in J}
           f == [k \in 1 .. n + m |-> IF k <= n THEN a[k] ELSE l + b[k - n]]
<1>0. l \in Nat /\ Len(t) \in Nat
  BY DEF IsList
<1>1. /\ I \in SUBSET Nat /\ IsFiniteSet(I) /\ J \in SUBSET Nat /\ IsFiniteSet(J)
      /\ \A i \in I : i \in Nat /\ i >= 1 /\ i <= l
      /\ \A j \in J : j \in Nat /\ j >= 1 /\ j \in 1 .. Len(t)
  <2>1. IsFiniteSet(1 .. l) /\ IsFiniteSet(1 .. Len(t))
    BY <1>0, FS_Interval
  <2>2. IsFiniteSet(I) /\ IsFiniteSet(J)
    BY <2>1, FS_Subset
  <2>3. \A i \in I : i \in Nat /\ i >= 1 /\ i <= l
    BY <1>0
  <2>4. \A j \in J : j \in Nat /\ j >= 1 /\ j \in 1 .. Len(t)
    BY <1>0
  <2>5. I \subseteq Nat /\ J \subseteq Nat
    BY <2>3, <2>4
  <2> QED
    BY <2>2, <2>3, <2>4, <2>5
<1>2. /\ n \in Nat /\ a \in [1 .. n -> I]
      /\ \A k, h \in 1 .. n : k < h => a[k] < a[h]
      /\ \A i \in I : \E k \in 1 .. n : a[k] = i
  BY <1>1, AscendingIs
<1>3. /\ m \in Nat /\ b \in [1 .. m -> J]
      /\ \A k, h \in 1 .. m : k < h => b[k] < b[h]
      /\ \A j \in J : \E k \in 1 .. m : b[k] = j
  BY <1>1, AscendingIs
<1>4. /\ IsList(Pick(s, I)) /\ Len(Pick(s, I)) = n /\ \A k \in 1 .. n : Pick(s, I)[k] = s[a[k]]
      /\ IsList(Pick(t, J)) /\ Len(Pick(t, J)) = m /\ \A k \in 1 .. m : Pick(t, J)[k] = t[b[k]]
  BY <1>1, PickIs
<1>5. /\ \A i \in 1 .. l : c[i] = s[i]
      /\ \A j \in 1 .. Len(t) : c[l + j] = t[j]
  BY ConcatIs
<1> HIDE DEF n, m, a, b, c, l
<1>6. \A k \in 1 .. n : a[k] \in I /\ a[k] \in Nat /\ a[k] >= 1 /\ a[k] <= l
  BY <1>1, <1>2
<1>7. \A k \in 1 .. m : b[k] \in J /\ b[k] \in Nat /\ b[k] >= 1 /\ b[k] \in 1 .. Len(t)
  BY <1>1, <1>3
<1>8. /\ \A k \in 1 .. n : f[k] = a[k] /\ f[k] \in K
      /\ \A k \in 1 .. m : f[n + k] = l + b[k] /\ f[n + k] \in K
  <2>1. ASSUME NEW k \in 1 .. n PROVE f[k] = a[k] /\ f[k] \in K
    BY <1>2, <1>3, <1>6
  <2>2. ASSUME NEW k \in 1 .. m PROVE f[n + k] = l + b[k] /\ f[n + k] \in K
    <3>1. n + k \in 1 .. n + m /\ ~(n + k <= n) /\ (n + k) - n = k
      BY <1>2, <1>3
    <3>2. f[n + k] = l + b[k]
      BY <3>1
    <3> QED
      BY <1>7, <3>2
  <2> QED
    BY <2>1, <2>2
<1>9. \A k \in 1 .. n + m : k \in 1 .. n \/ \E h \in 1 .. m : k = n + h
  <2> SUFFICES ASSUME NEW k \in 1 .. n + m, k \notin 1 .. n
               PROVE  \E h \in 1 .. m : k = n + h
    OBVIOUS
  <2>1. k - n \in 1 .. m /\ k = n + (k - n)
    BY <1>2, <1>3
  <2> QED
    BY <2>1
<1>10. f \in [1 .. n + m -> K] /\ n + m \in Nat /\ K \in SUBSET Nat
  <2>1. \A k \in 1 .. n + m : f[k] \in K
    BY <1>8, <1>9
  <2>2. \A j \in J : l + j \in Nat
    BY <1>0, <1>1 DEF l
  <2>3. K \subseteq Nat
    BY <1>1, <2>2
  <2>4. n + m \in Nat
    BY <1>2, <1>3
  <2>5. f \in [1 .. n + m -> K]
    BY <2>1
  <2> HIDE DEF K, f
  <2> QED
    BY <2>3, <2>4, <2>5
<1> HIDE DEF f
<1>11. \A k, h \in 1 .. n + m : k < h => f[k] < f[h]
  <2> SUFFICES ASSUME NEW k \in 1 .. n + m, NEW h \in 1 .. n + m, k < h PROVE f[k] < f[h]
    OBVIOUS
  <2>0. l \in Nat
    BY <1>0
  <2>1. CASE h \in 1 .. n
    <3>1. k \in 1 .. n
      BY <1>2, <2>1
    <3> QED
      BY <1>2, <1>8, <2>1, <3>1
  <2>2. CASE k \in 1 .. n /\ h \notin 1 .. n
    <3>1. PICK y \in 1 .. m : h = n + y
      BY <1>9, <2>2
    <3>2. f[k] = a[k] /\ f[h] = l + b[y]
      BY <1>8, <2>2, <3>1
    <3> QED
      BY <1>6, <1>7, <2>0, <2>2, <3>2
  <2>3. CASE k \notin 1 .. n /\ h \notin 1 .. n
    <3>1. PICK x \in 1 .. m, y \in 1 .. m : k = n + x /\ h = n + y
      BY <1>9, <2>3
    <3>2. f[k] = l + b[x] /\ f[h] = l + b[y]
      BY <1>8, <3>1
    <3>3. x < y
      BY <1>2, <3>1
    <3> QED
      BY <1>3, <1>7, <2>0, <3>2, <3>3
  <2> QED
    BY <2>1, <2>2, <2>3
<1>12. \A i \in K : \E k \in 1 .. n + m : f[k] = i
  <2> SUFFICES ASSUME NEW i \in K PROVE \E k \in 1 .. n + m : f[k] = i
    OBVIOUS
  <2>1. CASE i \in I
    <3>1. PICK k \in 1 .. n : a[k] = i
      BY <1>2, <2>1
    <3>2. k \in 1 .. n + m
      BY <1>2, <1>3
    <3> QED
      BY <1>8, <3>1, <3>2
  <2>2. CASE i \notin I
    <3>1. PICK j \in J : i = l + j
      BY <2>2
    <3>2. PICK k \in 1 .. m : b[k] = j
      BY <1>3
    <3>3. n + k \in 1 .. n + m
      BY <1>2, <1>3
    <3> QED
      BY <1>8, <3>1, <3>2, <3>3
  <2> QED
    BY <2>1, <2>2
<1> HIDE DEF K
<1>13. /\ IsList(Pick(c, K)) /\ Len(Pick(c, K)) = n + m
       /\ \A k \in 1 .. n + m : Pick(c, K)[k] = c[f[k]]
  BY ONLY <1>10, <1>11, <1>12, PickBy
<1> DEFINE q == Pick(s, I) \o Pick(t, J)
<1>14. /\ IsList(q) /\ Len(q) = n + m
       /\ \A k \in 1 .. n : q[k] = s[a[k]]
       /\ \A k \in 1 .. m : q[n + k] = t[b[k]]
  <2> DEFINE x == Pick(s, I)
             y == Pick(t, J)
  <2>1. IsList(x) /\ IsList(y) /\ Len(x) = n /\ Len(y) = m
    BY <1>4
  <2> HIDE DEF x, y
  <2>2. /\ IsList(x \o y) /\ Len(x \o y) = Len(x) + Len(y)
        /\ \A k \in 1 .. Len(x) : (x \o y)[k] = x[k]
        /\ \A k \in 1 .. Len(y) : (x \o y)[Len(x) + k] = y[k]
    BY <2>1, ConcatIs
  <2>3. /\ IsList(x \o y) /\ Len(x \o y) = n + m
        /\ \A k \in 1 .. n : (x \o y)[k] = x[k]
        /\ \A k \in 1 .. m : (x \o y)[n + k] = y[k]
    BY <2>1, <2>2
  <2> QED
    BY <1>4, <2>3 DEF x, y
<1> HIDE DEF q
<1>15. \A k \in 1 .. n + m : Pick(c, K)[k] = q[k]
  <2> SUFFICES ASSUME NEW k \in 1 .. n + m PROVE Pick(c, K)[k] = q[k]
    OBVIOUS
  <2>1. CASE k \in 1 .. n
    <3>1. a[k] \in 1 .. l
      BY <1>0, <1>6, <2>1
    <3> QED
      BY <1>5, <1>8, <1>13, <1>14, <2>1, <3>1
  <2>2. CASE k \notin 1 .. n
    <3>1. PICK h \in 1 .. m : k = n + h
      BY <1>9, <2>2
    <3>2. f[k] = l + b[h] /\ b[h] \in 1 .. Len(t)
      BY <1>7, <1>8, <3>1
    <3>3. Pick(c, K)[k] = c[l + b[h]] /\ c[l + b[h]] = t[b[h]]
      BY <1>5, <1>13, <3>2
    <3> QED
      BY <1>14, <3>1, <3>3
  <2> QED
    BY <2>1, <2>2
<1>16. Pick(c, K) = q
  BY <1>13, <1>14, <1>15, ListEqual
<1>17. P = K
  BY DEF K, l
<1> QED
  BY <1>16, <1>17 DEF c, q

-----------------------------------------------------------------------------
(* FlattenSeq *)

\* f holds what the first sequences of seqs flatten to.
Flattens(seqs, f) ==
  f = [i \in 1 .. Len(seqs) |-> IF i = 1 THEN seqs[i] ELSE f[i - 1] \o seqs[i]]

LEMMA FlattensIs ==
  ASSUME NEW seqs, IsList(seqs), NEW f, Flattens(seqs, f), NEW i \in 1 .. Len(seqs)
  PROVE  f[i] = IF i = 1 THEN seqs[i] ELSE f[i - 1] \o seqs[i]
<1>1. f = [k \in 1 .. Len(seqs) |-> IF k = 1 THEN seqs[k] ELSE f[k - 1] \o seqs[k]]
  BY DEF Flattens
<1>2. [k \in 1 .. Len(seqs) |-> IF k = 1 THEN seqs[k] ELSE f[k - 1] \o seqs[k]][i] =
        IF i = 1 THEN seqs[i] ELSE f[i - 1] \o seqs[i]
  OBVIOUS
<1> QED
  BY <1>1, <1>2, Zenon

LEMMA FlattensExists ==
  ASSUME NEW seqs, IsList(seqs)
  PROVE  \E f : Flattens(seqs, f)
<1> DEFINE Step(f, i) == IF i = 1 THEN seqs[i] ELSE f[i - 1] \o seqs[i]
           Upto(n) == \E f : f = [i \in 1 .. n |-> Step(f, i)]
           S == {n \in Nat : Upto(n)}
<1>0. Len(seqs) \in Nat
  BY DEF IsList
<1>1. 0 \in S
  <2>1. <<>> = [i \in 1 .. 0 |-> Step(<<>>, i)]
    OBVIOUS
  <2> QED
    BY <2>1
<1>2. ASSUME NEW n \in Nat, n \in S PROVE n + 1 \in S
  <2>1. PICK f : f = [i \in 1 .. n |-> Step(f, i)]
    BY <1>2
  <2> DEFINE g == [i \in 1 .. n + 1 |-> IF i = n + 1 THEN Step(f, i) ELSE f[i]]
  <2>2. \A i \in 1 .. n : f[i] = Step(f, i)
    BY <2>1, Zenon
  <2>3. \A i \in 1 .. n + 1 : g[i] = Step(g, i)
    <3> SUFFICES ASSUME NEW i \in 1 .. n + 1 PROVE g[i] = Step(g, i)
      OBVIOUS
    <3>1. g[i] = Step(f, i)
      BY <2>2
    <3>2. i # 1 => g[i - 1] = f[i - 1]
      OBVIOUS
    <3> HIDE DEF g
    <3> QED
      BY <3>1, <3>2
  <2>4. g = [i \in 1 .. n + 1 |-> g[i]]
    OBVIOUS
  <2> HIDE DEF g
  <2>5. g = [i \in 1 .. n + 1 |-> Step(g, i)]
    BY <2>3, <2>4
  <2>6. Upto(n + 1)
    BY <2>5
  <2> HIDE DEF Upto
  <2> QED
    BY <2>6
<1> HIDE DEF S
<1>3. Len(seqs) \in S
  BY <1>0, <1>1, <1>2, SetInduction
<1> QED
  BY <1>3 DEF S, Flattens

LEMMA FlattenIs ==
  ASSUME NEW seqs, IsList(seqs), Len(seqs) # 0
  PROVE  \E f : Flattens(seqs, f) /\ FlattenSeq(seqs) = f[Len(seqs)]
<1> DEFINE f == CHOOSE g : Flattens(seqs, g)
<1>1. Flattens(seqs, f)
  BY FlattensExists
<1>2. FlattenSeq(seqs) = f[Len(seqs)]
  BY DEF FlattenSeq, Flattens
<1> QED
  BY <1>1, <1>2

\* What the first sequences flatten to does not depend on the others.
LEMMA FlattensAlike ==
  ASSUME NEW s, NEW t, IsList(s), IsList(t), NEW f, NEW g, Flattens(s, f), Flattens(t, g),
         NEW n \in Nat, n <= Len(s), n <= Len(t), \A i \in 1 .. n : s[i] = t[i],
         NEW i \in 1 .. n
  PROVE  f[i] = g[i]
<1> DEFINE S == {k \in Nat : k \in 1 .. n => f[k] = g[k]}
<1>0. Len(s) \in Nat /\ Len(t) \in Nat
  BY DEF IsList
<1>1. \A k \in 1 .. n : /\ f[k] = IF k = 1 THEN s[k] ELSE f[k - 1] \o s[k]
                        /\ g[k] = IF k = 1 THEN s[k] ELSE g[k - 1] \o s[k]
  <2> SUFFICES ASSUME NEW k \in 1 .. n
               PROVE  /\ f[k] = IF k = 1 THEN s[k] ELSE f[k - 1] \o s[k]
                      /\ g[k] = IF k = 1 THEN s[k] ELSE g[k - 1] \o s[k]
    OBVIOUS
  <2>1. k \in 1 .. Len(s) /\ k \in 1 .. Len(t) /\ s[k] = t[k]
    BY <1>0
  <2> QED
    BY <2>1, FlattensIs
<1>2. 0 \in S
  OBVIOUS
<1>3. ASSUME NEW k \in Nat, k \in S PROVE k + 1 \in S
  <2> SUFFICES ASSUME k + 1 \in 1 .. n PROVE f[k + 1] = g[k + 1]
    OBVIOUS
  <2>1. CASE k = 0
    BY <1>1, <2>1
  <2>2. CASE k # 0
    <3>1. k \in 1 .. n /\ k + 1 # 1 /\ (k + 1) - 1 = k
      BY <2>2
    <3>2. f[k] = g[k]
      BY <1>3, <3>1
    <3>3. f[k + 1] = f[k] \o s[k + 1] /\ g[k + 1] = g[k] \o s[k + 1]
      BY <1>1, <3>1
    <3> QED
      BY <3>2, <3>3
  <2> QED
    BY <2>1, <2>2
<1> HIDE DEF S
<1>4. i \in S
  BY <1>2, <1>3, SetInduction
<1> QED
  BY <1>4 DEF S

LEMMA ConcatEmpty ==
  ASSUME NEW s, IsList(s)
  PROVE  s \o <<>> = s /\ <<>> \o s = s
<1>1. s \in Seq({s[i] : i \in 1 .. Len(s)})
  BY ListIsSeq
<1> QED
  BY <1>1

LEMMA ConcatAgain ==
  ASSUME NEW s, NEW t, NEW u, IsList(s), IsList(t), IsList(u),
         NEW v, v = s \o t, NEW w, w = t \o u
  PROVE  v \o u = s \o w
<1> DEFINE S == {s[i] : i \in 1 .. Len(s)} \cup {t[i] : i \in 1 .. Len(t)}
                 \cup {u[i] : i \in 1 .. Len(u)}
<1>1. /\ \A i \in 1 .. Len(s) : s[i] \in S
      /\ \A i \in 1 .. Len(t) : t[i] \in S
      /\ \A i \in 1 .. Len(u) : u[i] \in S
  OBVIOUS
<1> HIDE DEF S
<1>2. ASSUME NEW r, IsList(r), \A i \in 1 .. Len(r) : r[i] \in S
      PROVE  r \in Seq(S)
  BY ONLY <1>2 DEF IsList
<1>3. s \in Seq(S) /\ t \in Seq(S) /\ u \in Seq(S)
  BY <1>1, <1>2
<1>4. (s \o t) \o u = s \o (t \o u)
  BY ONLY <1>3, ConcatAssociative
<1> QED
  BY ONLY <1>4, v = s \o t, w = t \o u

LEMMA AppendOne ==
  ASSUME NEW s, IsList(s), NEW x
  PROVE  Append(s, x) = s \o <<x>>
<1> DEFINE S == {s[i] : i \in 1 .. Len(s)} \cup {x}
<1>1. s \in Seq(S) /\ x \in S
  BY DEF IsList
<1> HIDE DEF S
<1> QED
  BY <1>1

LEMMA FlattenEmpty == FlattenSeq(<<>>) = <<>>
  BY DEF FlattenSeq

LEMMA FlattenOne == ASSUME NEW x PROVE FlattenSeq(<<x>>) = x
<1>1. PICK s : s = <<x>>
  OBVIOUS
<1>2. IsList(s) /\ Len(s) = 1 /\ s[1] = x
  BY <1>1 DEF IsList
<1>3. Len(s) # 0 /\ 1 \in 1 .. Len(s)
  BY <1>2
<1>4. PICK f : Flattens(s, f) /\ FlattenSeq(s) = f[Len(s)]
  BY ONLY <1>2, <1>3, FlattenIs, Zenon
<1>5. f[1] = s[1]
  BY ONLY <1>2, <1>3, <1>4, FlattensIs
<1> QED
  BY <1>1, <1>2, <1>4, <1>5

\* One sequence more.
LEMMA FlattenNext ==
  ASSUME NEW s, IsList(s), NEW x, IsList(x)
  PROVE  FlattenSeq(Append(s, x)) = FlattenSeq(s) \o x
<1> DEFINE t == Append(s, x)
           n == Len(s)
<1>1. /\ IsList(t) /\ Len(t) = n + 1 /\ t[n + 1] = x
      /\ \A i \in 1 .. n : t[i] = s[i]
  BY AppendIs
<1>2. n \in Nat
  BY DEF IsList
<1>3. CASE n = 0
  <2>1. s = <<>>
    BY <1>3 DEF IsList
  <2>2. t = <<x>>
    BY <2>1
  <2> QED
    BY <2>1, <2>2, FlattenEmpty, FlattenOne, ConcatEmpty
<1>4. CASE n # 0
  <2> HIDE DEF t
  <2>1. PICK f : Flattens(s, f) /\ FlattenSeq(s) = f[n]
    BY <1>4, FlattenIs
  <2>2. PICK g : Flattens(t, g) /\ FlattenSeq(t) = g[n + 1]
    BY <1>1, <1>2, FlattenIs
  <2> HIDE DEF n
  <2>3. n + 1 \in 1 .. Len(t) /\ n + 1 # 1 /\ (n + 1) - 1 = n
    BY <1>1, <1>2, <1>4
  <2>4. g[n + 1] = g[n] \o x
    <3>1. g[n + 1] = IF n + 1 = 1 THEN t[n + 1] ELSE g[(n + 1) - 1] \o t[n + 1]
      BY ONLY <1>1, <2>2, <2>3, FlattensIs
    <3> QED
      BY ONLY <1>1, <2>3, <3>1
  <2>5. f[n] = g[n]
    <3>1. n <= Len(s) /\ n <= Len(t) /\ n \in 1 .. n
      BY <1>1, <1>2, <1>4 DEF n
    <3> QED
      BY <1>1, <1>2, <2>1, <2>2, <3>1, FlattensAlike
  <2> QED
    BY <2>1, <2>2, <2>4, <2>5 DEF t
<1> QED
  BY <1>3, <1>4

\* The first elements of a sequence, for induction over its length.
FirstOf(s, n) == [i \in 1 .. n |-> s[i]]

LEMMA FirstOfIs ==
  ASSUME NEW s, IsList(s)
  PROVE  /\ FirstOf(s, 0) = <<>> /\ FirstOf(s, Len(s)) = s
         /\ \A n \in Nat : IsList(FirstOf(s, n)) /\ Len(FirstOf(s, n)) = n
         /\ \A n \in Nat : FirstOf(s, n + 1) = Append(FirstOf(s, n), s[n + 1])
<1>1. FirstOf(s, 0) = <<>> /\ FirstOf(s, Len(s)) = s
  BY DEF FirstOf, IsList
<1>2. ASSUME NEW n \in Nat PROVE IsList(FirstOf(s, n)) /\ Len(FirstOf(s, n)) = n
  BY DEF FirstOf, IsList
<1>3. ASSUME NEW n \in Nat PROVE FirstOf(s, n + 1) = Append(FirstOf(s, n), s[n + 1])
  <2> DEFINE p == FirstOf(s, n)
             q == FirstOf(s, n + 1)
             a == Append(p, s[n + 1])
  <2>1. IsList(p) /\ Len(p) = n /\ IsList(q) /\ Len(q) = n + 1
    BY <1>2
  <2>2. (\A i \in 1 .. n : p[i] = s[i]) /\ \A i \in 1 .. n + 1 : q[i] = s[i]
    BY DEF FirstOf
  <2> HIDE DEF p, q
  <2>3. /\ IsList(a) /\ Len(a) = n + 1 /\ a[n + 1] = s[n + 1]
        /\ \A i \in 1 .. n : a[i] = p[i]
    BY <2>1, AppendIs
  <2> HIDE DEF a
  <2>4. \A i \in 1 .. n + 1 : a[i] = q[i]
    <3> SUFFICES ASSUME NEW i \in 1 .. n + 1 PROVE a[i] = q[i]
      OBVIOUS
    <3>1. i = n + 1 \/ i \in 1 .. n
      OBVIOUS
    <3> QED
      BY <2>2, <2>3, <3>1
  <2>5. a = q
    BY <2>1, <2>3, <2>4, ListEqual
  <2> QED
    BY <2>5 DEF a, p, q
<1> QED
  BY <1>1, <1>2, <1>3

LEMMA FlattenIsList ==
  ASSUME NEW s, IsList(s), \A i \in 1 .. Len(s) : IsList(s[i])
  PROVE  IsList(FlattenSeq(s))
<1> DEFINE S == {n \in Nat : n <= Len(s) => IsList(FlattenSeq(FirstOf(s, n)))}
<1>0. Len(s) \in Nat
  BY DEF IsList
<1>1. 0 \in S
  <2>1. IsList(<<>>)
    BY DEF IsList
  <2> QED
    BY <2>1, FirstOfIs, FlattenEmpty
<1>2. ASSUME NEW n \in Nat, n \in S PROVE n + 1 \in S
  <2> SUFFICES ASSUME n + 1 <= Len(s) PROVE IsList(FlattenSeq(FirstOf(s, n + 1)))
    OBVIOUS
  <2>1. n + 1 \in 1 .. Len(s) /\ n <= Len(s)
    BY <1>0
  <2>2. IsList(s[n + 1]) /\ IsList(FlattenSeq(FirstOf(s, n))) /\ IsList(FirstOf(s, n))
    BY <1>2, <2>1, FirstOfIs
  <2>3. FirstOf(s, n + 1) = Append(FirstOf(s, n), s[n + 1])
    BY FirstOfIs
  <2>4. FlattenSeq(FirstOf(s, n + 1)) = FlattenSeq(FirstOf(s, n)) \o s[n + 1]
    BY <2>2, <2>3, FlattenNext
  <2>5. PICK y, z : y = FlattenSeq(FirstOf(s, n)) /\ z = s[n + 1]
    OBVIOUS
  <2>6. IsList(y \o z)
    BY ONLY <2>2, <2>5, ConcatIs
  <2> QED
    BY <2>4, <2>5, <2>6
<1> HIDE DEF S
<1>3. Len(s) \in S
  BY <1>0, <1>1, <1>2, SetInduction
<1>4. FirstOf(s, Len(s)) = s
  BY FirstOfIs
<1> QED
  BY <1>0, <1>3, <1>4 DEF S

LEMMA FlattenConcat ==
  ASSUME NEW u, NEW v, IsList(u), IsList(v),
         \A i \in 1 .. Len(u) : IsList(u[i]), \A i \in 1 .. Len(v) : IsList(v[i])
  PROVE  FlattenSeq(u \o v) = FlattenSeq(u) \o FlattenSeq(v)
<1> DEFINE At(n) == FlattenSeq(u \o FirstOf(v, n)) = FlattenSeq(u) \o FlattenSeq(FirstOf(v, n))
           S == {n \in Nat : n <= Len(v) => At(n)}
<1>0. Len(v) \in Nat /\ IsList(FlattenSeq(u))
  BY FlattenIsList DEF IsList
<1>1. 0 \in S
  <2>1. PICK y : y = FlattenSeq(u)
    OBVIOUS
  <2>2. FirstOf(v, 0) = <<>>
    BY FirstOfIs
  <2>3. u \o <<>> = u /\ y \o <<>> = y
    BY <1>0, <2>1, ConcatEmpty
  <2>4. At(0)
    BY <2>1, <2>2, <2>3, FlattenEmpty
  <2> QED
    BY <2>4
<1>2. ASSUME NEW n \in Nat, n \in S PROVE n + 1 \in S
  <2> SUFFICES ASSUME n + 1 <= Len(v) PROVE At(n + 1)
    OBVIOUS
  <2>1. n + 1 \in 1 .. Len(v) /\ n <= Len(v)
    BY <1>0
  <2>2. PICK p, x, y : p = FirstOf(v, n) /\ x = v[n + 1] /\ y = FlattenSeq(u)
    OBVIOUS
  <2>3. At(n)
    BY <1>2, <2>1
  <2>4. /\ IsList(x) /\ IsList(p) /\ Len(p) = n /\ FirstOf(v, n + 1) = Append(p, x)
        /\ FlattenSeq(u \o p) = y \o FlattenSeq(p)
    BY <2>1, <2>2, <2>3, FirstOfIs
  <2>5. \A i \in 1 .. Len(p) : IsList(p[i])
    <3> SUFFICES ASSUME NEW i \in 1 .. Len(p) PROVE IsList(p[i])
      OBVIOUS
    <3>1. i \in 1 .. n /\ i \in 1 .. Len(v)
      BY <1>0, <2>1, <2>4
    <3>2. p[i] = v[i]
      BY <2>2, <3>1 DEF FirstOf
    <3>3. IsList(v[i])
      BY <3>1
    <3> QED
      BY <3>2, <3>3
  <2> HIDE DEF At, S
  <2>6. PICK z : z = FlattenSeq(p)
    OBVIOUS
  <2>7. IsList(z)
    BY ONLY <2>4, <2>5, <2>6, FlattenIsList
  <2>8. PICK e : e = <<x>>
    OBVIOUS
  <2>9. IsList(e)
    BY <2>8 DEF IsList
  <2>10. PICK w : w = u \o p
    OBVIOUS
  <2>11. IsList(w)
    BY ONLY <2>4, <2>10, IsList(u), ConcatIs
  <2>12. w \o e = u \o (p \o e)
    BY ONLY <2>4, <2>9, <2>10, IsList(u), ConcatAgain
  <2>13. Append(p, x) = p \o e /\ Append(w, x) = w \o e
    BY ONLY <2>4, <2>8, <2>11, AppendOne
  <2>14. u \o Append(p, x) = Append(w, x)
    BY ONLY <2>10, <2>12, <2>13
  <2>15. FlattenSeq(Append(w, x)) = FlattenSeq(w) \o x
    BY ONLY <2>4, <2>11, FlattenNext
  <2>16. FlattenSeq(Append(p, x)) = z \o x
    BY ONLY <2>4, <2>6, FlattenNext
  <2>17. PICK f, g : f = y \o z /\ g = z \o x
    OBVIOUS
  <2>18. f \o x = y \o g
    <3>1. IsList(y)
      BY ONLY <1>0, <2>2
    <3>2. IsList(x)
      BY ONLY <2>4
    <3> QED
      BY ONLY <2>7, <2>17, <3>1, <3>2, ConcatAgain
  <2> QED
    BY ONLY <2>2, <2>4, <2>6, <2>10, <2>14, <2>15, <2>16, <2>17, <2>18 DEF At
<1>3. Len(v) \in S
  <2> HIDE DEF S
  <2> QED
    BY ONLY <1>0, <1>1, <1>2, SetInduction
<1>4. FirstOf(v, Len(v)) = v
  BY FirstOfIs
<1> QED
  BY <1>0, <1>3, <1>4

-----------------------------------------------------------------------------
(* Positions of a list *)

LEMMA PositionsAre ==
  ASSUME NEW s, IsList(s), NEW I \in SUBSET (1 .. Len(s))
  PROVE  I \in SUBSET Nat /\ IsFiniteSet(I)
<1>1. IsFiniteSet(1 .. Len(s)) /\ 1 .. Len(s) \subseteq Nat
  BY FS_Interval DEF IsList
<1> QED
  BY <1>1, FS_Subset

\* The same positions of two sequences, picked side by side.
LEMMA PickBoth ==
  ASSUME NEW s, NEW t, NEW I \in SUBSET Nat, IsFiniteSet(I)
  PROVE  /\ IsList(Pick(s, I)) /\ IsList(Pick(t, I)) /\ Len(Pick(s, I)) = Len(Pick(t, I))
         /\ \A k \in 1 .. Len(Pick(s, I)) :
              \E i \in I : Pick(s, I)[k] = s[i] /\ Pick(t, I)[k] = t[i]
<1>1. /\ IsList(Pick(s, I)) /\ Len(Pick(s, I)) = Cardinality(I)
      /\ \A k \in 1 .. Cardinality(I) : Pick(s, I)[k] = s[Ascending(I)[k]]
      /\ IsList(Pick(t, I)) /\ Len(Pick(t, I)) = Cardinality(I)
      /\ \A k \in 1 .. Cardinality(I) : Pick(t, I)[k] = t[Ascending(I)[k]]
  BY PickIs
<1>2. \A k \in 1 .. Cardinality(I) : Ascending(I)[k] \in I
  BY AscendingIs
<1> QED
  BY ONLY <1>1, <1>2

LEMMA PickWhole ==
  ASSUME NEW s, IsList(s)
  PROVE  Pick(s, 1 .. Len(s)) = s
<1>1. Len(s) \in Nat /\ s = [k \in 1 .. Len(s) |-> s[k]]
  BY DEF IsList
<1>2. Pick(s, 1 .. Len(s)) = [k \in 1 .. Len(s) |-> s[k]]
  BY <1>1, PickAll
<1> QED
  BY <1>1, <1>2

LEMMA OneIsList == ASSUME NEW x PROVE IsList(<<x>>) /\ Len(<<x>>) = 1 /\ <<x>>[1] = x
  BY DEF IsList

Counted(R, c, a) == c = Cardinality(R) /\ a = Ascending(R)

\* Every position of R moved by one, and one more at the end.
Shifted(R, N) == {n + 1 : n \in R} \cup {N + 1}

IsShifted(p, s, c, a, N) ==
  /\ IsList(p) /\ Len(p) = c + 1
  /\ \A k \in 1 .. c : p[k] = s[a[k] + 1]
  /\ p[c + 1] = s[N + 1]

LEMMA PickShifted ==
  ASSUME NEW s, NEW N \in Nat, NEW R \in SUBSET (1 .. N - 1),
         NEW c, NEW a, Counted(R, c, a), NEW p, p = Pick(s, Shifted(R, N))
  PROVE  IsShifted(p, s, c, a, N)
<1>15. c = Cardinality(R) /\ a = Ascending(R)
  BY DEF Counted
<1>2. PICK I : I = Shifted(R, N)
  OBVIOUS
<1>0. I = {n + 1 : n \in R} \cup {N + 1}
  BY <1>2 DEF Shifted
<1>1. R \in SUBSET Nat /\ IsFiniteSet(R)
  <2>1. IsFiniteSet(1 .. N - 1) /\ 1 .. N - 1 \subseteq Nat
    BY FS_Interval
  <2> QED
    BY <2>1, FS_Subset
<1>3. /\ c \in Nat /\ a \in [1 .. c -> R]
      /\ \A k, l \in 1 .. c : k < l => a[k] < a[l]
      /\ \A n \in R : \E k \in 1 .. c : a[k] = n
  BY <1>1, <1>15, AscendingIs
<1>4. \A n \in R : n \in Nat /\ n < N
  OBVIOUS
<1>5. PICK f : f = [k \in 1 .. c + 1 |-> IF k <= c THEN a[k] + 1 ELSE N + 1]
  OBVIOUS
<1>6. /\ f \in [1 .. c + 1 -> I] /\ c + 1 \in Nat
      /\ \A k \in 1 .. c : f[k] = a[k] + 1
      /\ f[c + 1] = N + 1
  <2>1. \A k \in 1 .. c : a[k] \in R
    BY <1>3
  <2>2. \A k \in 1 .. c : a[k] + 1 \in I
    BY <1>0, <2>1
  <2>3. N + 1 \in I
    BY <1>0
  <2> QED
    BY ONLY <1>3, <1>5, <2>2, <2>3
<1>7. I \in SUBSET Nat
  BY <1>0, <1>4
<1>8. \A k, l \in 1 .. c + 1 : k < l => f[k] < f[l]
  <2> SUFFICES ASSUME NEW k \in 1 .. c + 1, NEW l \in 1 .. c + 1, k < l PROVE f[k] < f[l]
    OBVIOUS
  <2>0. k \in 1 .. c + 1 /\ l \in 1 .. c + 1 /\ k < l
    OBVIOUS
  <2>1. k \in 1 .. c
    BY ONLY <1>3, <2>0
  <2>4. f[k] = a[k] + 1 /\ a[k] \in Nat /\ a[k] < N
    BY ONLY <1>3, <1>4, <1>6, <2>1
  <2>2. CASE l \in 1 .. c
    <3>1. a[k] < a[l] /\ f[l] = a[l] + 1 /\ a[l] \in Nat
      BY ONLY <1>3, <1>4, <1>6, <2>0, <2>1, <2>2
    <3> QED
      BY ONLY <2>4, <3>1
  <2>3. CASE l = c + 1
    <3>1. N \in Nat
      OBVIOUS
    <3> QED
      BY ONLY <1>6, <2>4, <2>3, <3>1
  <2> QED
    BY <1>3, <2>2, <2>3
<1>9. \A i \in I : \E k \in 1 .. c + 1 : f[k] = i
  <2>1. ASSUME NEW n \in R PROVE \E k \in 1 .. c + 1 : f[k] = n + 1
    <3>1. PICK k \in 1 .. c : a[k] = n
      BY <1>3
    <3>2. k \in 1 .. c + 1 /\ f[k] = n + 1
      BY ONLY <1>3, <1>6, <3>1
    <3> QED
      BY <3>2
  <2>2. c + 1 \in 1 .. c + 1
    BY <1>3
  <2> QED
    BY <1>0, <1>6, <2>1, <2>2
<1>10. PICK n : p = Pick(s, I) /\ n = c + 1
  BY <1>2
<1>11. IsFiniteSet(I) /\ IsList(p) /\ Len(p) = n /\ \A k \in 1 .. n : p[k] = s[f[k]]
  <2>1. /\ n \in Nat /\ f \in [1 .. n -> I]
        /\ \A k, l \in 1 .. n : k < l => f[k] < f[l]
        /\ \A i \in I : \E k \in 1 .. n : f[k] = i
    BY ONLY <1>6, <1>8, <1>9, <1>10
  <2> QED
    BY ONLY <1>7, <1>10, <2>1, PickBy
<1>12. /\ \A k \in 1 .. c : k \in 1 .. n
       /\ c + 1 \in 1 .. n
  BY ONLY <1>3, <1>10
<1>13. ASSUME NEW k \in 1 .. c PROVE p[k] = s[a[k] + 1]
  <2>1. k \in 1 .. n /\ f[k] = a[k] + 1
    BY <1>6, <1>12
  <2> QED
    BY <1>11, <2>1
<1>14. p[c + 1] = s[N + 1]
  <2>1. p[c + 1] = s[f[c + 1]]
    BY <1>11, <1>12
  <2> QED
    BY <1>6, <2>1
<1> QED
  BY <1>10, <1>11, <1>13, <1>14 DEF IsShifted
=============================================================================
