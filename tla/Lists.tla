-------------------------------- MODULE Lists --------------------------------
(***************************************************************************)
(* Selecting from a sequence.  Sequences!SelectSeq and a sort say the same *)
(* (MCSseDecoder compares them), but the provers know nothing of either.   *)
(***************************************************************************)
EXTENDS Naturals, Sequences, FiniteSets

\* A sequence of anything.
IsList(s) == Len(s) \in Nat /\ s = [i \in 1 .. Len(s) |-> s[i]]

Rank(i, S) == Cardinality({j \in S : j <= i})

\* The members of a finite set of numbers, in order: the keys of a BTreeMap.
Ascending(S) == [k \in 1 .. Cardinality(S) |-> CHOOSE i \in S : Rank(i, S) = k]

\* The elements of s at the positions I.
Pick(s, I) ==
  LET at == Ascending(I) IN [k \in 1 .. Cardinality(I) |-> s[at[k]]]

Where(s, Test(_)) == {i \in 1 .. Len(s) : Test(s[i])}

\* filter
Keep(s, Test(_)) == Pick(s, Where(s, Test))

\* map
MapSeq(Op(_), s) == [i \in 1 .. Len(s) |-> Op(s[i])]
=============================================================================
