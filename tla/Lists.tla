-------------------------------- MODULE Lists ---------------------------------
(***************************************************************************)
(* What the lists of the program are built with, told by places instead of *)
(* by loops.                                                               *)
(***************************************************************************)
EXTENDS Naturals, Sequences, FiniteSets, SequencesExt

\* s[:n]
Leading(s, n) == SubSeq(s, 1, IF Len(s) < n THEN Len(s) ELSE n)

\* The k-th of some places.
Nth(I, k) == CHOOSE i \in I : Cardinality({j \in I : j < i}) = k - 1

\* The elements at some places of a list, in their order.
Kept(s, I) == [k \in 1..Cardinality(I) |-> s[Nth(I, k)]]

\* [x for x in s if ...]
Where(s, Test(_)) == Kept(s, {i \in DOMAIN s : Test(s[i])})

\* dict.fromkeys: each element where it occurs first.
WithoutRepeats(s) == Kept(s, {i \in DOMAIN s : \A j \in DOMAIN s : s[j] = s[i] => i <= j})

\* sorted: equal elements keep their order.
StableSort(s, Before(_, _)) ==
    LET first(i, j) == Before(s[i], s[j]) \/ (~Before(s[j], s[i]) /\ i < j)
    IN [k \in DOMAIN s |->
          s[CHOOSE i \in DOMAIN s : Cardinality({j \in DOMAIN s : first(j, i)}) = k - 1]]

=============================================================================
