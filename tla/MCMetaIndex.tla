------------------------------ MODULE MCMetaIndex ------------------------------
(* Instances of MetaIndex for TLC. *)
EXTENDS MetaIndex, TLC

CONSTANTS q1, q2

\* A metric, the table it names, to be registered with its column and a value
\* of it, and an example.
MCItems == {"t", "c", "v", "m", "e"}
MCKind == [i \in MCItems |->
    CASE i = "t" -> "table" [] i = "c" -> "column" [] i = "v" -> "value"
      [] i = "m" -> "metric" [] i = "e" -> "example"]
MCParent == [i \in MCItems |-> IF i = "v" THEN "c" ELSE "t"]
MCSeeded == {"m"}
MCAsks == {q1, q2}
MCSymmetry == Permutations(MCAsks)

=============================================================================
