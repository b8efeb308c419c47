---------------------------- MODULE MCRuntimeConfig ----------------------------
(* Instances of RuntimeConfig for TLC. *)
EXTENDS RuntimeConfig, TLC

CONSTANTS a1, a2, q1

\* An Excel source and one with a synchronous driver; env is the third.
MCIds == {"d1", "d2"}
MCKind == [i \in MCIds |-> "ds"]
MCDriver == [i \in MCIds |-> CASE i = "d1" -> "excel" [] i = "d2" -> "sync" [] OTHER -> "async"]
MCSeeded == {"d1"}
MCAdmins == {a1, a2}
MCSymmetry == Permutations(MCAdmins)

=============================================================================
