------------------------------ MODULE MCSessions ------------------------------
(* Instances of Sessions for TLC. *)
EXTENDS Sessions, TLC

CONSTANTS ann, bob, r1, r2, r3, nobody

MCUsers == {ann, bob}
MCRequests == {r1, r2, r3}
MCSids == {"s1", "s2", "s3"}
MCSymmetry == Permutations(MCUsers) \cup Permutations(MCRequests)

=============================================================================
