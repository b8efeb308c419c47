-------------------------- MODULE MCResearchReport --------------------------
(* ResearchReport for TLC: two requests of one user. *)
EXTENDS ResearchReport, TLC

CONSTANTS r1, r2

MCTwoReports == {r1, r2}
MCSymmetry == Permutations(MCTwoReports)

=============================================================================
