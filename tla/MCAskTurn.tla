------------------------------ MODULE MCAskTurn ------------------------------
(* AskTurn for TLC: one streamed and one plain request. *)
EXTENDS AskTurn, TLC

CONSTANTS s1, p1

MCStreamedAndPlain == {s1, p1}
MCStreamed == {s1}

\* The behaviours in which only one of the two is made.  Requests meet in a
\* crash only, so for the end of each one it is enough to look at these.
OneAsked == \E t \in Turns : \A u \in Turns \ {t} : row[u] = "absent"

MCFairSingle == Init /\ [][Next /\ OneAsked']_vars /\ Fairness

=============================================================================
