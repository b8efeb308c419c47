------------------------------ MODULE MCCodeSync ------------------------------
(* Instances of CodeSync for TLC. *)
EXTENDS CodeSync, TLC

CONSTANTS j1, j2

MCSyncs == {j1, j2}

\* In version 1 two packages have a class of the same name, so its sync fails
\* in the last file, after one without declarations; version 2 has an
\* overloaded method, and the other order of the files.
Decl(base, line) == [base |-> base, line |-> line]
MCSource ==
    << << <<Decl("A.m", 1)>>, << >>, <<Decl("B.q", 1)>>, <<Decl("A.m", 1)>> >>,
       << << >>, <<Decl("B.q", 1), Decl("B.r", 5), Decl("B.r", 9)>>, <<Decl("A.m", 1)>> >> >>

=============================================================================
