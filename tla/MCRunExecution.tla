--------------------------- MODULE MCRunExecution ---------------------------
(* Model-checking instances of RunExecution.                               *)
EXTENDS RunExecution, TLC

CONSTANTS p1, p2, c1, c2

OnePreparer == {p1}
TwoPreparers == {p1, p2}
NoClosure == {c1}
TwoClosures == {c1, c2}

Symmetry == Permutations(Workers)
=============================================================================
