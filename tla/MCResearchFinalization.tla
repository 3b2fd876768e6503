----------------------- MODULE MCResearchFinalization -----------------------
(* Model-checking instances of ResearchFinalization.                       *)
EXTENDS ResearchFinalization, TLC

CONSTANTS e1, e2, e3, none, timeouts, rejections

TwoEvidences == {e1, e2}

\* The second and the third have as many failures as each other, of another kind.
CountsByCode == (e1 :> none) @@ (e2 :> timeouts) @@ (e3 :> rejections)
FailuresCounted == (none :> 0) @@ (timeouts :> 2) @@ (rejections :> 2)

Symmetry == Permutations(Finalizers)
=============================================================================
