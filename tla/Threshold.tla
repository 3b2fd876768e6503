------------------------------ MODULE Threshold ------------------------------
(* Two thresholds for the scores of one algorithm.  The baseline evaluation  *)
(* walks the scores from the strictest one, a point per distinct score, and  *)
(* takes the point of highest TAR within a FAR target                        *)
(* (baseline_evaluation/sweep.py); its rates are over planned attempts.  The *)
(* calibration takes the most permissive boundary at an impostor's score     *)
(* within a target (calibration/selection.py); its rate is over scored       *)
(* impostors.                                                                *)
EXTENDS Integers, Sequences, FiniteSets

CONSTANTS
  NGenuine,    \* planned genuine attempts
  NImpostor,   \* planned impostor attempts
  MaxScore,    \* bound: scores are 1..MaxScore
  TargetUnit   \* bound: targets are k / TargetUnit

ASSUME ThresholdAssumption ==
  /\ NGenuine \in Nat \ {0} /\ NImpostor \in Nat \ {0}
  /\ MaxScore \in Nat \ {0} /\ TargetUnit \in Nat \ {0}

Attempts == 1..(NGenuine + NImpostor)
Genuine == 1..NGenuine
Impostors == Attempts \ Genuine
Failed == 0   \* the score of an attempt that has none

VARIABLES
  thAt,     \* "inputs", "sweeping", "swept", "chosen"
  score,    \* of every attempt
  higher,   \* whether higher scores match
  points,   \* of the sweep so far: cut and accepted attempts of either kind
  target,   \* the target is target / TargetUnit
  point,    \* the point the evaluation takes, its place in points
  boundary  \* the boundary the calibration takes, <<>> for none

thVars == <<thAt, score, higher, points, target, point, boundary>>

ThInit ==
  /\ thAt = "inputs" /\ score = <<>> /\ higher = TRUE /\ points = <<>>
  /\ target = 0 /\ point = 0 /\ boundary = <<>>

Scored(attempts) == {a \in attempts : score[a] # Failed}
ScoresOf(attempts) == {score[a] : a \in Scored(attempts)}
Beyond(x, y) == IF higher THEN x > y ELSE x < y

-----------------------------------------------------------------------------
(* The sweep.                                                               *)

\* Its first point accepts nothing.
StartSweep ==
  /\ thAt = "inputs" /\ thAt' = "sweeping"
  /\ score' \in [Attempts -> 0..MaxScore]
  /\ higher' \in BOOLEAN
  /\ points' = <<[cut |-> Failed, genuine |-> 0, impostor |-> 0]>>
  /\ UNCHANGED <<target, point, boundary>>

LastPoint == points[Len(points)]

Uncut == {x \in ScoresOf(Attempts) : Len(points) = 1 \/ Beyond(LastPoint.cut, x)}

\* One attempt of a tied group is accepted.
BugTied(x, attempts) == IF \E a \in attempts : score[a] = x THEN 1 ELSE 0

Tied(x, attempts) == Cardinality({a \in attempts : score[a] = x})

\* The next distinct score and everybody who has it.
Cut ==
  /\ thAt = "sweeping"
  /\ \E x \in Uncut :
       /\ \A y \in Uncut : ~Beyond(y, x)
       /\ points' = Append(points, [cut |-> x,
                      genuine  |-> LastPoint.genuine + Tied(x, Genuine),
                      impostor |-> LastPoint.impostor + Tied(x, Impostors)])
  /\ UNCHANGED <<thAt, score, higher, target, point, boundary>>

EndSweep ==
  /\ thAt = "sweeping" /\ Uncut = {}
  /\ thAt' = "swept"
  /\ UNCHANGED <<score, higher, points, target, point, boundary>>

\* accepted / n is at most the target, on integers.
Within(accepted, n, t) == accepted * TargetUnit <= t * n

\* Higher TAR, then lower FAR, then fewer accepted, then earlier: the counts
\* never fall along the points, so the last three are one.
Better(i, j) ==
  \/ points[i].genuine > points[j].genuine
  \/ points[i].genuine = points[j].genuine /\ points[i].impostor < points[j].impostor
  \/ points[i].genuine = points[j].genuine /\ points[i].impostor = points[j].impostor /\ i <= j

FarTargetPoint(t) ==
  LET within == {i \in DOMAIN points : Within(points[i].impostor, NImpostor, t)} IN
  CHOOSE i \in within : \A j \in within : Better(i, j)

-----------------------------------------------------------------------------
(* The calibration.                                                         *)

Candidates == [threshold : ScoresOf(Impostors), strict : BOOLEAN]

Decides(b, x) == Beyond(x, b.threshold) \/ (~b.strict /\ x = b.threshold)

Matches(b, attempts) == {a \in Scored(attempts) : Decides(b, score[a])}

Admissible(t) ==
  {b \in Candidates :
     Within(Cardinality(Matches(b, Impostors)), Cardinality(Scored(Impostors)), t)}

Permissiveness(b) == Cardinality({x \in ScoresOf(Impostors) : Decides(b, x)})

\* select_boundary: of the most permissive the inclusive one, then the lower.
Boundary(t) ==
  LET admissible == Admissible(t)
      best == {b \in admissible : \A c \in admissible : Permissiveness(c) <= Permissiveness(b)}
      first(b, c) == IF b.strict = c.strict THEN b.threshold <= c.threshold ELSE ~b.strict
  IN CHOOSE b \in best : \A c \in best : first(b, c)

\* Without a scored impostor the calibration refuses; the sweep does not.
Choose ==
  /\ thAt = "swept" /\ thAt' = "chosen"
  /\ target' \in 0..TargetUnit
  /\ point' = FarTargetPoint(target')
  /\ boundary' = IF Scored(Impostors) = {} THEN <<>> ELSE Boundary(target')
  /\ UNCHANGED <<score, higher, points>>

-----------------------------------------------------------------------------
ThNext == StartSweep \/ Cut \/ EndSweep \/ Choose

ThSpec == ThInit /\ [][ThNext]_thVars

-----------------------------------------------------------------------------
(* Properties.                                                              *)

\* Accepted by a threshold at x, whether or not x is anybody's score.
AcceptedAt(x, attempts) ==
  Cardinality({a \in Scored(attempts) : score[a] = x \/ Beyond(score[a], x)})

\* However the counters were carried along, every point counts who is accepted
\* at its cut: equal scores together, failures never, and when the sweep is over
\* no threshold is missing from it.
PointsAreThresholds ==
  /\ \A i \in 2..Len(points) :
       /\ points[i].genuine = AcceptedAt(points[i].cut, Genuine)
       /\ points[i].impostor = AcceptedAt(points[i].cut, Impostors)
  /\ thAt \in {"swept", "chosen"} => \A x \in 0..(MaxScore + 1) : \E i \in DOMAIN points :
       /\ points[i].genuine = AcceptedAt(x, Genuine)
       /\ points[i].impostor = AcceptedAt(x, Impostors)

\* The point taken is within the target, and no threshold within it accepts more
\* genuine attempts, or as many and fewer impostors.
FarChoiceIsOptimal ==
  thAt = "chosen" =>
    /\ Within(points[point].impostor, NImpostor, target)
    /\ \A x \in 0..(MaxScore + 1) :
         Within(AcceptedAt(x, Impostors), NImpostor, target) =>
           \/ AcceptedAt(x, Genuine) < points[point].genuine
           \/ /\ AcceptedAt(x, Genuine) = points[point].genuine
              /\ AcceptedAt(x, Impostors) >= points[point].impostor

\* "Of the boundaries whose observed impostor match rate does not exceed the
\* target, take the one that accepts the most" (calibration/selection.py): of all
\* thresholds, though only the impostors' scores are tried.
BoundaryIsMostPermissive ==
  thAt = "chosen" /\ boundary # <<>> =>
    LET taken == Cardinality(Matches(boundary, Impostors))
        n == Cardinality(Scored(Impostors))
    IN /\ taken * TargetUnit <= target * n
       /\ \A x \in 0..(MaxScore + 1) :
            AcceptedAt(x, Impostors) * TargetUnit <= target * n =>
              AcceptedAt(x, Impostors) <= taken

\* The genuine scores cannot move the boundary: it is at an impostor's score, and
\* strict only to accept no impostor, which with BoundaryIsMostPermissive leaves
\* one choice.
GenuineNeverMoveTheBoundary ==
  thAt = "chosen" /\ boundary # <<>> =>
    /\ boundary.threshold \in ScoresOf(Impostors)
    /\ boundary.strict => Matches(boundary, Impostors) = {}

\* The two selections differ in what they count and in what they prefer, and
\* still: within the same target the evaluation never reports a lower TAR than
\* the calibrated boundary reaches.
SweepIsNoWorse ==
  thAt = "chosen" /\ boundary # <<>> =>
    Cardinality(Matches(boundary, Genuine)) <= points[point].genuine

ThTypeOK ==
  /\ thAt \in {"inputs", "sweeping", "swept", "chosen"}
  /\ thAt # "inputs" => score \in [Attempts -> 0..MaxScore]
  /\ Len(points) <= MaxScore + 1
  /\ \A i \in DOMAIN points :
       points[i].genuine \in 0..NGenuine /\ points[i].impostor \in 0..NImpostor
  /\ target \in 0..TargetUnit
  /\ point \in 0..Len(points)
=============================================================================
