------------------------------- MODULE Protocol -------------------------------
(* From the images of a dataset to the comparisons of the study: the subject *)
(* records (datasets/base.py), the cohort (protocols/cohorts.py), its pairs  *)
(* (protocols/pair_generation.py), and the exhaustive cross-subject pairs    *)
(* with the audit a stored roster of them has to pass                        *)
(* (protocols/cross_subject.py).                                             *)
(*                                                                           *)
(* An image is its slot.  The ten fingers are 1..NFingers, and the SHA-256   *)
(* by which a cohort is drawn is any ranking of the subjects.                *)
EXTENDS Integers, FiniteSets

CONSTANTS
  DatasetReleases,  \* the releases of the dataset
  NSubjects,        \* its subjects are 1..NSubjects
  NFingers,         \* the fingers of a hand-pair, ten in the code
  CohortSize,       \* how many subjects a cohort takes
  MaxFlaws,         \* bound: slots without exactly one usable image, subjects away
  MaxAlterations    \* bound: changes to a stored roster, divided by its releases

ASSUME ProtocolAssumption ==
  /\ NSubjects \in Nat \ {0} /\ NFingers \in Nat \ {0} /\ CohortSize \in Nat \ {0}
  /\ MaxFlaws \in Nat /\ MaxAlterations \in Nat
  /\ IsFiniteSet(DatasetReleases)

Subjects == 1..NSubjects
Fingers == 1..NFingers
Impressions == {"plain", "roll"}

Slot == [release : DatasetReleases, subject : Subjects,
         impression : Impressions, finger : Fingers]
SlotOf(r, s, i, f) == [release |-> r, subject |-> s, impression |-> i, finger |-> f]

VARIABLES
  protocolAt,   \* "inputs", "images", "cohort", "pairs", "roster", "refused", "broken"
  releases,     \* the criteria: the releases a cohort is for,
  allTen,       \*   and the impressions of which it has to have every finger
  rank,         \* the draw: a ranking of the subjects
  flawed,       \* slots that hold no image, an unusable one or two usable ones
  away,         \* <<release, subject>>: no image of a single finger in a release
  slaps,        \* <<release, subject>>: a usable image of several fingers at once
  cohort,
  stages,       \* the plan: the stages that generate_pairs was asked for,
  pairs,        \*   and what it made
  roster        \* the stored cross-subject pairs

protocolInputs == <<releases, allTen, rank, flawed, away, slaps>>
protocolVars == <<protocolAt, protocolInputs, cohort, stages, pairs, roster>>

ProtocolInit ==
  /\ protocolAt = "inputs"
  /\ releases = {} /\ allTen = {} /\ rank = [s \in Subjects |-> s]
  /\ flawed = <<>> /\ away = {} /\ slaps = {}
  /\ cohort = {} /\ stages = {} /\ pairs = {} /\ roster = {}

\* Any dataset with few flaws, any seed, and any criteria that the loader takes: a
\* cohort is common to its releases, but either impression may be left out.
Deliver ==
  /\ protocolAt = "inputs" /\ protocolAt' = "images"
  /\ releases' \in (SUBSET DatasetReleases) \ {{}}
  /\ allTen' \in SUBSET Impressions
  /\ rank' \in {f \in [Subjects -> Subjects] : \A s, t \in Subjects : f[s] = f[t] => s = t}
  /\ away' \in {{}} \cup {{<<r, s>>} : r \in DatasetReleases, s \in Subjects}
  /\ slaps' \in {DatasetReleases \X Subjects, (DatasetReleases \X Subjects) \ away'}
  /\ \E n \in 0..MaxFlaws : \E slots \in [1..n -> Slot] :
       /\ n + Cardinality(away') <= MaxFlaws
       /\ flawed' \in [{slots[i] : i \in 1..n} -> {"absent", "unusable", "twice"}]
  /\ UNCHANGED <<cohort, stages, pairs, roster>>

-----------------------------------------------------------------------------
(* The subject records and the cohort.                                      *)

Flaw(slot) ==
  IF <<slot.release, slot.subject>> \in away THEN "absent"
  ELSE IF slot \in DOMAIN flawed THEN flawed[slot] ELSE "none"

\* An image that is blocked, or whose checksum is known to be wrong, is there
\* and does not count: for the records and for the pairs alike.
Usable(slot) == Flaw(slot) \in {"none", "twice"}

\* A slap makes a record too, one that has no position.
HasRecord(r, s) ==
  \/ <<r, s>> \in slaps
  \/ \E slot \in Slot : slot.release = r /\ slot.subject = s /\ Usable(slot)

\* A record counts every image of a slot, usable or not.
BugPositions(r, s, i) == {f \in Fingers : Flaw(SlotOf(r, s, i, f)) # "absent"}

Positions(r, s, i) == {f \in Fingers : Usable(SlotOf(r, s, i, f))}

IsComplete(r, s) == \A i \in allTen : Positions(r, s, i) = Fingers

\* There in every release, and complete in each.
EligibleSubjects ==
  {s \in Subjects : \A r \in releases : HasRecord(r, s) /\ IsComplete(r, s)}

\* The first of them in the ranking.
Drawn(subjects) ==
  {s \in subjects : Cardinality({t \in subjects : rank[t] < rank[s]}) < CohortSize}

SelectCohort ==
  /\ protocolAt = "images"
  /\ IF Cardinality(EligibleSubjects) < CohortSize
       THEN protocolAt' = "refused" /\ UNCHANGED cohort
       ELSE protocolAt' = "cohort" /\ cohort' = Drawn(EligibleSubjects)
  /\ UNCHANGED <<protocolInputs, stages, pairs, roster>>

-----------------------------------------------------------------------------
(* The pairs of the study.                                                  *)

\* build_image_index looks at every image it is given.
IndexBreaks == \E slot \in Slot : Flaw(slot) = "twice"

\* _require: a cohort subject without the image is an error, not a short list,
\* and every finger is asked for in both impressions, whatever the stages are.
Missing == \E slot \in Slot :
  slot.release \in releases /\ slot.subject \in cohort /\ ~Usable(slot)

Shifted(f, shift) == ((f - 1 + shift) % NFingers) + 1

PairOf(left, right, stage) ==
  [left |-> left, right |-> right, stage |-> stage,
   truth |-> IF stage = "non_mated" THEN "non_mated" ELSE "mated"]

ProtocolStages == {"plain_self", "roll_self", "mated", "non_mated"}

PairOfStage(r, s, f, stage, shift) ==
  LET plain == SlotOf(r, s, "plain", f)
      roll  == SlotOf(r, s, "roll", f)
      other == SlotOf(r, s, "roll", Shifted(f, shift))
  IN CASE stage = "plain_self" -> PairOf(plain, plain, stage)
       [] stage = "roll_self"  -> PairOf(roll, roll, stage)
       [] stage = "mated"      -> PairOf(plain, roll, stage)
       [] stage = "non_mated"  -> PairOf(plain, other, stage)

PairsOf(enabled, shift) ==
  {PairOfStage(r, s, f, stage, shift) :
     r \in releases, s \in cohort, f \in Fingers, stage \in enabled}

\* A plan asks for a stage at least.  Its shift may be a multiple of the number of
\* fingers only where it makes no impostor.
Plans ==
  {plan \in [stages : (SUBSET ProtocolStages) \ {{}}, shift : 0..(NFingers + 1)] :
     "non_mated" \in plan.stages => plan.shift % NFingers # 0}

GeneratePairs ==
  /\ protocolAt = "cohort"
  /\ \E plan \in Plans :
       /\ stages' = plan.stages
       /\ IF IndexBreaks \/ Missing
            THEN protocolAt' = "broken" /\ UNCHANGED pairs
            ELSE protocolAt' = "pairs" /\ pairs' = PairsOf(plan.stages, plan.shift)
  /\ UNCHANGED <<protocolInputs, cohort, roster>>

-----------------------------------------------------------------------------
(* The cross-subject pairs.  The id of a generated pair spells its content, *)
(* so an id is a pair of slots here.                                        *)

CrossIds ==
  {<<SlotOf(r, a, "plain", f), SlotOf(r, b, "roll", f)>> :
     r \in releases, a \in cohort, b \in cohort, f \in Fingers}
  \ {<<SlotOf(r, a, "plain", f), SlotOf(r, a, "roll", f)>> :
       r \in releases, a \in cohort, f \in Fingers}

CrossPair(id) == [id |-> id, release |-> id[1].release, left |-> id[1], right |-> id[2]]

Generated == {CrossPair(id) : id \in CrossIds}

GenerateCrossSubjectPairs ==
  /\ protocolAt = "cohort"
  /\ IF IndexBreaks \/ (Missing /\ Cardinality(cohort) > 1)
       THEN protocolAt' = "broken" /\ UNCHANGED roster
       ELSE protocolAt' = "roster" /\ roster' = Generated
  /\ UNCHANGED <<protocolInputs, cohort, stages, pairs>>

\* How far a roster is from the one that was generated.
Alterations == Cardinality(roster \ Generated) + Cardinality(Generated \ roster)

\* A roster that is read back was not always written by this generator: a pair is
\* lost, one too many is there, or one names another image or release.  Bounds:
\* a pair changes once, for one draw by the usual criteria from images without a flaw.
AlterRoster ==
  /\ protocolAt = "roster" /\ flawed = <<>> /\ away = {}
  /\ allTen = Impressions /\ \A s \in Subjects : rank[s] = s
  /\ Alterations * Cardinality(releases) < MaxAlterations
  /\ \E p \in roster \cap Generated :
       \/ roster' \in {roster \ {p}} \cup {roster \cup {[p EXCEPT !.left = s]} : s \in Slot}
       \/ /\ roster = Generated
          /\ \E q \in {[p EXCEPT !.right = s] : s \in Slot}
                       \cup {CrossPair(<<s, p.right>>) : s \in Slot}
                       \cup {CrossPair(<<p.left, s>>) : s \in Slot}
                       \cup {[p EXCEPT !.release = r] : r \in DatasetReleases} :
               roster' = (roster \ {p}) \cup {q}
  /\ UNCHANGED <<protocolAt, protocolInputs, cohort, stages, pairs>>

Appearances(side, r, s) ==
  Cardinality({p \in roster : p.release = r /\ p[side].subject = s})

\* Nobody looks which finger is compared with which.
BugWellFormed(p) ==
  /\ p.left.subject # p.right.subject
  /\ p.left.release = p.right.release /\ p.release = p.left.release
  /\ p.left.impression = "plain" /\ p.right.impression = "roll"
  /\ {p.left.subject, p.right.subject} \subseteq cohort
  /\ p.left.release \in releases

WellFormed(p) ==
  /\ p.left.subject # p.right.subject
  /\ p.left.finger = p.right.finger
  /\ p.left.release = p.right.release /\ p.release = p.left.release
  /\ p.left.impression = "plain" /\ p.right.impression = "roll"
  /\ {p.left.subject, p.right.subject} \subseteq cohort
  /\ p.left.release \in releases

\* CrossSubjectPairAudit.clean: counts, shapes, ids and appearances.
AuditIsClean ==
  LET n == Cardinality(cohort)
      InRelease(r) == {p \in roster : p.release = r}
  IN /\ Cardinality(roster) = n * (n - 1) * NFingers * Cardinality(releases)
     /\ \A r \in releases : Cardinality(InRelease(r)) = n * (n - 1) * NFingers
     /\ \A r \in releases, f \in Fingers :
          Cardinality({p \in InRelease(r) : p.left.finger = f}) = n * (n - 1)
     /\ \A p, q \in roster : p.id = q.id => p = q
     /\ \A p \in roster : WellFormed(p)
     /\ \A r \in releases, s \in cohort :
          /\ Appearances("left", r, s) = (n - 1) * NFingers
          /\ Appearances("right", r, s) = (n - 1) * NFingers

-----------------------------------------------------------------------------
ProtocolNext ==
  \/ Deliver \/ SelectCohort \/ GeneratePairs \/ GenerateCrossSubjectPairs \/ AlterRoster

ProtocolSpec == ProtocolInit /\ [][ProtocolNext]_protocolVars

-----------------------------------------------------------------------------
(* Properties.                                                              *)

\* The cohort rule asks the subject records and the pairs ask the image index, and
\* they differ over nothing that the criteria ask for: a cohort is refused by the
\* pair generators only over two images of one slot, which the records cannot see,
\* or over an image of an impression that the criteria left out.
CohortIsPairable ==
  protocolAt = "broken" =>
    \/ IndexBreaks
    \/ \E slot \in Slot : /\ slot.release \in releases /\ slot.subject \in cohort
                          /\ slot.impression \notin allTen /\ ~Usable(slot)

\* Of the same-subject impostors: no finger meets itself, every plain image and
\* every rolled image is used once and so weighs the same, and a mated pair is
\* never among them.  There are all of them, or none if the plan has none.
ImpostorsAreBalanced ==
  LET nonMated == {p \in pairs : p.truth = "non_mated"} IN
    /\ \A p \in nonMated :
         /\ p.left.subject = p.right.subject /\ p.left.release = p.right.release
         /\ p.left.finger # p.right.finger
    /\ \A p, q \in nonMated : (p.left = q.left \/ p.right = q.right) => p = q
    /\ protocolAt = "pairs" =>
         Cardinality(nonMated) =
           IF "non_mated" \in stages
             THEN Cardinality(releases) * CohortSize * NFingers ELSE 0

\* A roster passes the audit exactly if it is the whole cross product and nothing
\* else, as long as its ids say what its pairs are; the audit does not look into
\* an id, and counts alone would let one pair stand in for another.
AuditMeansExhaustive ==
  protocolAt = "roster" /\ (\A p \in roster : p.id = <<p.left, p.right>>)
    => (AuditIsClean <=> roster = Generated)

ProtocolTypeOK ==
  /\ protocolAt \in {"inputs", "images", "cohort", "pairs", "roster", "refused", "broken"}
  /\ releases \subseteq DatasetReleases /\ allTen \subseteq Impressions
  /\ DOMAIN flawed \subseteq Slot /\ stages \subseteq ProtocolStages
  /\ cohort \subseteq Subjects
  /\ protocolAt \in {"cohort", "pairs", "roster"} => Cardinality(cohort) = CohortSize
  /\ \A p \in pairs : p.left \in Slot /\ p.right \in Slot
  /\ \A p \in roster : p.left \in Slot /\ p.right \in Slot
=============================================================================
