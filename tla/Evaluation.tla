------------------------------ MODULE Evaluation ------------------------------
(* From the stored results of a finished run to its rates: one decision per  *)
(* comparison (decisions/apply.py), the SELF eligibility of every finger     *)
(* (eligibility/), the views (evaluation/views.py), the counts by release    *)
(* (metrics/aggregate.py) and the fractions of the metric policy             *)
(* (metrics/denominators.py, metrics/observations.py).  Every layer reads    *)
(* the layer below and the pair manifest, checks what it was given, and      *)
(* refuses rather than repairs.                                              *)
(*                                                                           *)
(* A finger stands for a subject and one of its fingers; a score is known by *)
(* where it lies of the profile's threshold.                                 *)
EXTENDS Integers, FiniteSets, FiniteSetsExt

CONSTANTS
  EvReleases,   \* releases of the run
  NEvFingers,   \* fingers of each release
  MaxOddities   \* bound: results unlike the rest; an altered pair counts as two

ASSUME EvaluationAssumption ==
  /\ IsFiniteSet(EvReleases) /\ EvReleases # {}
  /\ NEvFingers \in Nat /\ NEvFingers > 1 /\ MaxOddities \in Nat

EvFingers == 1..NEvFingers
Keys == [release : EvReleases, finger : EvFingers]
Images == [release : EvReleases, finger : EvFingers, impression : {"plain", "roll"}]
Stages == {"plain_self", "roll_self", "mated", "non_mated"}
\* A comparison is named for what the protocol makes of it; its pair in the
\* manifest says what it is.
Comparisons == [release : EvReleases, finger : EvFingers, stage : Stages]
Comparators == {">=", ">", "<=", "<"}
Scores == {"below", "at", "above"}

ImageOf(r, f, i) == [release |-> r, finger |-> f, impression |-> i]
KeyOf(image) == [release |-> image.release, finger |-> image.finger]

VARIABLES
  evAt,       \* "inputs", "ran", "decided", "mapped", "viewed", "counted", "refused"
  manifest,   \* the pair of every comparison
  indexed,    \* results as the result set records them
  stored,     \* results as they are stored now
  direction,  \* of the algorithm's scores
  comparator, \* of the decision profile
  decisions,
  units,      \* for each finger its three comparisons and its status
  selected,   \* for each mated comparison what the conditional view says
  counts      \* for each family and release its outcome counts

evInputs == <<manifest, indexed, direction, comparator>>
evVars == <<evAt, evInputs, stored, decisions, units, selected, counts>>

ProtocolPair(c) ==
  LET plain == ImageOf(c.release, c.finger, "plain")
      roll  == ImageOf(c.release, c.finger, "roll")
      other == ImageOf(c.release, (c.finger % NEvFingers) + 1, "roll")
  IN [release |-> c.release, stage |-> c.stage,
      truth |-> IF c.stage = "non_mated" THEN "non_mated" ELSE "mated",
      left |-> IF c.stage = "roll_self" THEN roll ELSE plain,
      right |-> CASE c.stage = "plain_self" -> plain
                  [] c.stage = "non_mated" -> other
                  [] OTHER -> roll]

ProtocolManifest == [c \in Comparisons |-> ProtocolPair(c)]

\* What a good algorithm does: mated comparisons score on the side that matches.
Expected(c, dir) ==
  IF (c.stage = "non_mated") = (dir = "higher") THEN "below" ELSE "above"

EvInit ==
  /\ evAt = "inputs" /\ manifest = ProtocolManifest
  /\ indexed = <<>> /\ stored = <<>>
  /\ direction = "higher" /\ comparator = ">="
  /\ decisions = <<>> /\ units = <<>> /\ selected = <<>> /\ counts = <<>>

\* A manifest in which one pair is not the protocol's.
Altered(c) ==
  {[ProtocolPair(c) EXCEPT !.left = i] : i \in Images}
  \cup {[ProtocolPair(c) EXCEPT !.right = i] : i \in Images}
  \cup {[ProtocolPair(c) EXCEPT !.stage = s] : s \in Stages}
  \cup {[ProtocolPair(c) EXCEPT !.release = r] : r \in EvReleases}
  \cup {[ProtocolPair(c) EXCEPT !.truth = t] : t \in {"mated", "non_mated"}}

DeliverRun ==
  /\ evAt = "inputs" /\ evAt' = "ran"
  /\ direction' \in {"higher", "lower"} /\ comparator' \in Comparators
  /\ \/ /\ UNCHANGED manifest
        /\ \E n \in 0..MaxOddities : \E odd \in [1..n -> Comparisons] :
           \E as \in [1..n -> Scores \cup {"failed"}] :
             indexed' = [c \in Comparisons |->
               IF \E i \in 1..n : odd[i] = c
                 THEN as[CHOOSE i \in 1..n : odd[i] = c] ELSE Expected(c, direction')]
     \/ /\ MaxOddities > 1
        /\ \E c \in Comparisons : \E p \in Altered(c) :
             manifest' = [ProtocolManifest EXCEPT ![c] = p]
        /\ indexed' = [c \in Comparisons |-> Expected(c, direction')]
  /\ stored' = indexed'
  /\ UNCHANGED <<decisions, units, selected, counts>>

\* A stored result changes after the result set was indexed.  It is an oddity.
ResultChanges ==
  /\ evAt = "ran" /\ stored = indexed /\ manifest = ProtocolManifest
  /\ Cardinality({c \in Comparisons : indexed[c] # Expected(c, direction)}) < MaxOddities
  /\ \E c \in Comparisons, s \in Scores : stored' = [stored EXCEPT ![c] = s]
  /\ UNCHANGED <<evAt, evInputs, decisions, units, selected, counts>>

Refuse == evAt' = "refused" /\ UNCHANGED <<decisions, units, selected, counts>>

-----------------------------------------------------------------------------
(* Decisions.                                                               *)

Accepted(score) ==
  CASE comparator = ">=" -> score \in {"at", "above"}
    [] comparator = ">"  -> score = "above"
    [] comparator = "<=" -> score \in {"at", "below"}
    [] comparator = "<"  -> score = "below"

ProfileApplies == (direction = "higher") <=> (comparator \in {">=", ">"})

\* No score, no decision.
Decision(score) ==
  IF score = "failed" THEN "undecidable" ELSE IF Accepted(score) THEN "match" ELSE "non_match"

\* apply_decision_profile: every result is read and hashed again.
ApplyProfile ==
  /\ evAt = "ran"
  /\ IF ~ProfileApplies \/ stored # indexed
       THEN Refuse
       ELSE /\ evAt' = "decided"
            /\ decisions' = [c \in Comparisons |-> Decision(stored[c])]
            /\ UNCHANGED <<units, selected, counts>>
  /\ UNCHANGED <<evInputs, stored>>

-----------------------------------------------------------------------------
(* Eligibility.                                                             *)

StageOf(c) == manifest[c].stage
OfStage(s) == {c \in Comparisons : StageOf(c) = s}

SelfIsSound(p, impression) ==
  p.left = p.right /\ p.left.impression = impression /\ p.left.release = p.release

MatedIsSound(p) ==
  /\ p.truth = "mated"
  /\ p.left.impression = "plain" /\ p.right.impression = "roll"
  /\ p.left.release = p.right.release /\ p.left.release = p.release
  /\ p.left.finger = p.right.finger

Governed == {"plain_self", "roll_self", "mated"}
Governing(key, s) == {c \in OfStage(s) : KeyOf(manifest[c].left) = key}
GovernedKeys == {KeyOf(manifest[c].left) : c \in UNION {OfStage(s) : s \in Governed}}

\* One comparison of each kind for every finger that has any.
MappingIsSound ==
  /\ \A c \in OfStage("plain_self") : SelfIsSound(manifest[c], "plain")
  /\ \A c \in OfStage("roll_self") : SelfIsSound(manifest[c], "roll")
  /\ \A c \in OfStage("mated") : MatedIsSound(manifest[c])
  /\ GovernedKeys # {}
  /\ \A key \in GovernedKeys, s \in Governed : Cardinality(Governing(key, s)) = 1

\* What is not known to match did not match.
BugStatusOf(plain, roll) ==
  IF plain = "match" /\ roll = "match" THEN "eligible" ELSE "ineligible"

\* A non-match is knowledge and decides alone; an undecidable is none.
StatusOf(plain, roll) ==
  IF "non_match" \in {plain, roll} THEN "ineligible"
  ELSE IF "undecidable" \in {plain, roll} THEN "undetermined" ELSE "eligible"

DeriveEligibility ==
  /\ evAt = "decided"
  /\ IF ~MappingIsSound
       THEN Refuse
       ELSE /\ evAt' = "mapped"
            /\ units' = [key \in GovernedKeys |->
                 LET The(s) == CHOOSE c \in Governing(key, s) : TRUE IN
                 [plain_self |-> The("plain_self"), roll_self |-> The("roll_self"),
                  mated |-> The("mated"),
                  status |-> StatusOf(decisions[The("plain_self")], decisions[The("roll_self")])]]
            /\ UNCHANGED <<decisions, selected, counts>>
  /\ UNCHANGED <<evInputs, stored>>

-----------------------------------------------------------------------------
(* The views.  The unconditional and the sanity view hold all comparisons of *)
(* their stage; the conditional one keeps the rows it excludes.              *)

UnitOf(c) == {key \in DOMAIN units : units[key].mated = c}

Select(status) == IF status = "eligible" THEN "included" ELSE status

BuildViews ==
  /\ evAt = "mapped"
  /\ IF \/ OfStage("mated") = {} \/ OfStage("non_mated") = {}
        \/ \E c \in OfStage("mated") : UnitOf(c) = {}
       THEN Refuse
       ELSE /\ evAt' = "viewed"
            /\ selected' = [c \in OfStage("mated") |->
                              Select(units[CHOOSE key \in UnitOf(c) : TRUE].status)]
            /\ UNCHANGED <<decisions, units, counts>>
  /\ UNCHANGED <<evInputs, stored>>

-----------------------------------------------------------------------------
(* Counts and rates.                                                        *)

Families == Stages \cup {"eligibility", "conditional"}
Outcomes == {"match", "non_match", "undecidable"}
Statuses == {"eligible", "ineligible", "undetermined"}

DecidedAs(s, r, outcome) ==
  Cardinality({c \in OfStage(s) : manifest[c].release = r /\ decisions[c] = outcome})

InView(r, how) == {c \in DOMAIN selected : manifest[c].release = r /\ selected[c] = how}

Tally(family, r) ==
  CASE family \in Stages -> [o \in Outcomes |-> DecidedAs(family, r, o)]
    [] family = "eligibility" ->
         [s \in Statuses |->
            Cardinality({key \in DOMAIN units : key.release = r /\ units[key].status = s})]
    [] family = "conditional" ->
         [o \in Outcomes \cup {"ineligible", "undetermined"} |->
            Cardinality(IF o \in Outcomes
                          THEN {c \in InView(r, "included") : decisions[c] = o}
                          ELSE InView(r, o))]

\* The SELF decisions and the units account for each other.
SelfAgrees ==
  \A s \in {"plain_self", "roll_self"} : OfStage(s) = {units[key][s] : key \in DOMAIN units}

CoversReleases ==
  \A c \in Comparisons : manifest[c].release \in {key.release : key \in DOMAIN units}

Aggregate ==
  /\ evAt = "viewed"
  /\ IF ~SelfAgrees \/ ~CoversReleases
       THEN Refuse
       ELSE /\ evAt' = "counted"
            /\ counts' = [family \in Families |-> [r \in EvReleases |-> Tally(family, r)]]
            /\ UNCHANGED <<decisions, units, selected>>
  /\ UNCHANGED <<evInputs, stored>>

\* A pooled count is the sum of the releases' counts: a scope is a set of them.
Scopes == {{r} : r \in EvReleases} \cup {EvReleases}

Counted(family, scope, outcomes) ==
  SumFunction([ro \in scope \X outcomes |-> counts[family][ro[1]][ro[2]]])

\* The metric policy: a family, what is counted and what it is a part of.
Metric(family, numerator, denominator) ==
  [family |-> family, numerator |-> numerator, denominator |-> denominator]

Metrics ==
  {Metric(f, {"match"}, d) : f \in {"plain_self", "roll_self", "non_mated"},
                             d \in {"decided", "attempts"}}
  \cup {Metric("eligibility", {s}, "attempts") : s \in Statuses}
  \cup {Metric(f, {"non_match"}, "decided") : f \in {"mated", "conditional"}}
  \cup {Metric(f, {"non_match", "undecidable"}, "attempts") : f \in {"mated", "conditional"}}
  \cup {Metric("conditional", Outcomes, "rows")}

Denominator(metric) ==
  CASE metric.denominator = "decided"        -> {"match", "non_match"}
    [] metric.family = "eligibility"         -> Statuses
    [] metric.denominator = "attempts"
         /\ metric.family # "eligibility"    -> Outcomes
    [] metric.denominator = "rows"           -> Outcomes \cup {"ineligible", "undetermined"}

\* A rate over nothing is no rate.
Observation(metric, scope) ==
  LET below == Counted(metric.family, scope, Denominator(metric)) IN
  IF below = 0 THEN "undefined"
  ELSE <<Counted(metric.family, scope, metric.numerator), below>>

-----------------------------------------------------------------------------
(* The same selection by protocols/self_filtering.py, which is told which    *)
(* SELF comparisons failed.                                                  *)

FailedFingers(failed) ==
  {KeyOf(manifest[c].left) :
     c \in {d \in failed : StageOf(d) \in {"plain_self", "roll_self"}}}

SelfEligiblePairs(failed, stages) ==
  {c \in Comparisons :
     /\ StageOf(c) \in stages
     /\ {KeyOf(manifest[c].left), KeyOf(manifest[c].right)} \cap FailedFingers(failed) = {}}

-----------------------------------------------------------------------------
EvNext ==
  \/ DeliverRun \/ ResultChanges \/ ApplyProfile \/ DeriveEligibility \/ BuildViews \/ Aggregate

EvSpec == EvInit /\ [][EvNext]_evVars

-----------------------------------------------------------------------------
(* Properties.                                                              *)

\* A unit joins three comparisons of one finger, and the units are a partition
\* of the mated comparisons: from whatever manifest they were built.
UnitsAreWhole ==
  /\ \A key \in DOMAIN units :
       /\ manifest[units[key].plain_self].right = ImageOf(key.release, key.finger, "plain")
       /\ manifest[units[key].roll_self].left = ImageOf(key.release, key.finger, "roll")
       /\ manifest[units[key].mated].left = ImageOf(key.release, key.finger, "plain")
       /\ manifest[units[key].mated].right = ImageOf(key.release, key.finger, "roll")
  /\ units # <<>> => \A c \in OfStage("mated") : Cardinality(UnitOf(c)) = 1

\* The comparisons a metric is about, read off the scores that were indexed and
\* off nothing that was derived from them.
Passed(c) == indexed[c] # "failed" /\ Accepted(indexed[c])
Unscored(c) == indexed[c] = "failed"
SelfOf(c) == {d \in OfStage("plain_self") \cup OfStage("roll_self") :
                KeyOf(manifest[d].left) = KeyOf(manifest[c].left)}

Kind(c) == IF Unscored(c) THEN "undecidable" ELSE IF Passed(c) THEN "match" ELSE "non_match"
Condition(c) ==
  IF \E d \in SelfOf(c) : ~Unscored(d) /\ ~Passed(d) THEN "ineligible"
  ELSE IF \E d \in SelfOf(c) : Unscored(d) THEN "undetermined" ELSE "eligible"

Population(family, scope) ==
  LET in == {c \in Comparisons : manifest[c].release \in scope} IN
  CASE family = "conditional" -> {<<c, IF Condition(c) = "eligible" THEN Kind(c) ELSE Condition(c)>>
                                    : c \in in \cap OfStage("mated")}
    [] family = "eligibility" -> {<<c, Condition(c)>> : c \in in \cap OfStage("mated")}
    [] OTHER                  -> {<<c, Kind(c)>> : c \in in \cap OfStage(family)}

\* Every published fraction is the share of the comparisons its name says: a
\* failure is in no decided denominator and no finger is disqualified by one, an
\* excluded row is in no conditional outcome, an impostor is never conditioned,
\* and pooled means counted once over all releases.
NumbersAreWhatTheySay ==
  evAt = "counted" => \A metric \in Metrics, scope \in Scopes :
    LET rows == {p \in Population(metric.family, scope) : p[2] \in Denominator(metric)}
        hits == {p \in rows : p[2] \in metric.numerator}
    IN Observation(metric, scope) =
         IF rows = {} THEN "undefined" ELSE <<Cardinality(hits), Cardinality(rows)>>

\* Two modules select the comparisons whose finger survived both SELF stages; if
\* what did not match counts as failed they select the same ones, and of the
\* impostors only those of two such fingers.
FiltersAgree ==
  evAt \in {"viewed", "counted"} =>
    LET failed == {c \in Comparisons : decisions[c] # "match"} IN
    /\ SelfEligiblePairs(failed, {"mated"}) = {c \in DOMAIN selected : selected[c] = "included"}
    /\ \A c \in SelfEligiblePairs(failed, {"non_mated"}) :
         \A image \in {manifest[c].left, manifest[c].right} :
           KeyOf(image) \in DOMAIN units => units[KeyOf(image)].status = "eligible"

EvTypeOK ==
  /\ evAt \in {"inputs", "ran", "decided", "mapped", "viewed", "counted", "refused"}
  /\ \A c \in DOMAIN indexed : indexed[c] \in Scores \cup {"failed"}
  /\ DOMAIN stored = DOMAIN indexed
  /\ DOMAIN units \subseteq Keys
  /\ \A key \in DOMAIN units : units[key].status \in Statuses
  /\ \A c \in DOMAIN decisions : decisions[c] \in Outcomes
  /\ evAt = "counted" => \A f \in Families, r \in EvReleases :
       \A o \in DOMAIN counts[f][r] : counts[f][r][o] \in 0..Cardinality(Comparisons)
=============================================================================
