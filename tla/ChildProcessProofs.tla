---------------------------- MODULE ChildProcessProofs ----------------------------
(* Theorems about the three parts that hold a child process: FlxWorker and    *)
(* BridgeWorker, for any number of comparisons and faults, and ProcessTree,   *)
(* for any number of processes and any failures of the operating system.      *)
EXTENDS FlxWorker, BridgeWorker, ProcessTree, FiniteSetTheorems, SequenceTheorems, TLAPS

-----------------------------------------------------------------------------
(* The FLX worker, its session and its adapter.                               *)

Line == [kind : {"ok", "refused"}, of : Requests] \cup {Stray, EndOfOutput}

IsAnswer(line) == line.kind \in {"ok", "refused"}

Operations == {"validate_runtime", "load_runtime", "preprocess", "extract", "compare"}

\* Counted from its end, a script is that of the call.
Rests(n, whole) == {s \in Seq(Operations) :
  /\ Len(s) \in 1..n
  /\ \A i \in 1..Len(s) :
       Len(s) - i < Len(whole) => s[i] = whole[Len(whole) - (Len(s) - i)]}

ComparisonRests == Rests(7, Comparison)
ValidationRests == Rests(4, Reporting)

Shapes ==
  /\ inbox \in Seq(Requests) /\ responses \in Seq(Line)
  /\ evidence \in [1..NComparisons -> Seq(Requests)]
  /\ flxOutcome \in [1..NComparisons -> {"none", "score", "failed", "timeout", "crashed"}]

\* A call asks for the rest of its script; the runtime is loaded once what is
\* left is the call's own part of it.
InScript ==
  flxAt \in {"ask", "wait"} =>
    /\ flxJob \in 0..NComparisons
    /\ script \in IF flxJob = 0 THEN ValidationRests ELSE ComparisonRests
    /\ loaded <=> Len(script) <= Len(Goal)
    /\ session # 0

\* A call starts one worker at most.
OncePerCall ==
  /\ session <= flxJob + (IF flxAt = "call" THEN 0 ELSE 1)
  /\ loaded => session # 0

\* Nobody starts a worker beside a living one.
SoleWorker ==
  /\ alive \subseteq {session}
  /\ flxAt = "call" /\ ~loaded => alive = {}
  /\ flxAt = "over" => alive = {}

\* A living worker and its parent keep step.  While the parent waits, what is
\* under way is its request or the one answer to it; otherwise nothing is.
KeepStep ==
  /\ inbox # <<>> => flxAt = "wait" /\ inbox = <<Request>>
  /\ \A i \in DOMAIN responses : IsAnswer(responses[i]) =>
       /\ Running => flxAt = "wait"
       /\ flxAt = "wait" =>
            /\ inbox = <<>> /\ responses[i].of = Request
            /\ \A k \in DOMAIN responses : IsAnswer(responses[k]) => k = i

Own(s, j, i) == [worker |-> s, job |-> j, left |-> 6 - i, op |-> Comparison[i]]

\* What a comparison has used so far are the answers to what it has asked for.
EvidenceGrows ==
  /\ \A j \in 1..NComparisons :
       j > flxJob \/ (j = flxJob /\ flxAt = "call") => evidence[j] = <<>>
  /\ flxAt \in {"ask", "wait"} /\ flxJob > 0 /\ ~loaded => evidence[flxJob] = <<>>
  /\ flxAt \in {"ask", "wait"} /\ flxJob > 0 /\ loaded =>
       /\ Len(evidence[flxJob]) = 5 - Len(script)
       /\ \A i \in 1..(5 - Len(script)) : evidence[flxJob][i] = Own(session, flxJob, i)
  /\ \A j \in 1..NComparisons : j >= flxJob => flxOutcome[j] = "none"

FlxInv ==
  /\ FlxTypeOK /\ Shapes /\ InScript /\ OncePerCall /\ SoleWorker /\ KeepStep
  /\ EvidenceGrows /\ ScoreIsItsOwn

-----------------------------------------------------------------------------
LEMMA Lengths ==
  /\ Comparison \in Seq(Operations) /\ Len(Comparison) = 5
  /\ Reporting \in Seq(Operations) /\ Len(Reporting) = 2
  /\ Loading \in Seq(Operations) /\ Len(Loading) = 2
  BY DEF Comparison, Reporting, Loading, Operations

LEMMA ScriptRests ==
  ASSUME NEW n \in Nat, NEW whole \in Seq(Operations), NEW s \in Rests(n, whole)
  PROVE  /\ Len(s) \in 1..n /\ Head(s) \in Operations /\ Head(s) = s[1]
         /\ Len(Tail(s)) = Len(s) - 1
         /\ Tail(s) = <<>> <=> Len(s) = 1
         /\ Tail(s) # <<>> => Tail(s) \in Rests(n, whole)
         /\ Len(s) <= Len(whole) => Head(s) = whole[Len(whole) + 1 - Len(s)]
<1>1. s \in Seq(Operations) /\ Len(s) \in 1..n /\ s # <<>>
  BY DEF Rests
<1>2. /\ Head(s) = s[1] /\ s[1] \in Operations
      /\ Tail(s) \in Seq(Operations) /\ Len(Tail(s)) = Len(s) - 1
      /\ \A i \in 1..Len(Tail(s)) : Tail(s)[i] = s[i + 1]
  BY <1>1
<1>3. Tail(s) = <<>> <=> Len(s) = 1
  <2>1. Tail(s) = <<>> <=> Len(Tail(s)) = 0
    BY <1>2, EmptySeq, Zenon
  <2>2. Len(s) \in Nat
    BY <1>1
  <2> QED BY <1>2, <2>1, <2>2
<1>4. ASSUME Tail(s) # <<>> PROVE Tail(s) \in Rests(n, whole)
  <2>1. Len(Tail(s)) \in 1..n
    BY <1>1, <1>2, <1>3, <1>4
  <2>2. ASSUME NEW i \in 1..Len(Tail(s)), Len(Tail(s)) - i < Len(whole)
        PROVE  Tail(s)[i] = whole[Len(whole) - (Len(Tail(s)) - i)]
    <3>1. i + 1 \in 1..Len(s) /\ Len(s) - (i + 1) = Len(Tail(s)) - i
      BY <1>1, <1>2
    <3> QED BY <1>2, <2>2, <3>1 DEF Rests
  <2> QED BY <1>2, <2>1, <2>2 DEF Rests
<1>5. ASSUME Len(s) <= Len(whole) PROVE s[1] = whole[Len(whole) + 1 - Len(s)]
  <2>1. 1 \in 1..Len(s) /\ Len(s) - 1 < Len(whole)
    BY <1>1, <1>5
  <2>2. Len(whole) - (Len(s) - 1) = Len(whole) + 1 - Len(s)
    BY <1>1
  <2> QED BY <2>1, <2>2 DEF Rests
<1> QED BY <1>1, <1>2, <1>3, <1>4, <1>5

LEMMA WholeScript ==
  ASSUME NEW n \in Nat, NEW whole \in Seq(Operations),
         1 <= Len(whole), Len(whole) + 2 <= n
  PROVE  /\ whole \in Rests(n, whole) /\ Loading \o whole \in Rests(n, whole)
         /\ Len(Loading \o whole) = Len(whole) + 2
<1>1. whole \in Rests(n, whole)
  BY DEF Rests
<1>2. /\ Loading \o whole \in Seq(Operations) /\ Len(Loading \o whole) = Len(whole) + 2
      /\ \A i \in 1..(Len(whole) + 2) : i > 2 => (Loading \o whole)[i] = whole[i - 2]
  <2>1. /\ Loading \in Seq(Operations) /\ Len(Loading) = 2 /\ Len(whole) \in Nat
    BY Lengths
  <2>2. /\ Loading \o whole \in Seq(Operations)
        /\ Len(Loading \o whole) = Len(Loading) + Len(whole)
        /\ \A i \in 1 .. Len(Loading) + Len(whole) : (Loading \o whole)[i] =
             IF i <= Len(Loading) THEN Loading[i] ELSE whole[i - Len(Loading)]
    BY <2>1, ConcatProperties, Zenon
  <2> QED BY <2>1, <2>2
<1>4. ASSUME NEW i \in 1..(Len(whole) + 2), Len(whole) + 2 - i < Len(whole)
      PROVE  (Loading \o whole)[i] = whole[Len(whole) - (Len(whole) + 2 - i)]
  <2>1. i > 2 /\ Len(whole) - (Len(whole) + 2 - i) = i - 2
    BY <1>4
  <2> QED BY <1>2, <2>1
<1>5. Len(Loading \o whole) \in 1..n
  BY <1>2
<1>6. \A i \in 1..Len(Loading \o whole) : Len(Loading \o whole) - i < Len(whole) =>
        (Loading \o whole)[i] = whole[Len(whole) - (Len(Loading \o whole) - i)]
  BY <1>2, <1>4
<1>7. Loading \o whole \in Rests(n, whole)
  BY <1>2, <1>5, <1>6 DEF Rests
<1> QED BY <1>1, <1>2, <1>7

LEMMA Scripts ==
  /\ Comparison \in ComparisonRests /\ Loading \o Comparison \in ComparisonRests
  /\ Reporting \in ValidationRests /\ Loading \o Reporting \in ValidationRests
  /\ Len(Loading \o Comparison) = 7 /\ Len(Loading \o Reporting) = 4
<1>1. 7 \in Nat /\ 1 <= Len(Comparison) /\ Len(Comparison) + 2 = 7 /\ Len(Comparison) + 2 <= 7
  BY Lengths
<1>2. 4 \in Nat /\ 1 <= Len(Reporting) /\ Len(Reporting) + 2 = 4 /\ Len(Reporting) + 2 <= 4
  BY Lengths
<1>3. /\ Comparison \in Rests(7, Comparison) /\ Loading \o Comparison \in Rests(7, Comparison)
      /\ Len(Loading \o Comparison) = Len(Comparison) + 2
  BY <1>1, Lengths, WholeScript
<1>4. /\ Reporting \in Rests(4, Reporting) /\ Loading \o Reporting \in Rests(4, Reporting)
      /\ Len(Loading \o Reporting) = Len(Reporting) + 2
  BY <1>2, Lengths, WholeScript
<1> QED BY <1>1, <1>2, <1>3, <1>4 DEF ComparisonRests, ValidationRests

\* What is left of a script, and what it asks for next.
LEMMA RestOf ==
  ASSUME NEW s \in ComparisonRests \cup ValidationRests
  PROVE  /\ Len(s) \in 1..7 /\ Head(s) \in Operations
         /\ Len(Tail(s)) = Len(s) - 1
         /\ Tail(s) = <<>> <=> Len(s) = 1
<1>1. CASE s \in ComparisonRests
  <2>1. 7 \in Nat /\ s \in Rests(7, Comparison)
    BY <1>1 DEF ComparisonRests
  <2> QED BY <2>1, Lengths, ScriptRests
<1>2. CASE s \in ValidationRests
  <2>1. 4 \in Nat /\ s \in Rests(4, Reporting) /\ 1..4 \subseteq 1..7
    BY <1>2 DEF ValidationRests
  <2>2. Len(s) \in 1..4
    BY <2>1, Lengths, ScriptRests
  <2> QED BY <2>1, <2>2, Lengths, ScriptRests
<1> QED BY <1>1, <1>2

LEMMA Lines ==
  /\ \A l \in Line : IsAnswer(l) => l.of \in Requests
  /\ \A r \in Requests, ok \in BOOLEAN :
       Answer(r, ok) \in Line /\ IsAnswer(Answer(r, ok)) /\ Answer(r, ok).of = r
  /\ Stray \in Line /\ EndOfOutput \in Line /\ ~IsAnswer(Stray) /\ ~IsAnswer(EndOfOutput)
  BY DEF Line, IsAnswer, Answer, Stray, EndOfOutput

\* The request of the moment, between the beginning of a call and its end.
LEMMA OnCall ==
  ASSUME FlxInv, flxAt \in {"ask", "wait"}
  PROVE  /\ flxJob \in 0..NComparisons /\ session \in 1..(NComparisons + 1)
         /\ Len(script) \in 1..7 /\ Head(script) \in Operations
         /\ Len(Tail(script)) = Len(script) - 1
         /\ Tail(script) = <<>> <=> Len(script) = 1
         /\ Request \in Requests
<1> USE FlxAssumption DEF FlxInv
<1>1. flxJob \in 0..NComparisons /\ session \in 1..(NComparisons + 1)
  BY DEF InScript, FlxTypeOK
<1>2. /\ Len(script) \in 1..7 /\ Head(script) \in Operations
      /\ Len(Tail(script)) = Len(script) - 1
      /\ Tail(script) = <<>> <=> Len(script) = 1
  <2>1. script \in ComparisonRests \cup ValidationRests
    BY DEF InScript
  <2> QED BY <2>1, RestOf
<1>3. Request \in Requests
  BY <1>1, <1>2 DEF Request, Requests, Operations
<1> QED BY <1>1, <1>2, <1>3

\* The type invariant follows from the other parts and from the ranges of the
\* variables.
LEMMA Typed ==
  ASSUME flxAt' \in {"call", "ask", "wait", "closing", "over"},
         flxJob' \in 0..(NComparisons + 1), loaded' \in BOOLEAN, Len(script') <= 7,
         session' \in 0..(NComparisons + 1), alive' \subseteq 1..session',
         Shapes', KeepStep', \A j \in 1..NComparisons : Len(evidence'[j]) <= 5,
         troubled' \in BOOLEAN, flxFaults' \in 0..FlxMaxFaults
  PROVE  FlxTypeOK'
<1>1. Len(inbox') <= 1 /\ \A i \in DOMAIN inbox' : inbox'[i] \in Requests
  <2>1. inbox' \in Seq(Requests) /\ (inbox' = <<>> \/ inbox' = <<Request'>>)
    BY DEF Shapes, KeepStep
  <2>4. \A i \in DOMAIN inbox' : inbox'[i] \in Requests
    BY <2>1
  <2>2. CASE inbox' = <<>>
    BY <2>2
  <2>3. CASE inbox' = <<Request'>>
    <3>1. Len(inbox') = 1
      BY <2>3
    <3> QED BY <2>4, <3>1
  <2> QED BY <2>1, <2>2, <2>3
<1>2. \A i \in DOMAIN responses' :
        responses'[i].kind \in {"ok", "refused"} => responses'[i].of \in Requests
  BY Lines DEF Shapes, IsAnswer
<1>3. \A j \in 1..NComparisons :
        flxOutcome'[j] \in {"none", "score", "failed", "timeout", "crashed"}
  BY DEF Shapes
<1> QED BY <1>1, <1>2, <1>3 DEF FlxTypeOK

\* A score that is stored stays as it is explained.
LEMMA ScoresKept ==
  ASSUME ScoreIsItsOwn, session \in Nat, session' \in Nat, session <= session',
         \A j \in 1..NComparisons : flxOutcome'[j] = "score" =>
           flxOutcome[j] = "score" /\ evidence'[j] = evidence[j]
  PROVE  ScoreIsItsOwn'
<1> SUFFICES ASSUME NEW j \in 1..NComparisons, flxOutcome'[j] = "score"
             PROVE  \E s \in 1..session' : evidence'[j] = [i \in 1..5 |-> Own(s, j, i)]
  BY DEF ScoreIsItsOwn, Own
<1>1. PICK s \in 1..session : evidence[j] = [i \in 1..5 |-> Own(s, j, i)]
  BY DEF ScoreIsItsOwn, Own
<1>2. s \in 1..session'
  OBVIOUS
<1> QED BY <1>1, <1>2

LEMMA FlxInitInv == FlxInit => FlxInv
<1> SUFFICES ASSUME FlxInit PROVE FlxInv
  OBVIOUS
<1> USE FlxAssumption DEF FlxInit
<1>1. Shapes
  <2>1. <<>> \in Seq(Requests) /\ <<>> \in Seq(Line)
    OBVIOUS
  <2>2. evidence \in [1..NComparisons -> Seq(Requests)]
    BY <2>1
  <2>3. flxOutcome \in [1..NComparisons -> {"none", "score", "failed", "timeout", "crashed"}]
    OBVIOUS
  <2> QED BY <2>1, <2>2, <2>3 DEF Shapes
<1>2. KeepStep
  BY DEF KeepStep
<1>3. FlxTypeOK
  <2>1. \A j \in 1..NComparisons : Len(evidence[j]) <= 5 /\ flxOutcome[j] = "none"
    OBVIOUS
  <2>2. loaded \in BOOLEAN /\ troubled \in BOOLEAN
    OBVIOUS
  <2>3. /\ flxJob \in 0..(NComparisons + 1) /\ session \in 0..(NComparisons + 1)
        /\ Len(script) <= 7 /\ alive \subseteq 1..session /\ flxFaults \in 0..FlxMaxFaults
        /\ Len(inbox) <= 1 /\ DOMAIN inbox = {} /\ DOMAIN responses = {}
    OBVIOUS
  <2> QED BY <2>1, <2>2, <2>3 DEF FlxTypeOK
<1>4. InScript /\ OncePerCall /\ SoleWorker /\ EvidenceGrows /\ ScoreIsItsOwn
  BY DEF InScript, OncePerCall, SoleWorker, EvidenceGrows, ScoreIsItsOwn
<1> QED BY <1>1, <1>2, <1>3, <1>4 DEF FlxInv

-----------------------------------------------------------------------------
Quiet(lines) == \A i \in DOMAIN lines : ~IsAnswer(lines[i])

LEMMA QuietEnd ==
  ASSUME NEW lines \in Seq(Line)
  PROVE  /\ Append(lines, EndOfOutput) \in Seq(Line)
         /\ Quiet(lines) => Quiet(Append(lines, EndOfOutput))
  BY Lines DEF Quiet

\* However a call fails, it leaves the worker dead or with nothing under way.
LEMMA FailInv ==
  ASSUME FlxInv,
         flxAt \in {"ask", "wait"} \/ (flxAt = "call" /\ flxJob <= NComparisons /\ ~loaded),
         NEW how \in {"failed", "timeout", "crashed"}, NEW killed \in BOOLEAN,
         NEW rest \in Seq(Line), Fail(how, killed, rest),
         ~killed => inbox = <<>> /\ (Running => Quiet(rest)),
         troubled' \in BOOLEAN, flxFaults' \in 0..FlxMaxFaults
  PROVE  FlxInv'
<1> USE FlxAssumption DEF FlxInv
<1>1. /\ flxJob \in 0..NComparisons /\ session \in 0..(NComparisons + 1)
      /\ alive \subseteq {session} /\ alive \subseteq 1..session /\ loaded \in BOOLEAN
      /\ session <= flxJob + 1
  BY DEF FlxTypeOK, InScript, SoleWorker, OncePerCall
<1>2. /\ script' = <<>> /\ evidence' = evidence /\ session' = session
  BY DEF Fail, EndCall, End, Leave
<1>3. /\ alive' \subseteq alive /\ inbox' = <<>> /\ responses' \in Seq(Line)
      /\ session' \in alive' => Quiet(responses')
      /\ flxJob = 0 \/ ~loaded => alive' = {}
  <2>1. CASE killed \/ ~loaded \/ flxJob = 0
    <3>1. End(rest)
      BY <2>1 DEF Fail
    <3>2. alive' = {} /\ inbox' = <<>>
      BY <1>1, <3>1 DEF End
    <3>3. responses' \in Seq(Line)
      BY <3>1, QuietEnd DEF End
    <3> QED BY <1>1, <3>2, <3>3
  <2>2. CASE ~(killed \/ ~loaded \/ flxJob = 0)
    <3>1. Leave(rest) /\ inbox = <<>> /\ (Running => Quiet(rest))
      BY <2>2 DEF Fail
    <3> QED BY <2>2, <3>1 DEF Leave, Running
  <2> QED BY <2>1, <2>2
<1>4. CASE flxJob = 0
  <2>1. /\ flxAt' = "over" /\ loaded' = FALSE /\ flxJob' = flxJob /\ flxOutcome' = flxOutcome
    BY <1>4 DEF Fail, EndCall
  <2>2. Shapes'
    BY <1>2, <1>3, <2>1 DEF Shapes
  <2>3. KeepStep'
    BY <1>2, <1>3, <2>1 DEF KeepStep, Running, Quiet
  <2>4. InScript' /\ OncePerCall' /\ SoleWorker'
    BY <1>1, <1>2, <1>3, <1>4, <2>1 DEF InScript, OncePerCall, SoleWorker
  <2>5. EvidenceGrows' /\ ScoreIsItsOwn'
    <3>1. ScoreIsItsOwn'
      BY <1>1, <1>2, <2>1, ScoresKept
    <3> QED BY <1>2, <1>4, <2>1, <3>1 DEF EvidenceGrows
  <2>6. \A j \in 1..NComparisons : Len(evidence'[j]) <= 5
    BY <1>2 DEF FlxTypeOK
  <2>7. loaded' \in BOOLEAN
    BY <2>1
  <2>8. Len(script') <= 7 /\ alive' \subseteq 1..session' /\ session' \in 0..(NComparisons + 1)
        /\ flxJob' \in 0..(NComparisons + 1)
    BY <1>1, <1>2, <1>3, <2>1
  <2>9. FlxTypeOK'
    BY <2>1, <2>2, <2>3, <2>6, <2>7, <2>8, Typed
  <2> QED BY <2>2, <2>3, <2>4, <2>5, <2>9
<1>5. CASE flxJob > 0
  <2>1. /\ flxAt' = "call" /\ loaded' = loaded /\ flxJob' = flxJob + 1
        /\ flxOutcome' = [flxOutcome EXCEPT ![flxJob] = how]
    BY <1>1, <1>5 DEF Fail, EndCall
  <2>2. Shapes'
    BY <1>1, <1>2, <1>3, <1>5, <2>1 DEF Shapes
  <2>3. KeepStep'
    BY <1>2, <1>3, <2>1 DEF KeepStep, Running, Quiet
  <2>4. InScript' /\ OncePerCall' /\ SoleWorker'
    BY <1>1, <1>2, <1>3, <1>5, <2>1 DEF InScript, OncePerCall, SoleWorker
  <2>5. EvidenceGrows' /\ ScoreIsItsOwn'
    <3>1. \A j \in 1..NComparisons :
            /\ flxOutcome'[j] = "score" => flxOutcome[j] = "score"
            /\ j > flxJob => flxOutcome'[j] = flxOutcome[j]
      BY <1>1, <2>1 DEF Shapes
    <3>2. ScoreIsItsOwn'
      BY <1>1, <1>2, <3>1, ScoresKept
    <3> QED BY <1>1, <1>2, <1>5, <2>1, <3>1, <3>2 DEF EvidenceGrows
  <2>6. \A j \in 1..NComparisons : Len(evidence'[j]) <= 5
    BY <1>2 DEF FlxTypeOK
  <2>8. Len(script') <= 7 /\ alive' \subseteq 1..session' /\ session' \in 0..(NComparisons + 1)
        /\ flxJob' \in 0..(NComparisons + 1) /\ loaded' \in BOOLEAN
    BY <1>1, <1>2, <1>3, <1>5, <2>1
  <2>9. FlxTypeOK'
    BY <2>1, <2>2, <2>3, <2>6, <2>8, Typed
  <2> QED BY <2>2, <2>3, <2>4, <2>5, <2>9
<1> QED BY <1>1, <1>4, <1>5

LEMMA Empty == \A e : e = 0 => \A i \in 1..e : FALSE
  OBVIOUS

LEMMA OpenInv ==
  ASSUME FlxInv, Open
  PROVE  FlxInv'
<1> USE FlxAssumption DEF FlxInv
<1>1. /\ flxAt = "call" /\ flxAt' = "ask" /\ flxJob \in 0..NComparisons /\ flxJob' = flxJob
      /\ loaded' = loaded /\ evidence' = evidence /\ flxOutcome' = flxOutcome
      /\ troubled' = troubled /\ flxFaults' = flxFaults /\ loaded \in BOOLEAN
      /\ session \in 0..flxJob /\ alive \subseteq {session} /\ alive \subseteq 1..session
      /\ session \in Nat /\ troubled \in BOOLEAN /\ flxFaults \in 0..FlxMaxFaults
  BY DEF Open, FlxTypeOK, OncePerCall, SoleWorker
<1>2. /\ Goal \in IF flxJob = 0 THEN ValidationRests ELSE ComparisonRests
      /\ Loading \o Goal \in IF flxJob = 0 THEN ValidationRests ELSE ComparisonRests
      /\ Len(Loading \o Goal) > Len(Goal) /\ Len(Goal) <= 7 /\ Len(Loading \o Goal) <= 7
      /\ flxJob > 0 => Len(Goal) = 5
      /\ Goal' = Goal /\ Len(Goal) \in Nat
  BY <1>1, Scripts, Lengths DEF Goal
<1>3. /\ script' = IF loaded THEN Goal ELSE Loading \o Goal
      /\ session' = IF loaded THEN session ELSE session + 1
      /\ alive' \subseteq {session'} /\ alive' \subseteq 1..session' /\ session' # 0
      /\ inbox' = <<>> /\ responses' \in Seq(Line)
      /\ session' \in alive' => Quiet(responses')
  <2>1. CASE loaded
    BY <1>1, <2>1 DEF Open, child, KeepStep, Shapes, Quiet, Running, OncePerCall
  <2>2. CASE ~loaded
    <3>1. alive = {} /\ <<>> \in Seq(Line) /\ Quiet(<<>>)
      BY <1>1, <2>2 DEF SoleWorker, Quiet
    <3> QED BY <1>1, <2>2, <3>1 DEF Open
  <2> QED BY <2>1, <2>2
<1>4. InScript'
  BY <1>1, <1>2, <1>3 DEF InScript
<1>5. OncePerCall' /\ SoleWorker'
  BY <1>1, <1>3 DEF OncePerCall, SoleWorker
<1>6. KeepStep'
  BY <1>1, <1>3 DEF KeepStep, Quiet, Running
<1>7. Shapes' /\ (\A j \in 1..NComparisons : Len(evidence'[j]) <= 5)
  BY <1>1, <1>3 DEF Shapes, FlxTypeOK
<1>8. EvidenceGrows'
  <2>1. \A j \in 1..NComparisons :
          j >= flxJob => evidence'[j] = <<>> /\ flxOutcome'[j] = "none"
    <3>1. \A j \in 1..NComparisons : j >= flxJob => evidence[j] = <<>>
      BY <1>1 DEF EvidenceGrows
    <3>2. \A j \in 1..NComparisons : j >= flxJob => flxOutcome[j] = "none"
      BY DEF EvidenceGrows
    <3> QED BY <1>1, <3>1, <3>2
  <2>2. flxJob > 0 => flxJob \in 1..NComparisons
    BY <1>1
  <2>3. flxJob > 0 /\ loaded => Len(evidence'[flxJob]) = 0 /\ 5 - Len(script') = 0
    BY <1>2, <1>3, <2>1, <2>2
  <2>4. \A j \in 1..NComparisons :
          j > flxJob' \/ (j = flxJob' /\ flxAt' = "call") => evidence'[j] = <<>>
    BY <1>1, <2>1
  <2>5. flxJob' > 0 /\ ~loaded' => evidence'[flxJob'] = <<>>
    BY <1>1, <2>1, <2>2
  <2>6. flxJob' > 0 /\ loaded' =>
          /\ Len(evidence'[flxJob']) = 5 - Len(script')
          /\ \A i \in 1..(5 - Len(script')) :
               evidence'[flxJob'][i] = Own(session', flxJob', i)
    <3>1. SUFFICES ASSUME flxJob > 0, loaded
                   PROVE  /\ Len(evidence'[flxJob]) = 5 - Len(script')
                          /\ \A i \in 1..(5 - Len(script')) :
                               evidence'[flxJob][i] = Own(session', flxJob, i)
      BY <1>1
    <3>2. Len(evidence'[flxJob]) = 0 /\ 5 - Len(script') = 0
      BY <2>3, <3>1
    <3>3. \A i \in 1..(5 - Len(script')) : FALSE
      BY <3>2, Empty, Zenon
    <3> QED BY <3>2, <3>3
  <2>7. \A j \in 1..NComparisons : j >= flxJob' => flxOutcome'[j] = "none"
    BY <1>1, <2>1
  <2> QED BY <2>4, <2>5, <2>6, <2>7 DEF EvidenceGrows
<1>9. ScoreIsItsOwn'
  BY <1>1, <1>3, ScoresKept
<1>10. session' \in 0..(NComparisons + 1) /\ Len(script') <= 7 /\ flxJob' \in 0..(NComparisons + 1)
  BY <1>1, <1>2, <1>3
<1>11. FlxTypeOK'
  BY <1>1, <1>3, <1>6, <1>7, <1>10, Typed
<1> QED BY <1>4, <1>5, <1>6, <1>7, <1>8, <1>9, <1>11

LEMMA AskInv ==
  ASSUME FlxInv, Ask
  PROVE  FlxInv'
<1> USE FlxAssumption DEF FlxInv
<1>1. /\ flxAt = "ask" /\ flxAt' = "wait" /\ Running /\ Running' /\ inbox = <<>>
      /\ Quiet(responses) /\ responses' = responses /\ inbox' = Append(inbox, Request)
      /\ UNCHANGED <<flxJob, script, loaded, evidence, flxOutcome, session, alive, troubled,
                    flxFaults>>
  BY DEF Ask, KeepStep, Quiet, Running
<1>2. Request \in Requests /\ Request' = Request
  BY <1>1, OnCall DEF Request
<1>3. inbox' = <<Request'>> /\ inbox' \in Seq(Requests)
  BY <1>1, <1>2
<1>4. KeepStep'
  BY <1>1, <1>3 DEF KeepStep, Quiet
<1>5. Shapes' /\ (\A j \in 1..NComparisons : Len(evidence'[j]) <= 5)
  BY <1>1, <1>3 DEF Shapes, FlxTypeOK
<1>6. InScript'
  BY <1>1 DEF InScript, Goal
<1>7. OncePerCall' /\ SoleWorker' /\ EvidenceGrows'
  BY <1>1 DEF OncePerCall, SoleWorker, EvidenceGrows
<1>8. ScoreIsItsOwn'
  BY <1>1 DEF ScoreIsItsOwn
<1>9. /\ flxJob' \in 0..(NComparisons + 1) /\ session' \in 0..(NComparisons + 1)
      /\ alive' \subseteq 1..session' /\ loaded' \in BOOLEAN /\ Len(script') <= 7
      /\ troubled' \in BOOLEAN /\ flxFaults' \in 0..FlxMaxFaults
  BY <1>1 DEF FlxTypeOK
<1>10. FlxTypeOK'
  BY <1>1, <1>4, <1>5, <1>9, Typed
<1> QED BY <1>4, <1>5, <1>6, <1>7, <1>8, <1>10

LEMMA TakeInv ==
  ASSUME FlxInv, Take
  PROVE  FlxInv'
<1> USE FlxAssumption DEF FlxInv
<1> DEFINE h == Head(responses)
<1>1. /\ flxAt = "wait" /\ responses \in Seq(Line) /\ responses # <<>>
      /\ h = responses[1] /\ 1 \in DOMAIN responses /\ Tail(responses) \in Seq(Line)
      /\ \A i \in DOMAIN Tail(responses) :
           i + 1 \in DOMAIN responses /\ Tail(responses)[i] = responses[i + 1]
      /\ h.kind = "ok"
  BY DEF Take, Waiting, Shapes
<1>2. /\ inbox = <<>> /\ h.of = Request /\ Quiet(Tail(responses))
  BY <1>1 DEF KeepStep, IsAnswer, Quiet
<1>3. /\ flxJob \in 0..NComparisons /\ session \in 1..(NComparisons + 1)
      /\ Len(script) \in 1..7 /\ Len(Tail(script)) = Len(script) - 1
      /\ Tail(script) = <<>> <=> Len(script) = 1
      /\ Request \in Requests /\ script' = Tail(script)
      /\ loaded \in BOOLEAN /\ alive \subseteq {session} /\ alive \subseteq 1..session
      /\ session <= flxJob + 1
      /\ troubled' \in BOOLEAN /\ flxFaults' \in 0..FlxMaxFaults
  BY <1>1, OnCall DEF Take, Remaining, FlxTypeOK, SoleWorker, OncePerCall
<1>11. /\ Len(script) \in 1..7 /\ Len(script') = Len(script) - 1 /\ flxJob \in 0..NComparisons
       /\ session \in 1..(NComparisons + 1)
  BY <1>3
<1>4. /\ evidence' = IF loaded /\ flxJob > 0
                       THEN [evidence EXCEPT ![flxJob] = Append(@, Request)] ELSE evidence
  BY <1>2 DEF Take
<1>5. evidence' \in [1..NComparisons -> Seq(Requests)]
  BY <1>3, <1>4 DEF Shapes
<1>6. \A j \in 1..NComparisons : j # flxJob => evidence'[j] = evidence[j]
  BY <1>3, <1>4 DEF Shapes
<1>7. flxJob > 0 /\ ~loaded => evidence'[flxJob] = <<>>
  BY <1>1, <1>4 DEF EvidenceGrows
<1>8. ASSUME flxJob > 0, loaded
      PROVE  /\ Len(evidence'[flxJob]) = 6 - Len(script)
             /\ \A i \in 1..(6 - Len(script)) :
                  evidence'[flxJob][i] = Own(session, flxJob, i)
  <2>0. flxJob \in 1..NComparisons /\ Goal = Comparison
    BY <1>3, <1>8 DEF Goal
  <2>7. script \in Rests(7, Comparison)
    BY <1>1, <1>8, <2>0 DEF InScript, ComparisonRests
  <2>8. Len(script) <= Len(Goal)
    BY <1>1, <1>8 DEF InScript
  <2>1. flxJob \in 1..NComparisons /\ Len(script) \in 1..5
    <3>1. Len(Goal) = 5
      BY <2>0, Lengths
    <3> QED BY <1>11, <2>0, <2>8, <3>1
  <2>2. Head(script) = Comparison[6 - Len(script)]
    <3>1. 7 \in Nat /\ Comparison \in Seq(Operations) /\ Len(script) <= Len(Comparison)
      BY <2>0, <2>8, Lengths
    <3>2. Head(script) = Comparison[Len(Comparison) + 1 - Len(script)]
      BY <2>7, <3>1, ScriptRests
    <3> QED BY <1>3, <3>2, Lengths
  <2>3. Request = Own(session, flxJob, 6 - Len(script))
    BY <2>1, <2>2 DEF Request, Own
  <2>4. /\ evidence[flxJob] \in Seq(Requests) /\ Len(evidence[flxJob]) = 5 - Len(script)
        /\ \A i \in 1..(5 - Len(script)) : evidence[flxJob][i] = Own(session, flxJob, i)
        /\ evidence'[flxJob] = Append(evidence[flxJob], Request)
    BY <1>1, <1>4, <1>8, <2>1 DEF EvidenceGrows, Shapes
  <2>5. Len(evidence'[flxJob]) = 6 - Len(script)
    BY <2>1, <2>4
  <2>6. ASSUME NEW i \in 1..(6 - Len(script))
        PROVE  evidence'[flxJob][i] = Own(session, flxJob, i)
    <3>1. CASE i = 6 - Len(script)
      BY <2>1, <2>3, <2>4, <3>1
    <3>2. CASE i \in 1..(5 - Len(script))
      BY <2>1, <2>4, <3>2
    <3> QED BY <2>1, <3>1, <3>2
  <2> QED BY <2>5, <2>6
<1>9. CASE Tail(script) # <<>>
  <2>1. /\ flxAt' = "ask" /\ flxJob' = flxJob /\ flxOutcome' = flxOutcome
        /\ responses' = Tail(responses) /\ UNCHANGED <<session, alive, inbox>>
        /\ loaded' = (loaded \/ Len(script') = Len(Goal))
    BY <1>3, <1>9 DEF Take
  <2>2. script' \in IF flxJob = 0 THEN ValidationRests ELSE ComparisonRests
    <3>1. CASE flxJob = 0
      <4>1. script \in Rests(4, Reporting)
        BY <1>1, <3>1 DEF InScript, ValidationRests
      <4> QED BY <1>3, <1>9, <3>1, <4>1, Lengths, ScriptRests DEF ValidationRests
    <3>2. CASE flxJob # 0
      <4>1. script \in Rests(7, Comparison)
        BY <1>1, <3>2 DEF InScript, ComparisonRests
      <4> QED BY <1>3, <1>9, <3>2, <4>1, Lengths, ScriptRests DEF ComparisonRests
    <3> QED BY <3>1, <3>2
  <2>3. loaded' <=> Len(script') <= Len(Goal)
    <3>1. Len(Goal) \in Nat
      BY Lengths DEF Goal
    <3>2. loaded <=> Len(script) <= Len(Goal)
      BY <1>1 DEF InScript
    <3>3. loaded' <=> (loaded \/ Len(script') = Len(Goal))
      BY <2>1
    <3>4. Len(script') = Len(script) - 1
      BY <1>3
    <3> QED BY <1>3, <3>1, <3>2, <3>3, <3>4
  <2>4. loaded' \in BOOLEAN
    BY <1>3, <2>1
  <2>5. InScript'
    BY <1>3, <2>1, <2>2, <2>3 DEF InScript, Goal
  <2>6. OncePerCall' /\ SoleWorker'
    BY <1>3, <2>1 DEF OncePerCall, SoleWorker
  <2>7. KeepStep'
    BY <1>2, <2>1 DEF KeepStep, Quiet
  <2>8. Shapes'
    BY <1>1, <1>2, <1>5, <2>1 DEF Shapes
  <2>9. EvidenceGrows'
    <3>1. \A j \in 1..NComparisons : j > flxJob => evidence'[j] = <<>>
      BY <1>3, <1>6 DEF EvidenceGrows
    <3>2. flxJob > 0 /\ loaded' => /\ Len(evidence'[flxJob]) = 5 - Len(script')
                                  /\ \A i \in 1..(5 - Len(script')) :
                                       evidence'[flxJob][i] = Own(session', flxJob, i)
      <4>0. 5 - Len(script') = 6 - Len(script) /\ session' = session
        BY <1>3, <2>1
      <4>1. CASE loaded
        BY <1>8, <4>0, <4>1
      <4>2. CASE ~loaded
        <5>1. flxJob > 0 => evidence'[flxJob] = <<>> /\ Len(Goal) = 5
          BY <1>7, <4>2, Lengths DEF Goal
        <5>2. loaded' => Len(script') = Len(Goal)
          BY <2>1, <4>2
        <5>3. ASSUME flxJob > 0, loaded'
              PROVE  Len(evidence'[flxJob]) = 0 /\ 5 - Len(script') = 0
          BY <5>1, <5>2, <5>3
        <5>4. ASSUME flxJob > 0, loaded'
              PROVE  \A i \in 1..(5 - Len(script')) : FALSE
          BY <5>3, <5>4, Empty, Zenon
        <5> QED BY <5>3, <5>4
      <4> QED BY <4>1, <4>2
    <3>3. ~loaded' => ~loaded
      BY <1>3, <2>1
    <3>4. \A j \in 1..NComparisons : j >= flxJob => flxOutcome'[j] = "none"
      BY <2>1 DEF EvidenceGrows
    <3> QED BY <1>7, <2>1, <3>1, <3>2, <3>3, <3>4 DEF EvidenceGrows
  <2>10. ScoreIsItsOwn'
    <3>1. \A j \in 1..NComparisons : flxOutcome'[j] = "score" => j # flxJob
      BY <1>3, <2>1 DEF EvidenceGrows
    <3> QED BY <1>3, <1>6, <2>1, <3>1, ScoresKept
  <2>11. \A j \in 1..NComparisons : Len(evidence'[j]) <= 5
    <3>1. flxJob > 0 => Len(evidence'[flxJob]) <= 5
      <4>1. CASE loaded
        <5>1. flxJob > 0 => Len(evidence'[flxJob]) = 6 - Len(script)
          BY <1>8, <4>1
        <5> QED BY <1>11, <5>1
      <4>2. CASE ~loaded
        <5>1. flxJob > 0 => evidence'[flxJob] = <<>>
          BY <1>7, <4>2
        <5> QED BY <5>1
      <4> QED BY <4>1, <4>2
    <3>2. \A j \in 1..NComparisons : Len(evidence[j]) <= 5 /\ j > 0
      BY DEF FlxTypeOK
    <3> QED BY <1>6, <3>1, <3>2
  <2>12. /\ flxJob' \in 0..(NComparisons + 1) /\ session' \in 0..(NComparisons + 1)
         /\ alive' \subseteq 1..session' /\ Len(script') <= 7
    <3>1. flxJob' = flxJob /\ session' = session /\ alive' = alive
      BY <2>1
    <3>2. alive \subseteq 1..session
      BY <1>3
    <3> QED BY <1>11, <3>1, <3>2
  <2>13. FlxTypeOK'
    BY <1>3, <2>1, <2>4, <2>7, <2>8, <2>11, <2>12, Typed
  <2> QED BY <2>5, <2>6, <2>7, <2>8, <2>9, <2>10, <2>13
<1>10. CASE Tail(script) = <<>>
  <2>1. /\ flxAt' = "call" /\ flxJob' = flxJob + 1 /\ script' = <<>> /\ Len(script) = 1
    BY <1>3, <1>10 DEF Take
  <2>2. loaded
    <3>1. loaded <=> Len(script) <= Len(Goal)
      BY <1>1 DEF InScript
    <3>2. Len(Goal) >= 1
      BY Lengths DEF Goal
    <3> QED BY <2>1, <3>1, <3>2
  <2>3. /\ alive' \subseteq alive /\ inbox' = <<>> /\ session' = session
        /\ responses' \in Seq(Line)
        /\ session' \in alive' => Quiet(responses')
        /\ loaded' \in BOOLEAN
        /\ ~loaded' => alive' = {}
    <3>1. CASE flxJob = 0
      <4>1. End(Tail(responses)) /\ loaded' = FALSE
        BY <1>10, <1>3, <3>1 DEF Take
      <4>2. alive' = {} /\ inbox' = <<>> /\ session' = session
        BY <1>3, <4>1 DEF End
      <4>3. responses' \in Seq(Line)
        BY <1>1, <4>1, QuietEnd DEF End
      <4> QED BY <4>1, <4>2, <4>3
    <3>2. CASE flxJob # 0
      <4>1. /\ responses' = Tail(responses) /\ UNCHANGED <<session, alive, inbox>>
            /\ loaded' = (loaded \/ Len(script') = Len(Goal))
        BY <3>2 DEF Take
      <4>2. loaded'
        BY <2>2, <4>1
      <4>3. loaded' \in BOOLEAN
        BY <4>1
      <4> QED BY <1>1, <1>2, <4>1, <4>2, <4>3
    <3> QED BY <3>1, <3>2
  <2>4. /\ flxOutcome' \in [1..NComparisons ->
                             {"none", "score", "failed", "timeout", "crashed"}]
        /\ \A j \in 1..NComparisons : j # flxJob => flxOutcome'[j] = flxOutcome[j]
    <3>1. flxOutcome' = IF flxJob > 0 THEN [flxOutcome EXCEPT ![flxJob] = "score"]
                                      ELSE flxOutcome
      BY <1>3, <1>10 DEF Take
    <3> QED BY <1>3, <3>1 DEF Shapes
  <2>5. InScript' /\ OncePerCall' /\ SoleWorker'
    BY <1>3, <2>1, <2>3 DEF InScript, OncePerCall, SoleWorker
  <2>6. KeepStep'
    BY <2>1, <2>3 DEF KeepStep, Quiet, Running
  <2>7. Shapes'
    <3>1. inbox' \in Seq(Requests)
      BY <2>3
    <3> QED BY <1>5, <2>3, <2>4, <3>1 DEF Shapes
  <2>8. EvidenceGrows'
    <3>1. \A j \in 1..NComparisons : j > flxJob => evidence[j] = <<>>
      BY DEF EvidenceGrows
    <3>2. \A j \in 1..NComparisons : j > flxJob => flxOutcome[j] = "none"
      BY <1>11 DEF EvidenceGrows
    <3>3. \A j \in 1..NComparisons : j >= flxJob + 1 =>
            evidence'[j] = <<>> /\ flxOutcome'[j] = "none"
      BY <1>3, <1>6, <2>4, <3>1, <3>2
    <3> QED BY <1>3, <2>1, <3>3 DEF EvidenceGrows
  <2>9. ScoreIsItsOwn'
    <3>1. SUFFICES ASSUME NEW j \in 1..NComparisons, flxOutcome'[j] = "score"
                   PROVE  \E s \in 1..session : evidence'[j] = [i \in 1..5 |-> Own(s, j, i)]
      BY <2>3 DEF ScoreIsItsOwn, Own
    <3>2. CASE j = flxJob
      <4>1. Len(evidence'[j]) = 5 /\ \A i \in 1..5 : evidence'[j][i] = Own(session, j, i)
        BY <1>3, <1>8, <2>1, <2>2, <3>2
      <4>2. evidence'[j] \in Seq(Requests)
        BY <1>5
      <4>3. evidence'[j] = [i \in 1..5 |-> Own(session, j, i)]
        BY <4>1, <4>2
      <4> QED BY <1>3, <4>3
    <3>3. CASE j # flxJob
      <4>1. flxOutcome[j] = "score" /\ evidence'[j] = evidence[j]
        BY <1>6, <2>4, <3>1, <3>3
      <4> QED BY <4>1 DEF ScoreIsItsOwn, Own
    <3> QED BY <3>2, <3>3
  <2>10. \A j \in 1..NComparisons : Len(evidence'[j]) <= 5
    <3>1. flxJob > 0 => Len(evidence'[flxJob]) <= 5
      <4>1. 6 - Len(script) = 5
        BY <2>1
      <4> QED BY <1>8, <2>2, <4>1
    <3>2. \A j \in 1..NComparisons : Len(evidence[j]) <= 5 /\ j > 0
      BY DEF FlxTypeOK
    <3> QED BY <1>6, <3>1, <3>2
  <2>11. /\ flxJob' \in 0..(NComparisons + 1) /\ session' \in 0..(NComparisons + 1)
         /\ alive' \subseteq 1..session' /\ Len(script') <= 7
    <3>1. Len(script') = 0 /\ alive \subseteq 1..session
      BY <1>3, <2>1
    <3>2. alive' \subseteq 1..session'
      BY <2>3, <3>1
    <3> QED BY <1>11, <2>1, <2>3, <3>1, <3>2
  <2>12. FlxTypeOK'
    BY <1>3, <2>1, <2>3, <2>6, <2>7, <2>10, <2>11, Typed
  <2> QED BY <2>5, <2>6, <2>7, <2>8, <2>9, <2>12
<1> QED BY <1>9, <1>10

\* What a request takes from the queue, and what it leaves there.
LEMMA Taking ==
  ASSUME FlxInv, Waiting
  PROVE  /\ flxAt = "wait" /\ Tail(responses) \in Seq(Line)
         /\ Fits(Head(responses)) => inbox = <<>> /\ Quiet(Tail(responses))
<1> USE DEF FlxInv
<1>1. /\ flxAt = "wait" /\ responses \in Seq(Line) /\ responses # <<>>
      /\ Head(responses) = responses[1] /\ 1 \in DOMAIN responses
      /\ Tail(responses) \in Seq(Line)
      /\ \A i \in DOMAIN Tail(responses) :
           i + 1 \in DOMAIN responses /\ Tail(responses)[i] = responses[i + 1]
  BY DEF Waiting, Shapes
<1>2. ASSUME Fits(Head(responses)) PROVE inbox = <<>> /\ Quiet(Tail(responses))
  <2>1. IsAnswer(responses[1])
    BY <1>1, <1>2 DEF Fits, IsAnswer
  <2>2. inbox = <<>> /\ \A k \in DOMAIN responses : IsAnswer(responses[k]) => k = 1
    BY <1>1, <2>1 DEF KeepStep
  <2>3. \A i \in DOMAIN Tail(responses) : i + 1 # 1
    BY <1>1
  <2> QED BY <1>1, <2>2, <2>3 DEF Quiet
<1> QED BY <1>1, <1>2

LEMMA FailuresInv ==
  ASSUME FlxInv, CannotStart \/ AskTheDead \/ TakeRefusal \/ TakeNonsense \/ Expire
  PROVE  FlxInv'
<1> USE FlxAssumption DEF FlxInv
<1>1. troubled \in BOOLEAN /\ flxFaults \in 0..FlxMaxFaults /\ responses \in Seq(Line)
  BY DEF FlxTypeOK, Shapes
<1>2. flxAt # "wait" => inbox = <<>> /\ (Running => Quiet(responses))
  BY DEF KeepStep, Quiet
<1>3. CASE CannotStart
  <2>1. /\ flxAt = "call" /\ flxJob <= NComparisons /\ ~loaded
        /\ Fail("crashed", FALSE, responses)
    BY <1>3 DEF CannotStart
  <2>2. troubled' \in BOOLEAN /\ flxFaults' \in 0..FlxMaxFaults
    BY <1>1, <1>3 DEF CannotStart
  <2> QED BY <1>1, <1>2, <2>1, <2>2, FailInv
<1>4. CASE AskTheDead
  <2>1. flxAt = "ask" /\ Fail("crashed", FALSE, responses)
    BY <1>4 DEF AskTheDead
  <2>2. troubled' \in BOOLEAN /\ flxFaults' \in 0..FlxMaxFaults
    BY <1>1, <1>4 DEF AskTheDead
  <2> QED BY <1>1, <1>2, <2>1, <2>2, FailInv
<1>5. CASE TakeRefusal
  <2>1. PICK how \in {"failed", "timeout", "crashed"} : Fail(how, FALSE, Tail(responses))
    BY <1>5 DEF TakeRefusal
  <2>2. troubled' \in BOOLEAN /\ flxFaults' \in 0..FlxMaxFaults
    BY <1>1, <1>5 DEF TakeRefusal
  <2>3. /\ flxAt = "wait" /\ Tail(responses) \in Seq(Line)
        /\ inbox = <<>> /\ Quiet(Tail(responses))
    BY <1>5, Taking DEF TakeRefusal
  <2> QED BY <2>1, <2>2, <2>3, FailInv
<1>6. CASE TakeNonsense
  <2>1. Fail("crashed", TRUE, Tail(responses))
    BY <1>6 DEF TakeNonsense
  <2>2. troubled' \in BOOLEAN /\ flxFaults' \in 0..FlxMaxFaults
    BY <1>1, <1>6 DEF TakeNonsense
  <2>3. flxAt = "wait" /\ Tail(responses) \in Seq(Line)
    BY <1>6, Taking DEF TakeNonsense
  <2> QED BY <2>1, <2>2, <2>3, FailInv
<1>7. CASE Expire
  <2>1. PICK tardy \in {<<>>} \cup {<<Answer(inbox[i], TRUE)>> : i \in DOMAIN inbox} :
          Fail("timeout", TRUE, tardy)
    BY <1>7 DEF Expire
  <2>2. tardy \in Seq(Line)
    <3>1. CASE tardy = <<>>
      BY <3>1
    <3>2. ASSUME NEW i \in DOMAIN inbox, tardy = <<Answer(inbox[i], TRUE)>>
          PROVE  tardy \in Seq(Line)
      <4>1. inbox[i] \in Requests
        BY <3>2 DEF Shapes
      <4>2. Answer(inbox[i], TRUE) \in Line
        BY <4>1, Lines
      <4>3. \A l \in Line : <<l>> \in Seq(Line)
        OBVIOUS
      <4> QED BY <3>2, <4>2, <4>3
    <3> QED BY <2>1, <3>1, <3>2
  <2>3. troubled' \in BOOLEAN /\ flxFaults' \in 0..FlxMaxFaults
    BY <1>1, <1>7 DEF Expire
  <2>4. flxAt = "wait"
    BY <1>7 DEF Expire
  <2> QED BY <2>1, <2>2, <2>3, <2>4, FailInv
<1> QED BY <1>3, <1>4, <1>5, <1>6, <1>7

\* Steps that leave the calls alone: what matters is that worker and parent
\* keep step.
LEMMA CallsAlone ==
  ASSUME FlxInv, UNCHANGED <<parent, session>>, alive' \subseteq alive,
         inbox' \in Seq(Requests), responses' \in Seq(Line), KeepStep',
         troubled' \in BOOLEAN, flxFaults' \in 0..FlxMaxFaults
  PROVE  FlxInv'
<1> USE FlxAssumption DEF FlxInv
<1>1. /\ flxAt' = flxAt /\ flxJob' = flxJob /\ script' = script /\ loaded' = loaded
      /\ evidence' = evidence /\ flxOutcome' = flxOutcome /\ session' = session
  BY DEF parent
<1>2. Shapes' /\ (\A j \in 1..NComparisons : Len(evidence'[j]) <= 5)
  BY <1>1 DEF Shapes, FlxTypeOK
<1>3. InScript'
  BY <1>1 DEF InScript, Goal
<1>4. OncePerCall' /\ EvidenceGrows'
  BY <1>1 DEF OncePerCall, EvidenceGrows
<1>5. SoleWorker'
  BY <1>1 DEF SoleWorker
<1>6. ScoreIsItsOwn'
  BY <1>1 DEF ScoreIsItsOwn
<1>7. /\ flxAt' \in {"call", "ask", "wait", "closing", "over"}
      /\ flxJob' \in 0..(NComparisons + 1) /\ session' \in 0..(NComparisons + 1)
      /\ alive' \subseteq 1..session' /\ loaded' \in BOOLEAN /\ Len(script') <= 7
  BY <1>1 DEF FlxTypeOK
<1>8. FlxTypeOK'
  BY <1>2, <1>7, Typed
<1> QED BY <1>2, <1>3, <1>4, <1>5, <1>6, <1>8

LEMMA WorkerInv ==
  ASSUME FlxInv, Serve \/ Chatter \/ Die
  PROVE  FlxInv'
<1> USE FlxAssumption DEF FlxInv
<1>1. /\ troubled \in BOOLEAN /\ flxFaults \in 0..FlxMaxFaults
      /\ inbox \in Seq(Requests) /\ responses \in Seq(Line) /\ alive \subseteq {session}
  BY DEF FlxTypeOK, Shapes, SoleWorker
<1>2. CASE Serve
  <2>1. PICK ok \in BOOLEAN : responses' = Append(responses, Answer(Head(inbox), ok))
    BY <1>2 DEF Serve
  <2>2. /\ Running /\ inbox # <<>> /\ inbox' = Tail(inbox)
        /\ UNCHANGED <<parent, session, alive, troubled, flxFaults>>
    BY <1>2 DEF Serve
  <2>3. flxAt = "wait" /\ inbox = <<Request>> /\ Quiet(responses)
    BY <2>2 DEF KeepStep, Quiet
  <2>4. Request \in Requests /\ Head(inbox) = Request /\ inbox' = <<>>
    BY <2>2, <2>3, OnCall
  <2>5. /\ Answer(Request, ok) \in Line /\ IsAnswer(Answer(Request, ok))
        /\ Answer(Request, ok).of = Request
    BY <2>4, Lines
  <2>6. /\ responses' \in Seq(Line) /\ Len(responses') = Len(responses) + 1
        /\ DOMAIN responses' = 1..(Len(responses) + 1)
        /\ responses'[Len(responses) + 1] = Answer(Request, ok)
        /\ \A i \in 1..Len(responses) : responses'[i] = responses[i]
    BY <1>1, <2>1, <2>4, <2>5
  <2>7. \A i \in DOMAIN responses' : IsAnswer(responses'[i]) => i = Len(responses) + 1
    <3>1. \A i \in 1..Len(responses) : ~IsAnswer(responses[i])
      BY <1>1, <2>3 DEF Quiet
    <3> QED BY <1>1, <2>6, <3>1
  <2>8. flxAt' = flxAt /\ flxJob' = flxJob /\ script' = script /\ session' = session
    BY <2>2 DEF parent
  <2>9. Request' = Request
    BY <2>8 DEF Request
  <2>10. KeepStep'
    BY <2>3, <2>4, <2>5, <2>6, <2>7, <2>8, <2>9 DEF KeepStep
  <2>11. inbox' \in Seq(Requests)
    BY <2>4
  <2> QED BY <1>1, <2>2, <2>6, <2>10, <2>11, CallsAlone
<1>3. CASE Chatter
  <2>1. /\ responses' = Append(responses, Stray)
        /\ UNCHANGED <<parent, session, alive, inbox>>
    BY <1>3 DEF Chatter
  <2>2. troubled' \in BOOLEAN /\ flxFaults' \in 0..FlxMaxFaults
    BY <1>1, <1>3 DEF Chatter
  <2>3. /\ responses' \in Seq(Line)
        /\ \A i \in DOMAIN responses' : IsAnswer(responses'[i]) =>
             i \in DOMAIN responses /\ responses'[i] = responses[i]
    BY <1>1, <2>1, Lines
  <2>4. flxAt' = flxAt /\ flxJob' = flxJob /\ script' = script /\ session' = session
    BY <2>1 DEF parent
  <2>5. Request' = Request /\ Running' = Running
    BY <2>1, <2>4 DEF Request, Running
  <2>6. KeepStep'
    BY <2>1, <2>3, <2>4, <2>5 DEF KeepStep
  <2> QED BY <1>1, <2>1, <2>2, <2>3, <2>6, CallsAlone
<1>4. CASE Die
  <2>1. /\ inbox' = <<>> /\ alive' = {} /\ session' = session /\ UNCHANGED parent
        /\ responses' = Append(responses, EndOfOutput)
    BY <1>1, <1>4 DEF Die, End
  <2>2. troubled' \in BOOLEAN /\ flxFaults' \in 0..FlxMaxFaults
    BY <1>1, <1>4 DEF Die
  <2>3. /\ responses' \in Seq(Line)
        /\ \A i \in DOMAIN responses' : IsAnswer(responses'[i]) =>
             i \in DOMAIN responses /\ responses'[i] = responses[i]
    BY <1>1, <2>1, Lines
  <2>4. flxAt' = flxAt /\ flxJob' = flxJob /\ script' = script /\ session' = session
    BY <2>1 DEF parent
  <2>5. Request' = Request
    BY <2>4 DEF Request
  <2>6. KeepStep'
    BY <2>1, <2>3, <2>4, <2>5 DEF KeepStep, Running
  <2>7. inbox' \in Seq(Requests)
    BY <2>1
  <2> QED BY <1>1, <2>1, <2>2, <2>3, <2>6, <2>7, CallsAlone
<1> QED BY <1>2, <1>3, <1>4

LEMMA LeavingInv ==
  ASSUME FlxInv, Drift \/ Close
  PROVE  FlxInv'
<1> USE FlxAssumption DEF FlxInv
<1>1. /\ flxAt' \in {"closing", "over"} /\ evidence' = evidence /\ flxOutcome' = flxOutcome
      /\ flxJob' = flxJob /\ session' = session /\ troubled' = troubled
      /\ flxFaults' = flxFaults /\ inbox' = <<>> /\ alive' \subseteq alive
      /\ flxAt' = "over" => alive' = {}
      /\ responses' \in Seq(Line)
      /\ session' \in alive' => Quiet(responses')
      /\ loaded' \in BOOLEAN /\ Len(script') <= 7
      /\ loaded' => session' # 0
  <2>1. CASE Drift
    BY <2>1 DEF Drift, child, KeepStep, Quiet, Running, Shapes, FlxTypeOK, OncePerCall
  <2>2. CASE Close
    <3>1. /\ flxAt' = "over" /\ loaded' = FALSE /\ script' = <<>> /\ End(responses)
          /\ UNCHANGED <<flxJob, evidence, flxOutcome, troubled, flxFaults>>
      BY <2>2 DEF Close
    <3>2. alive' = {} /\ inbox' = <<>> /\ session' = session
      BY <3>1 DEF End, SoleWorker
    <3>3. responses' \in Seq(Line)
      BY <3>1, QuietEnd DEF End, Shapes
    <3>4. loaded' \in BOOLEAN /\ ~loaded' /\ Len(script') = 0
      BY <3>1
    <3>5. session' \notin alive' /\ alive' \subseteq alive
      BY <3>2
    <3>6. /\ flxAt' \in {"closing", "over"} /\ evidence' = evidence /\ flxOutcome' = flxOutcome
          /\ flxJob' = flxJob /\ troubled' = troubled /\ flxFaults' = flxFaults
      BY <3>1
    <3> QED BY <3>2, <3>3, <3>4, <3>5, <3>6
  <2> QED BY <2>1, <2>2
<1>2. /\ session <= flxJob + 1 /\ flxJob \in 0..(NComparisons + 1)
      /\ session \in 0..(NComparisons + 1) /\ alive \subseteq {session}
      /\ alive \subseteq 1..session /\ troubled \in BOOLEAN /\ flxFaults \in 0..FlxMaxFaults
  BY DEF OncePerCall, FlxTypeOK, SoleWorker
<1>3. Shapes' /\ (\A j \in 1..NComparisons : Len(evidence'[j]) <= 5)
  BY <1>1 DEF Shapes, FlxTypeOK
<1>4. KeepStep'
  BY <1>1 DEF KeepStep, Quiet, Running
<1>5. InScript' /\ SoleWorker'
  BY <1>1, <1>2 DEF InScript, SoleWorker
<1>6. OncePerCall'
  BY <1>1, <1>2 DEF OncePerCall
<1>7. EvidenceGrows'
  BY <1>1 DEF EvidenceGrows
<1>8. ScoreIsItsOwn'
  BY <1>1 DEF ScoreIsItsOwn
<1>9. FlxTypeOK'
  BY <1>1, <1>2, <1>3, <1>4, Typed
<1> QED BY <1>3, <1>4, <1>5, <1>6, <1>7, <1>8, <1>9

LEMMA FlxNextInv ==
  ASSUME FlxInv, [FlxNext]_flxVars
  PROVE  FlxInv'
<1>1. CASE Open
  BY <1>1, OpenInv
<1>2. CASE Ask
  BY <1>2, AskInv
<1>3. CASE Take
  BY <1>3, TakeInv
<1>4. CASE CannotStart \/ AskTheDead \/ TakeRefusal \/ TakeNonsense \/ Expire
  BY <1>4, FailuresInv
<1>5. CASE Drift \/ Close
  BY <1>5, LeavingInv
<1>6. CASE Serve \/ Chatter \/ Die
  BY <1>6, WorkerInv
<1>7. CASE UNCHANGED flxVars
  <2>1. /\ UNCHANGED <<parent, session>> /\ alive' = alive /\ inbox' = inbox
        /\ responses' = responses /\ troubled' = troubled /\ flxFaults' = flxFaults
    BY <1>7 DEF flxVars, child
  <2>2. flxAt' = flxAt /\ flxJob' = flxJob /\ script' = script /\ session' = session
    BY <2>1 DEF parent
  <2>3. KeepStep'
    BY <2>1, <2>2 DEF FlxInv, KeepStep, Request, Running
  <2>4. /\ troubled' \in BOOLEAN /\ flxFaults' \in 0..FlxMaxFaults
        /\ inbox' \in Seq(Requests) /\ responses' \in Seq(Line)
    BY <2>1 DEF FlxInv, FlxTypeOK, Shapes
  <2> QED BY <2>1, <2>3, <2>4, CallsAlone
<1> QED BY <1>1, <1>2, <1>3, <1>4, <1>5, <1>6, <1>7 DEF FlxNext, FlxParent

LEMMA FlxInvariant == FlxSpec => []FlxInv
<1>1. FlxInv /\ [FlxNext]_flxVars => FlxInv'
  BY FlxNextInv
<1> QED BY <1>1, FlxInitInv, PTL DEF FlxSpec

-----------------------------------------------------------------------------
\* Every variable of an invocation stays within its range: no call has more
\* than seven requests, no worker has more than one request unread, and no more
\* workers are started than calls made.
THEOREM FlxTypeCorrect == FlxSpec => []FlxTypeOK
<1>1. FlxInv => FlxTypeOK
  BY DEF FlxInv
<1> QED BY <1>1, FlxInvariant, PTL

\* A stored score was computed from the answers to its own five requests, all
\* by one worker, although FlxWorkerSession.request matches a response by its
\* operation alone.
THEOREM ScoresAreTheirOwn == FlxSpec => []ScoreIsItsOwn
<1>1. FlxInv => ScoreIsItsOwn
  BY DEF FlxInv
<1> QED BY <1>1, FlxInvariant, PTL

LEMMA OneLives ==
  ASSUME FlxInv PROVE OneWorker
<1>1. alive \subseteq {session} /\ (flxAt = "over" => alive = {})
  BY DEF FlxInv, SoleWorker
<1>2. alive = {} \/ alive = {session}
  BY <1>1
<1>3. Cardinality({}) = 0 /\ Cardinality({session}) = 1
  BY FS_EmptySet, FS_Singleton
<1> QED BY <1>1, <1>2, <1>3 DEF OneWorker

\* FlxWorkerSession.start never leaves a second worker beside the first, and
\* no worker outlives the invocation.
THEOREM NeverTwoWorkers == FlxSpec => []OneWorker
  BY OneLives, FlxInvariant, PTL

\* Once a loaded runtime has lost its worker, no comparison of the invocation
\* gets a score or a verdict of its own: each one that is reached is stored as
\* a crash, and no other worker is ever started.
THEOREM LossIsFinal == FlxSpec => LossIsForGood
<1>1. ASSUME FlxInv, [FlxNext]_flxVars, Lost
      PROVE  /\ Lost' \/ flxAt' \in {"closing", "over"}
             /\ \A j \in 1..NComparisons :
                  flxOutcome'[j] # flxOutcome[j] => flxOutcome'[j] = "crashed"
  <2> USE <1>1
  <2>1. loaded /\ ~Running /\ flxAt \in {"call", "ask"}
    BY DEF Lost
  <2>2. CASE Open
    BY <2>1, <2>2 DEF Open, child, Lost, Running
  <2>3. CASE AskTheDead
    <3>1. Fail("crashed", FALSE, responses) /\ flxAt = "ask"
      BY <2>3 DEF AskTheDead
    <3>2. CASE flxJob = 0
      BY <3>1, <3>2 DEF Fail, EndCall
    <3>3. CASE flxJob # 0
      <4>1. /\ flxAt' = "call" /\ loaded' = loaded
            /\ flxOutcome' = [flxOutcome EXCEPT ![flxJob] = "crashed"]
            /\ UNCHANGED <<session, alive>>
        BY <2>1, <3>1, <3>3 DEF Fail, EndCall, Leave
      <4>2. Lost'
        BY <2>1, <4>1 DEF Lost, Running
      <4> QED BY <4>1, <4>2 DEF FlxInv, Shapes
    <3> QED BY <3>2, <3>3
  <2>4. CASE Drift \/ Close
    BY <2>4 DEF Drift, Close
  <2>5. CASE CannotStart \/ Ask \/ Take \/ TakeRefusal \/ TakeNonsense \/ Expire
    BY <2>1, <2>5 DEF CannotStart, Ask, Take, TakeRefusal, TakeNonsense, Expire, Waiting
  <2>6. CASE Serve \/ Chatter \/ Die
    BY <2>1, <2>6 DEF Serve, Chatter, Die
  <2>7. CASE UNCHANGED flxVars
    BY <2>1, <2>7 DEF flxVars, parent, child, Lost, Running
  <2> QED BY <2>2, <2>3, <2>4, <2>5, <2>6, <2>7 DEF FlxNext, FlxParent
<1> QED BY <1>1, FlxInvariant, PTL DEF FlxSpec, LossIsForGood

\* Until something goes wrong the worker lives as long as its call needs it, and
\* what it has written and nobody has taken is the answer that is waited for.
Healthy ==
  ~troubled =>
    /\ \A j \in 1..NComparisons : flxOutcome[j] \in {"none", "score"}
    /\ flxAt \in {"ask", "wait"} \/ (flxAt = "call" /\ loaded) => Running
    /\ flxAt = "ask" \/ (flxAt = "call" /\ loaded) => responses = <<>>
    /\ flxAt = "wait" => \A i \in DOMAIN responses : IsAnswer(responses[i])

\* An answer that is the only line of the queue leaves nothing behind, and it
\* is the answer to the request of the moment.
LEMMA Undisturbed ==
  ASSUME FlxInv, Healthy, ~troubled, Waiting
  PROVE  Fits(Head(responses)) /\ Tail(responses) = <<>>
<1> USE DEF FlxInv
<1>1. /\ flxAt = "wait" /\ responses \in Seq(Line) /\ responses # <<>>
      /\ Head(responses) = responses[1] /\ 1 \in DOMAIN responses
  BY DEF Waiting, Shapes
<1>2. \A i \in DOMAIN responses : IsAnswer(responses[i])
  BY <1>1 DEF Healthy
<1>3. responses[1].of = Request /\ \A k \in DOMAIN responses : k = 1
  BY <1>1, <1>2 DEF KeepStep
<1>4. Len(responses) = 1
  <2>1. Len(responses) \in Nat /\ DOMAIN responses = 1..Len(responses) /\ Len(responses) # 0
    BY <1>1
  <2>2. Len(responses) \in DOMAIN responses
    BY <2>1
  <2> QED BY <1>3, <2>2
<1>5. Tail(responses) = <<>>
  BY <1>1, <1>4
<1>6. Fits(Head(responses))
  BY <1>1, <1>2, <1>3 DEF Fits, IsAnswer, Request
<1> QED BY <1>5, <1>6

LEMMA HealthyKept ==
  ASSUME FlxInv, Healthy, [FlxNext]_flxVars
  PROVE  Healthy'
<1> SUFFICES ASSUME ~troubled'
             PROVE  /\ \A j \in 1..NComparisons : flxOutcome'[j] \in {"none", "score"}
                    /\ flxAt' \in {"ask", "wait"} \/ (flxAt' = "call" /\ loaded') => Running'
                    /\ flxAt' = "ask" \/ (flxAt' = "call" /\ loaded') => responses' = <<>>
                    /\ flxAt' = "wait" => \A i \in DOMAIN responses' : IsAnswer(responses'[i])
  BY DEF Healthy
<1> USE FlxAssumption
<1>1. CASE CannotStart \/ TakeRefusal \/ Expire \/ Chatter \/ Die
  BY <1>1 DEF CannotStart, TakeRefusal, Expire, Chatter, Die
<1>2. CASE UNCHANGED flxVars
  <2>1. /\ UNCHANGED <<flxAt, loaded, flxOutcome, session, alive, responses, troubled>>
    BY <1>2 DEF flxVars, parent, child
  <2> QED BY <2>1 DEF Healthy, Running
<1>3. CASE Open
  <2>1. /\ flxAt = "call" /\ flxAt' = "ask" /\ UNCHANGED <<flxOutcome, troubled, loaded>>
    BY <1>3 DEF Open
  <2>2. CASE loaded
    <3>1. UNCHANGED <<session, alive, responses>>
      BY <1>3, <2>2 DEF Open, child
    <3> QED BY <2>1, <2>2, <3>1 DEF Healthy, Running
  <2>3. CASE ~loaded
    <3>1. session' = session + 1 /\ alive' = alive \cup {session + 1} /\ responses' = <<>>
      BY <1>3, <2>3 DEF Open
    <3> QED BY <2>1, <2>3, <3>1 DEF Healthy, Running
  <2> QED BY <2>2, <2>3
<1>4. CASE Ask
  <2>1. /\ flxAt = "ask" /\ flxAt' = "wait" /\ Running
        /\ UNCHANGED <<flxOutcome, troubled, session, alive, responses>>
    BY <1>4 DEF Ask
  <2> QED BY <2>1 DEF Healthy, Running
<1>5. CASE AskTheDead
  BY <1>5 DEF AskTheDead, Healthy
<1>6. CASE TakeNonsense
  <2>1. ~troubled /\ Waiting /\ ~Fits(Head(responses))
    BY <1>6 DEF TakeNonsense
  <2> QED BY <2>1, Undisturbed
<1>7. CASE Take
  <2>1. ~troubled /\ Waiting /\ flxAt = "wait"
    BY <1>7 DEF Take, Waiting
  <2>2. Tail(responses) = <<>> /\ Running
    BY <2>1, Undisturbed DEF Healthy
  <2>3. \A j \in 1..NComparisons : flxOutcome'[j] \in {"none", "score"}
    <3>1. flxOutcome' = flxOutcome \/ flxOutcome' = [flxOutcome EXCEPT ![flxJob] = "score"]
      BY <1>7 DEF Take
    <3> QED BY <2>1, <3>1 DEF Healthy, FlxInv, Shapes
  <2>4. CASE script' = <<>> /\ flxJob = 0
    <3>1. flxAt' = "call" /\ ~loaded'
      BY <1>7, <2>4 DEF Take
    <3> QED BY <2>3, <3>1
  <2>5. CASE ~(script' = <<>> /\ flxJob = 0)
    <3>1. /\ responses' = Tail(responses) /\ UNCHANGED <<session, alive>>
          /\ flxAt' \in {"call", "ask"}
      BY <1>7, <2>5 DEF Take
    <3> QED BY <2>2, <2>3, <3>1 DEF Running
  <2> QED BY <2>4, <2>5
<1>8. CASE Drift \/ Close
  <2>1. flxAt' \in {"closing", "over"} /\ UNCHANGED <<flxOutcome, troubled>>
    BY <1>8 DEF Drift, Close
  <2> QED BY <2>1 DEF Healthy
<1>9. CASE Serve
  <2>1. PICK ok \in BOOLEAN : responses' = Append(responses, Answer(Head(inbox), ok))
    BY <1>9 DEF Serve
  <2>2. /\ Running /\ inbox # <<>>
        /\ UNCHANGED <<flxAt, loaded, flxOutcome, session, alive, troubled>>
    BY <1>9 DEF Serve, parent
  <2>3. flxAt = "wait" /\ Head(inbox) = Request
    BY <2>2 DEF FlxInv, KeepStep
  <2>4. responses \in Seq(Line) /\ Answer(Request, ok) \in Line /\ IsAnswer(Answer(Request, ok))
    BY <2>3, OnCall, Lines DEF FlxInv, Shapes
  <2>5. \A i \in DOMAIN responses' :
          \/ i \in DOMAIN responses /\ responses'[i] = responses[i]
          \/ responses'[i] = Answer(Request, ok)
    BY <2>1, <2>3, <2>4
  <2>6. \A i \in DOMAIN responses' : IsAnswer(responses'[i])
    BY <2>2, <2>3, <2>4, <2>5 DEF Healthy
  <2> QED BY <2>2, <2>3, <2>6 DEF Healthy, Running
<1> QED BY <1>1, <1>2, <1>3, <1>4, <1>5, <1>6, <1>7, <1>8, <1>9 DEF FlxNext, FlxParent

\* As long as no request is late or refused and no worker fails, every comparison
\* that ends has a score: the worker that validate_environment started and the
\* queue it left behind cost none, and no answer is ever mistaken for another's.
THEOREM NoFailureWithoutACause == FlxSpec => []FailuresHaveACause
<1>1. FlxInit => Healthy
  BY DEF FlxInit, Healthy
<1>2. Healthy => FailuresHaveACause
  BY DEF Healthy, FailuresHaveACause
<1>3. FlxInv /\ Healthy /\ [FlxNext]_flxVars => Healthy'
  BY HealthyKept
<1> QED BY <1>1, <1>2, <1>3, FlxInvariant, PTL DEF FlxSpec

-----------------------------------------------------------------------------
(* The bridge and its client.                                               *)

Answers == {"score", "declined", "machine"}
BridgeLine == [kind : Answers, of : 1..NBridgeJobs] \cup [kind : {"noise", "stray"}]

Pipes == todo \in Seq(1..NBridgeJobs) /\ pipe \in Seq(BridgeLine)

\* A comparison starts one bridge at most and lets one timer fire at most.
OncePerComparison ==
  /\ brAt = "read" => brJob <= NBridgeJobs /\ handle # 0
  /\ started < brJob + (IF brAt = "read" THEN 1 ELSE 0)
  /\ late < brJob + (IF brAt = "read" /\ ~armed THEN 1 ELSE 0)

\* Until a stray line is read, the client and its bridge keep step: nothing is
\* under way between two requests, and within one the only answer in the pipe is
\* the last line of it and answers that request.
InStep ==
  ~strayRead =>
    /\ brAt # "read" => todo = <<>> /\ pipe = <<>>
    /\ brAt = "read" => todo \in {<<>>, <<brJob>>}
    /\ \A i \in DOMAIN pipe : pipe[i].kind \in Answers =>
         i = Len(pipe) /\ todo = <<>> /\ pipe[i].of = brJob

BridgeInv ==
  /\ BridgeTypeOK /\ Pipes /\ OncePerComparison /\ NoBridgeIsLost
  /\ InStep /\ AnswersAreForThePair

LEMMA BridgeLineKinds ==
  \A l \in BridgeLine : /\ l.kind \in {"score", "declined", "machine", "noise", "stray"}
                  /\ l.kind \in Answers => l.of \in 1..NBridgeJobs
  BY DEF BridgeLine, Answers

LEMMA QueuedKinds ==
  \A lines \in Seq(BridgeLine) : \A i \in DOMAIN lines :
    lines[i].kind \in {"score", "declined", "machine", "noise", "stray"}
<1> TAKE lines \in Seq(BridgeLine)
<1> TAKE i \in DOMAIN lines
<1>1. lines[i] \in BridgeLine
  OBVIOUS
<1> QED BY <1>1 DEF BridgeLine, Answers

\* The first line of the pipe, and what is left behind it.
LEMMA Taken ==
  ASSUME Pipes, pipe # <<>>
  PROVE  /\ Head(pipe) = pipe[1] /\ Head(pipe) \in BridgeLine /\ 1 \in DOMAIN pipe
         /\ Tail(pipe) \in Seq(BridgeLine) /\ Len(Tail(pipe)) = Len(pipe) - 1
         /\ \A i \in DOMAIN Tail(pipe) : Tail(pipe)[i] = pipe[i + 1] /\ i + 1 \in DOMAIN pipe
  BY DEF Pipes

LEMMA BridgeInitInv == BridgeInit => BridgeInv
<1> SUFFICES ASSUME BridgeInit PROVE BridgeInv
  OBVIOUS
<1> USE BridgeAssumption DEF BridgeInit
<1>1. BridgeTypeOK
  <2>1. DOMAIN todo = {} /\ DOMAIN pipe = {}
    OBVIOUS
  <2>2. /\ brOutcome \in [1..NBridgeJobs -> {"none", "score", "declined", "internal"}]
        /\ answered \in [1..NBridgeJobs -> 0..NBridgeJobs]
    OBVIOUS
  <2>3. ~armed /\ armed \in BOOLEAN /\ strayRead \in BOOLEAN
    OBVIOUS
  <2> QED BY <2>1, <2>2, <2>3 DEF BridgeTypeOK
<1>2. Pipes /\ OncePerComparison /\ NoBridgeIsLost /\ InStep /\ AnswersAreForThePair
  BY DEF Pipes, OncePerComparison, NoBridgeIsLost, InStep, AnswersAreForThePair
<1> QED BY <1>1, <1>2 DEF BridgeInv

\* The three things that follow every comparison that is stored.
LEMMA StoreInv ==
  ASSUME BridgeInv, Reading,
         NEW outcome \in {"score", "declined", "internal"}, NEW of \in 0..NBridgeJobs,
         Store(outcome, of),
         started' = started, up' \subseteq {handle'}, up' \subseteq up,
         handle' \in 0..started, strayRead' \in BOOLEAN, strayRead => strayRead',
         todo' \in Seq(1..NBridgeJobs), pipe' \in Seq(BridgeLine),
         ~strayRead' => /\ todo' = <<>> /\ pipe' = <<>>
                        /\ outcome \in {"score", "declined"} => of = brJob
  PROVE  BridgeInv'
<1> USE BridgeAssumption DEF BridgeInv, Reading, Store
<1>1. BridgeTypeOK'
  <2>1. brJob \in 1..NBridgeJobs /\ brJob' \in 1..(NBridgeJobs + 1)
    BY DEF BridgeTypeOK, OncePerComparison
  <2>2. \A i \in DOMAIN pipe' : pipe'[i].kind \in {"score", "declined", "machine", "noise", "stray"}
    BY QueuedKinds
  <2>3. \A i \in DOMAIN todo' : todo'[i] \in 1..NBridgeJobs
    OBVIOUS
  <2> QED BY <2>1, <2>2, <2>3 DEF BridgeTypeOK
<1>2. Pipes' /\ NoBridgeIsLost'
  BY DEF Pipes, NoBridgeIsLost
<1>3. OncePerComparison'
  BY DEF OncePerComparison, BridgeTypeOK
<1>4. InStep'
  BY DEF InStep
<1>5. AnswersAreForThePair'
  BY DEF AnswersAreForThePair, BridgeTypeOK, OncePerComparison
<1> QED BY <1>1, <1>2, <1>3, <1>4, <1>5

LEMMA ReadInv ==
  ASSUME BridgeInv,
         ReadAnswer \/ ReadRefusal \/ ReadNoise \/ ReadEnd \/ ReadStray
  PROVE  BridgeInv'
<1> USE DEF BridgeInv
<1>0. /\ handle \in 0..started /\ up \subseteq {handle} /\ strayRead \in BOOLEAN
      /\ todo \in Seq(1..NBridgeJobs) /\ <<>> \in Seq(1..NBridgeJobs) /\ <<>> \in Seq(BridgeLine)
      /\ 0 \in 0..NBridgeJobs /\ started \in Nat
  BY BridgeAssumption DEF BridgeTypeOK, NoBridgeIsLost, Pipes
<1>1. CASE ReadAnswer
  <2>1. /\ Head(pipe).kind \in {"score", "declined"} /\ Head(pipe).of \in 0..NBridgeJobs
        /\ Tail(pipe) \in Seq(BridgeLine)
    BY <1>1, Taken, BridgeLineKinds DEF ReadAnswer, Answers
  <2>2. ~strayRead => todo = <<>> /\ Tail(pipe) = <<>> /\ Head(pipe).of = brJob
    BY <1>1, Taken DEF ReadAnswer, Answers, InStep
  <2> QED BY <1>0, <1>1, <2>1, <2>2, StoreInv DEF ReadAnswer
<1>2. CASE ReadRefusal
  <2>1. Tail(pipe) \in Seq(BridgeLine) /\ (~strayRead => todo = <<>> /\ Tail(pipe) = <<>>)
    BY <1>2, Taken DEF ReadRefusal, Answers, InStep
  <2> QED BY <1>0, <1>2, <2>1, StoreInv DEF ReadRefusal
<1>3. CASE ReadNoise \/ ReadEnd
  <2>1. /\ Reading /\ Store("internal", 0) /\ strayRead' = strayRead /\ started' = started
        /\ handle' = 0 /\ todo' = <<>> /\ pipe' = <<>> /\ up' = up \ {handle}
    BY <1>3 DEF ReadNoise, ReadEnd, HangUp
  <2>2. up' \subseteq {handle'} /\ up' \subseteq up /\ handle' \in 0..started
    BY <1>0, <2>1
  <2> QED BY <1>0, <2>1, <2>2, StoreInv
<1>5. CASE ReadStray
  <2>1. Tail(pipe) \in Seq(BridgeLine)
    BY <1>5, Taken DEF ReadStray
  <2> QED BY <1>0, <1>5, <2>1, StoreInv DEF ReadStray
<1> QED BY <1>1, <1>2, <1>3, <1>5

LEMMA RequestInv ==
  ASSUME BridgeInv, RequestComparison \/ BridgeMissing \/ CloseAdapter
  PROVE  BridgeInv'
<1> USE BridgeAssumption DEF BridgeInv
<1>1. CASE RequestComparison
  <2>1. /\ brJob \in 1..NBridgeJobs /\ <<brJob>> \in Seq(1..NBridgeJobs) /\ <<>> \in Seq(BridgeLine)
        /\ Append(todo, brJob) \in Seq(1..NBridgeJobs)
    BY <1>1 DEF RequestComparison, BridgeTypeOK, Pipes
  <2>2. BridgeTypeOK' /\ Pipes' /\ OncePerComparison' /\ NoBridgeIsLost'
    <3>1. Pipes' /\ NoBridgeIsLost'
      BY <1>1, <2>1 DEF RequestComparison, Dial, BridgeUp, Pipes, NoBridgeIsLost
    <3>2. /\ \A i \in DOMAIN todo' : todo'[i] \in 1..NBridgeJobs
          /\ \A i \in DOMAIN pipe' :
               pipe'[i].kind \in {"score", "declined", "machine", "noise", "stray"}
      BY <3>1, QueuedKinds DEF Pipes
    <3>3. /\ started' \in 0..brJob /\ handle' \in 1..started' /\ up' \subseteq 1..started'
          /\ started \in 0..started'
      <4>1. started \in 0..(brJob - 1) /\ up \subseteq 1..started /\ handle \in 0..started
        BY <1>1, <2>1 DEF RequestComparison, BridgeTypeOK, OncePerComparison
      <4>2. CASE BridgeUp
        <5>1. started' = started /\ handle' = handle /\ up' = up /\ handle \in up
          BY <1>1, <4>2 DEF RequestComparison, Dial, BridgeUp
        <5> QED BY <2>1, <4>1, <5>1
      <4>3. CASE ~BridgeUp
        <5>1. /\ started' = started + 1 /\ handle' = started + 1
              /\ up' = up \cup {started + 1}
          BY <1>1, <4>3 DEF RequestComparison, Dial
        <5> QED BY <2>1, <4>1, <5>1
      <4> QED BY <4>2, <4>3
    <3>4. BridgeTypeOK'
      BY <1>1, <2>1, <3>2, <3>3 DEF RequestComparison, BridgeTypeOK
    <3>5. OncePerComparison'
      BY <1>1, <2>1, <3>3 DEF RequestComparison, BridgeTypeOK, OncePerComparison
    <3> QED BY <3>1, <3>4, <3>5
  <2>3. InStep'
    <3>1. CASE strayRead
      BY <1>1, <3>1 DEF RequestComparison, InStep
    <3>2. CASE ~strayRead
      <4>1. todo = <<>> /\ pipe = <<>>
        BY <1>1, <3>2 DEF RequestComparison, InStep
      <4>2. todo' = <<brJob>> /\ pipe' = <<>>
        BY <1>1, <4>1 DEF RequestComparison, Dial
      <4> QED BY <1>1, <4>2 DEF RequestComparison, InStep
    <3> QED BY <3>1, <3>2
  <2>4. AnswersAreForThePair'
    BY <1>1 DEF RequestComparison, AnswersAreForThePair
  <2> QED BY <2>2, <2>3, <2>4
<1>2. CASE BridgeMissing
  <2> USE <1>2 DEF BridgeMissing, Store, Fault, bridge
  <2>1. BridgeTypeOK' /\ OncePerComparison'
    BY DEF BridgeTypeOK, OncePerComparison
  <2>2. Pipes' /\ NoBridgeIsLost' /\ InStep'
    BY DEF Pipes, NoBridgeIsLost, InStep
  <2>3. AnswersAreForThePair'
    BY DEF AnswersAreForThePair, BridgeTypeOK
  <2> QED BY <2>1, <2>2, <2>3
<1>3. CASE CloseAdapter
  <2> USE <1>3 DEF CloseAdapter, HangUp
  <2>1. BridgeTypeOK' /\ OncePerComparison'
    BY DEF BridgeTypeOK, OncePerComparison
  <2>2. Pipes' /\ NoBridgeIsLost' /\ InStep'
    BY DEF Pipes, NoBridgeIsLost, InStep
  <2>3. AnswersAreForThePair'
    BY DEF AnswersAreForThePair
  <2> QED BY <2>1, <2>2, <2>3
<1> QED BY <1>1, <1>2, <1>3

LEMMA TimerInv ==
  ASSUME BridgeInv, TimerFires \/ TimerKills
  PROVE  BridgeInv'
<1> USE BridgeAssumption DEF BridgeInv, client, bridge
<1>1. CASE TimerFires
  <2> USE <1>1 DEF TimerFires
  <2>1. handle \in 1..started
    BY DEF BridgeTypeOK, OncePerComparison
  <2>0. armed /\ ~armed' /\ armed' \in BOOLEAN
    OBVIOUS
  <2>2. /\ brAt = "read" /\ brJob \in 1..NBridgeJobs /\ late < brJob
        /\ late' = late + 1 /\ ~armed' /\ armed' \in BOOLEAN
    BY <2>0 DEF BridgeTypeOK, OncePerComparison
  <2>4. OncePerComparison'
    BY <2>2 DEF OncePerComparison, BridgeTypeOK
  <2>5. BridgeTypeOK'
    BY <2>1, <2>2 DEF BridgeTypeOK
  <2>3. Pipes' /\ NoBridgeIsLost' /\ InStep' /\ AnswersAreForThePair'
    BY DEF Pipes, NoBridgeIsLost, InStep, AnswersAreForThePair
  <2> QED BY <2>3, <2>4, <2>5
<1>2. CASE TimerKills
  <2> USE <1>2 DEF TimerKills
  <2>1. BridgeTypeOK' /\ OncePerComparison'
    BY DEF BridgeTypeOK, OncePerComparison
  <2>2. Pipes' /\ NoBridgeIsLost' /\ InStep' /\ AnswersAreForThePair'
    BY DEF Pipes, NoBridgeIsLost, InStep, AnswersAreForThePair
  <2> QED BY <2>1, <2>2
<1> QED BY <1>1, <1>2

LEMMA BridgeProcessInv ==
  ASSUME BridgeInv, BridgeAnswers \/ LibraryPrints \/ BridgeDies
  PROVE  BridgeInv'
<1> USE BridgeAssumption DEF BridgeInv, client, Fault
<1>1. CASE BridgeAnswers
  <2> USE <1>1 DEF BridgeAnswers
  <2>1. PICK kind \in Answers : pipe' = Append(pipe, [kind |-> kind, of |-> Head(todo)])
    BY DEF Answers
  <2>2. Head(todo) \in 1..NBridgeJobs /\ Tail(todo) \in Seq(1..NBridgeJobs)
    BY DEF Pipes
  <2>3. [kind |-> kind, of |-> Head(todo)] \in BridgeLine
    BY <2>2 DEF BridgeLine
  <2>4. Pipes'
    BY <2>1, <2>2, <2>3 DEF Pipes
  <2>7. OncePerComparison' /\ NoBridgeIsLost' /\ AnswersAreForThePair'
    BY DEF OncePerComparison, NoBridgeIsLost, AnswersAreForThePair
  <2>8. brFaults' \in 0..BridgeMaxFaults
    BY DEF BridgeTypeOK
  <2>9. /\ \A i \in DOMAIN todo' : todo'[i] \in 1..NBridgeJobs
        /\ \A i \in DOMAIN pipe' :
             pipe'[i].kind \in {"score", "declined", "machine", "noise", "stray"}
    <3>1. todo' \in Seq(1..NBridgeJobs) /\ pipe' \in Seq(BridgeLine)
      BY <2>4 DEF Pipes
    <3>2. \A s \in Seq(1..NBridgeJobs) : \A i \in DOMAIN s : s[i] \in 1..NBridgeJobs
      OBVIOUS
    <3> QED BY <3>1, <3>2, QueuedKinds, Zenon
  <2>5. BridgeTypeOK'
    BY <2>8, <2>9 DEF BridgeTypeOK
  <2>6. InStep'
    <3> SUFFICES ASSUME ~strayRead PROVE InStep'
      BY DEF InStep
    <3>1. brAt = "read" /\ todo = <<brJob>>
      BY DEF InStep, BridgeTypeOK
    <3>2. \A i \in DOMAIN pipe : pipe[i].kind \notin Answers
      BY <3>1 DEF InStep
    <3>3. todo' = <<>> /\ Head(todo) = brJob
      BY <3>1
    <3>4. /\ Len(pipe') = Len(pipe) + 1 /\ pipe'[Len(pipe')].of = brJob
          /\ \A i \in DOMAIN pipe' : i # Len(pipe') => i \in DOMAIN pipe /\ pipe'[i] = pipe[i]
      BY <2>1, <2>3, <3>3 DEF Pipes
    <3> QED BY <3>1, <3>2, <3>3, <3>4 DEF InStep
  <2> QED BY <2>4, <2>5, <2>6, <2>7
<1>2. CASE LibraryPrints
  <2> USE <1>2 DEF LibraryPrints
  <2>1. PICK kind \in {"noise", "stray"} : pipe' = Append(pipe, [kind |-> kind])
    OBVIOUS
  <2>2. [kind |-> kind] \in BridgeLine /\ [kind |-> kind].kind \notin Answers
    BY DEF BridgeLine, Answers
  <2>3. Pipes'
    BY <2>1, <2>2 DEF Pipes
  <2>4. BridgeTypeOK' /\ OncePerComparison' /\ NoBridgeIsLost' /\ AnswersAreForThePair'
    BY <2>3, BridgeLineKinds DEF Pipes, BridgeTypeOK, OncePerComparison, NoBridgeIsLost, AnswersAreForThePair
  <2>5. \A i \in DOMAIN pipe' :
          \/ i = Len(pipe') /\ pipe'[i] = [kind |-> kind]
          \/ i \in DOMAIN pipe /\ pipe'[i] = pipe[i]
    BY <2>1, <2>2 DEF Pipes
  <2>6. InStep'
    BY <2>2, <2>5 DEF InStep
  <2> QED BY <2>3, <2>4, <2>6
<1>3. CASE BridgeDies
  <2> USE <1>3 DEF BridgeDies
  <2>1. BridgeTypeOK' /\ OncePerComparison'
    BY DEF BridgeTypeOK, OncePerComparison
  <2>2. Pipes' /\ NoBridgeIsLost' /\ InStep' /\ AnswersAreForThePair'
    BY DEF Pipes, NoBridgeIsLost, InStep, AnswersAreForThePair
  <2> QED BY <2>1, <2>2
<1> QED BY <1>1, <1>2, <1>3

LEMMA BridgeStepInv == BridgeInv /\ [BridgeNext]_bridgeVars => BridgeInv'
<1> SUFFICES ASSUME BridgeInv, [BridgeNext]_bridgeVars PROVE BridgeInv'
  OBVIOUS
<1>1. CASE UNCHANGED bridgeVars
  BY <1>1 DEF bridgeVars, client, bridge, BridgeInv, BridgeTypeOK, Pipes, OncePerComparison,
     NoBridgeIsLost, InStep, AnswersAreForThePair
<1>2. CASE BridgeNext
  BY <1>2, ReadInv, RequestInv, TimerInv, BridgeProcessInv DEF BridgeNext, BridgeClient, BridgeTimer
<1> QED BY <1>1, <1>2

\* Every state of the client and its bridges is well typed; in particular no
\* comparison starts two bridges or lets two timers fire.
THEOREM BridgeTypeCorrect == BridgeSpec => []BridgeTypeOK
<1>1. BridgeInv => BridgeTypeOK
  BY DEF BridgeInv
<1> QED BY <1>1, BridgeInitInv, BridgeStepInv, PTL DEF BridgeSpec

\* BridgeWorker.compare answers a pair with the answer to that pair, however the
\* bridge and its timer fail, as long as no line that is JSON but no response is
\* read; a response carries nothing that says which request it answers.
THEOREM AnswersMatchRequests == BridgeSpec => []AnswersAreForThePair
<1>1. BridgeInv => AnswersAreForThePair
  BY DEF BridgeInv
<1> QED BY <1>1, BridgeInitInv, BridgeStepInv, PTL DEF BridgeSpec

\* The client never has a bridge beside the one it holds, and none once closed.
THEOREM OneBridge == BridgeSpec => []NoBridgeIsLost
<1>1. BridgeInv => NoBridgeIsLost
  BY DEF BridgeInv
<1> QED BY <1>1, BridgeInitInv, BridgeStepInv, PTL DEF BridgeSpec

-----------------------------------------------------------------------------
(* What a fault costs the walk over the bridge.                              *)

Costly == {"machine", "noise", "stray"}
BadOf(lines) == {i \in DOMAIN lines : lines[i].kind \in Costly}

Internal == {j \in 1..NBridgeJobs : brOutcome[j] = "internal"}

\* The bridge the client holds is dead, or its timer is about to kill it.
Doomed == handle # 0 /\ (~BridgeUp \/ handle \in loose)

Costs == Cardinality(Internal)
Waits == Cardinality(BadOf(pipe))
Risk == IF Doomed THEN 1 ELSE 0
Dues == brFaults + late

\* Every fault and every late answer is paid for once: by a comparison it has
\* cost, by a line that is still to be read, or by a bridge about to be missed.
Paid == Costs + Waits + Risk <= Dues

LEMMA BadIsFinite ==
  ASSUME NEW lines \in Seq(BridgeLine)
  PROVE  IsFiniteSet(BadOf(lines)) /\ Cardinality(BadOf(lines)) \in Nat
<1>1. Len(lines) \in Nat /\ BadOf(lines) \in SUBSET (1..Len(lines))
  BY DEF BadOf
<1>2. IsFiniteSet(1..Len(lines))
  BY <1>1, FS_Interval
<1>3. IsFiniteSet(BadOf(lines))
  BY <1>1, <1>2, FS_Subset
<1> QED BY <1>3, FS_CardinalityType

\* A costly line that is read is one fewer in the pipe.
LEMMA BadTail ==
  ASSUME NEW lines \in Seq(BridgeLine), lines # <<>>
  PROVE  Cardinality(BadOf(Tail(lines))) <=
           Cardinality(BadOf(lines)) - (IF Head(lines).kind \in Costly THEN 1 ELSE 0)
<1> DEFINE S == BadOf(Tail(lines))
           T == BadOf(lines) \ {1}
           f == [i \in S |-> i + 1]
<1>1. /\ Head(lines) = lines[1] /\ 1 \in DOMAIN lines /\ Tail(lines) \in Seq(BridgeLine)
      /\ \A i \in DOMAIN Tail(lines) :
           i \in Nat \ {0} /\ Tail(lines)[i] = lines[i + 1] /\ i + 1 \in DOMAIN lines
  OBVIOUS
<1>2. \A i \in S : i + 1 \in T /\ i \in Nat
  BY <1>1 DEF BadOf
<1>3. f \in Injection(S, T)
  <2>1. f \in [S -> T] /\ \A i \in S : f[i] = i + 1
    BY <1>2
  <2>2. \A i, k \in S : f[i] = f[k] => i = k
    <3> HIDE DEF S, T, f
    <3> QED BY <1>2, <2>1
  <2> HIDE DEF S, T, f
  <2> QED BY <2>1, <2>2 DEF Injection, IsInjective
<1>4. 1 \in BadOf(lines) <=> Head(lines).kind \in Costly
  BY <1>1 DEF BadOf
<1>5. IsFiniteSet(BadOf(lines)) /\ Cardinality(BadOf(lines)) \in Nat
  BY BadIsFinite
<1>6. IsFiniteSet(T) /\ Cardinality(T) =
        IF 1 \in BadOf(lines) THEN Cardinality(BadOf(lines)) - 1 ELSE Cardinality(BadOf(lines))
  BY <1>5, FS_RemoveElement
<1>7. Cardinality(S) <= Cardinality(T)
  BY <1>3, <1>6, FS_Injection
<1>8. Cardinality(S) \in Nat
  BY <1>1, BadIsFinite
<1> QED BY <1>4, <1>5, <1>6, <1>7, <1>8

\* A line that is written costs at most itself.
LEMMA BadAppend ==
  ASSUME NEW lines \in Seq(BridgeLine), NEW line \in BridgeLine
  PROVE  Cardinality(BadOf(Append(lines, line))) <=
           Cardinality(BadOf(lines)) + (IF line.kind \in Costly THEN 1 ELSE 0)
<1> DEFINE more == Append(lines, line)
           last == Len(lines) + 1
<1>1. /\ more \in Seq(BridgeLine) /\ Len(lines) \in Nat
      /\ \A i \in DOMAIN more : \/ i = last /\ more[i] = line
                                \/ i \in DOMAIN lines /\ more[i] = lines[i]
  OBVIOUS
<1>2. IsFiniteSet(BadOf(lines)) /\ Cardinality(BadOf(lines)) \in Nat
  BY BadIsFinite
<1>3. Cardinality(BadOf(more)) \in Nat
  BY <1>1, BadIsFinite
<1>4. CASE line.kind \in Costly
  <2>1. BadOf(more) \in SUBSET (BadOf(lines) \cup {last})
    BY <1>1 DEF BadOf
  <2>2. IsFiniteSet(BadOf(lines) \cup {last}) /\ Cardinality(BadOf(lines) \cup {last}) =
          IF last \in BadOf(lines) THEN Cardinality(BadOf(lines)) ELSE Cardinality(BadOf(lines)) + 1
    BY <1>2, FS_AddElement
  <2>3. Cardinality(BadOf(more)) <= Cardinality(BadOf(lines) \cup {last})
    BY <2>1, <2>2, FS_Subset
  <2> QED BY <1>2, <1>3, <1>4, <2>2, <2>3
<1>5. CASE line.kind \notin Costly
  <2>1. BadOf(more) \in SUBSET BadOf(lines)
    BY <1>1, <1>5 DEF BadOf
  <2> QED BY <1>2, <1>5, <2>1, FS_Subset
<1> QED BY <1>4, <1>5

LEMMA NothingBad == Cardinality(BadOf(<<>>)) = 0
<1>1. BadOf(<<>>) = {}
  BY DEF BadOf
<1> QED BY <1>1, FS_EmptySet

LEMMA InternalIsFinite == IsFiniteSet(Internal) /\ Costs \in Nat
<1>1. IsFiniteSet(1..NBridgeJobs) /\ Internal \in SUBSET (1..NBridgeJobs)
  BY BridgeAssumption, FS_Interval DEF Internal
<1>2. IsFiniteSet(Internal)
  BY <1>1, FS_Subset
<1> QED BY <1>2, FS_CardinalityType DEF Costs

Amounts == Costs \in Nat /\ Waits \in Nat /\ Risk \in 0..1 /\ Dues \in Nat

LEMMA AmountsHold == BridgeInv => Amounts
<1> SUFFICES ASSUME BridgeInv PROVE Amounts
  OBVIOUS
<1>1. brFaults \in Nat /\ late \in Nat
  BY BridgeAssumption DEF BridgeInv, BridgeTypeOK
<1>2. Dues \in Nat
  BY <1>1 DEF Dues
<1>3. Waits \in Nat
  BY BadIsFinite DEF BridgeInv, Pipes, Waits
<1>4. Risk \in 0..1
  BY DEF Risk
<1> QED BY <1>2, <1>3, <1>4, InternalIsFinite DEF Amounts

LEMMA AmountsHoldNext == BridgeInv' => Amounts'
  BY AmountsHold, PTL

LEMMA HeadOf ==
  ASSUME NEW S, NEW s \in Seq(S), s # <<>>
  PROVE  Head(s) \in S
  OBVIOUS

\* The amounts before and after a step that charges nothing, and after one that
\* does.
LEMMA Ledger ==
  ASSUME NEW a \in Nat, NEW b \in Nat, NEW d \in 0..1, NEW m \in Nat,
         NEW c \in Nat, NEW w \in Nat, NEW r \in 0..1,
         a + b + d <= m,
         \/ (c <= a \/ c = a) /\ w <= b /\ r = d
         \/ c <= a + 1 /\ w <= b - 1 /\ r = d
         \/ c = a /\ w = b /\ 1 <= d
         \/ c = a /\ w = b /\ r = 0
         \/ c = a /\ w = 0 /\ r = 0
  PROVE  c + w + r <= m
  OBVIOUS

LEMMA WrittenOff ==
  ASSUME NEW a \in Nat, NEW b \in Nat, NEW d \in 0..1, NEW m \in Nat, NEW c \in Nat,
         a + b + d <= m, c <= a + 1, 1 <= b \/ 1 <= d
  PROVE  c + 0 + 0 <= m
  OBVIOUS

LEMMA Charge ==
  ASSUME NEW a \in Nat, NEW b \in Nat, NEW d \in 0..1, NEW m \in Nat,
         NEW c \in Nat, NEW w \in Nat, NEW r \in 0..1,
         a + b + d <= m,
         \/ c <= a + 1 /\ w = b /\ r = d
         \/ c = a /\ w <= b + 1 /\ r = d
         \/ c = a /\ w = b
  PROVE  c + w + r <= m + 1
  OBVIOUS

\* What is stored of a comparison costs that comparison at most.
LEMMA OneMoreInternal ==
  ASSUME BridgeInv, NEW outcome, brOutcome' = [brOutcome EXCEPT ![brJob] = outcome]
  PROVE  /\ outcome = "internal" => Costs' <= Costs + 1
         /\ outcome # "internal" => Costs' <= Costs
<1>1. IsFiniteSet(Internal) /\ Costs \in Nat
  BY InternalIsFinite
<1>2. brOutcome \in [1..NBridgeJobs -> {"none", "score", "declined", "internal"}]
  BY DEF BridgeInv, BridgeTypeOK
<1>3. ASSUME outcome = "internal" PROVE Costs' <= Costs + 1
  <2>1. Internal' \in SUBSET (Internal \cup {brJob})
    BY <1>2 DEF Internal
  <2>2. IsFiniteSet(Internal \cup {brJob}) /\ Cardinality(Internal \cup {brJob}) <= Costs + 1
    <3>1. /\ IsFiniteSet(Internal \cup {brJob})
          /\ Cardinality(Internal \cup {brJob}) = IF brJob \in Internal THEN Costs ELSE Costs + 1
      BY <1>1, FS_AddElement DEF Costs
    <3> QED BY <1>1, <3>1
  <2>3. /\ Cardinality(Internal') <= Cardinality(Internal \cup {brJob})
        /\ Cardinality(Internal') \in Nat /\ Cardinality(Internal \cup {brJob}) \in Nat
    BY <2>1, <2>2, FS_Subset, FS_CardinalityType
  <2>4. Costs' = Cardinality(Internal')
    BY DEF Costs
  <2> QED BY <1>1, <2>2, <2>3, <2>4
<1>4. ASSUME outcome # "internal" PROVE Costs' <= Costs
  <2>1. Internal' \in SUBSET Internal
    BY <1>2, <1>4 DEF Internal
  <2> QED BY <1>1, <2>1, FS_Subset DEF Costs
<1> QED BY <1>3, <1>4

LEMMA NothingStored == brOutcome' = brOutcome => Costs' = Costs
  BY DEF Costs, Internal

LEMMA SamePipe == pipe' = pipe => Waits' = Waits
  BY DEF Waits

LEMMA NewPipe == pipe' = <<>> => Waits' = 0
  BY NothingBad DEF Waits

LEMMA LineRead ==
  ASSUME BridgeInv, pipe # <<>>, pipe' = Tail(pipe)
  PROVE  Waits' <= Waits /\ (Head(pipe).kind \in Costly => Waits' <= Waits - 1)
<1>1. pipe \in Seq(BridgeLine) /\ Waits \in Nat
  BY AmountsHold DEF Amounts, BridgeInv, Pipes
<1>2. Waits' <= Waits - (IF Head(pipe).kind \in Costly THEN 1 ELSE 0)
  BY <1>1, BadTail DEF Waits
<1>3. Waits' \in Nat
  <2>1. pipe' \in Seq(BridgeLine)
    BY <1>1
  <2> QED BY <2>1, BadIsFinite DEF Waits
<1> QED BY <1>1, <1>2, <1>3

LEMMA CostlyLineCounts ==
  ASSUME BridgeInv, pipe # <<>>, Head(pipe).kind \in Costly
  PROVE  1 <= Waits
<1>1. pipe \in Seq(BridgeLine) /\ Waits \in Nat /\ Tail(pipe) \in Seq(BridgeLine)
  BY AmountsHold DEF Amounts, BridgeInv, Pipes
<1>2. Cardinality(BadOf(Tail(pipe))) <= Waits - 1 /\ Cardinality(BadOf(Tail(pipe))) \in Nat
  BY <1>1, BadTail, BadIsFinite DEF Waits
<1> QED BY <1>1, <1>2

LEMMA LineWritten ==
  ASSUME BridgeInv, NEW line \in BridgeLine, pipe' = Append(pipe, line)
  PROVE  Waits' <= Waits + 1 /\ (line.kind \notin Costly => Waits' <= Waits)
<1>1. pipe \in Seq(BridgeLine) /\ pipe' \in Seq(BridgeLine) /\ Waits \in Nat
  BY AmountsHold DEF Amounts, BridgeInv, Pipes
<1>2. Waits' <= Waits + (IF line.kind \in Costly THEN 1 ELSE 0) /\ Waits' \in Nat
  BY <1>1, BadAppend, BadIsFinite DEF Waits
<1> QED BY <1>1, <1>2

LEMMA SameBridge ==
  ASSUME UNCHANGED <<handle, up, loose>> PROVE Risk' = Risk
  BY DEF Risk, Doomed, BridgeUp

LEMMA SameDues == UNCHANGED <<brFaults, late>> => Dues' = Dues
  BY DEF Dues

LEMMA OneMoreDue ==
  ASSUME BridgeInv, \/ brFaults' = brFaults + 1 /\ late' = late
                    \/ brFaults' = brFaults /\ late' = late + 1
  PROVE  Dues' = Dues + 1
<1>1. brFaults \in Nat /\ late \in Nat
  BY BridgeAssumption DEF BridgeInv, BridgeTypeOK
<1> QED BY <1>1 DEF Dues

\* The client's half: what it reads of the bridge.
LEMMA ReadingPays ==
  ASSUME BridgeInv, BridgeInv', Paid,
         ReadAnswer \/ ReadRefusal \/ ReadStray \/ ReadNoise \/ ReadEnd
  PROVE  Paid'
<1>1. /\ Costs \in Nat /\ Waits \in Nat /\ Risk \in 0..1 /\ Dues \in Nat
      /\ Costs' \in Nat /\ Waits' \in Nat /\ Risk' \in 0..1 /\ Dues' \in Nat
  BY AmountsHold, AmountsHoldNext DEF Amounts
<1>2. CASE ReadAnswer \/ ReadRefusal \/ ReadStray
  <2>1. PICK outcome : /\ brOutcome' = [brOutcome EXCEPT ![brJob] = outcome]
                       /\ outcome = "internal" => Head(pipe).kind \in Costly
    BY <1>2 DEF ReadAnswer, ReadRefusal, ReadStray, Store, Costly
  <2>2. /\ pipe # <<>> /\ pipe' = Tail(pipe)
        /\ UNCHANGED <<handle, up, loose, brFaults, late>>
    BY <1>2 DEF ReadAnswer, ReadRefusal, ReadStray, Reading
  <2>3. Risk' = Risk /\ Dues' = Dues
    BY <2>2, SameBridge, SameDues
  <2>4. Waits' <= Waits /\ (Head(pipe).kind \in Costly => Waits' <= Waits - 1)
    BY <2>2, LineRead
  <2>5. CASE outcome = "internal"
    <3>1. Costs' <= Costs + 1 /\ Waits' <= Waits - 1
      BY <2>1, <2>4, <2>5, OneMoreInternal
    <3> QED BY <1>1, <2>3, <3>1, Ledger, Zenon DEF Paid
  <2>6. CASE outcome # "internal"
    <3>1. Costs' <= Costs
      BY <2>1, <2>6, OneMoreInternal
    <3> QED BY <1>1, <2>3, <2>4, <3>1, Ledger, Zenon DEF Paid
  <2> QED BY <2>5, <2>6
<1>3. CASE ReadNoise \/ ReadEnd
  <2>1. /\ brOutcome' = [brOutcome EXCEPT ![brJob] = "internal"]
        /\ UNCHANGED <<brFaults, late>> /\ pipe' = <<>> /\ handle' = 0
    BY <1>3 DEF ReadNoise, ReadEnd, HangUp, Reading, Store
  <2>2. Costs' <= Costs + 1 /\ Dues' = Dues /\ Waits' = 0
    BY <2>1, OneMoreInternal, SameDues, NewPipe
  <2>3. Risk' = 0
    BY <2>1 DEF Risk, Doomed
  <2>4. 1 <= Waits \/ 1 <= Risk
    <3>1. CASE ReadNoise
      BY <3>1, CostlyLineCounts DEF ReadNoise, Costly
    <3>2. CASE ReadEnd
      <4>1. Doomed
        BY <3>2 DEF ReadEnd, Reading, BridgeInv, OncePerComparison, Doomed
      <4> QED BY <4>1 DEF Risk
    <3> QED BY <1>3, <3>1, <3>2
  <2>5. Costs' <= Costs + 1
    BY <2>2
  <2>6. Costs' + 0 + 0 <= Dues
    BY <1>1, <2>4, <2>5, WrittenOff, Zenon DEF Paid
  <2> QED BY <2>2, <2>3, <2>6 DEF Paid
<1> QED BY <1>2, <1>3

\* What it does before a request and after the last, and what its timer does.
LEMMA AskingPays ==
  ASSUME BridgeInv, BridgeInv', Paid,
         \/ RequestComparison \/ BridgeMissing \/ CloseAdapter \/ TimerFires \/ TimerKills
  PROVE  Paid'
<1>1. /\ Costs \in Nat /\ Waits \in Nat /\ Risk \in 0..1 /\ Dues \in Nat
      /\ Costs' \in Nat /\ Waits' \in Nat /\ Risk' \in 0..1 /\ Dues' \in Nat
  BY AmountsHold, AmountsHoldNext DEF Amounts
<1>2. CASE BridgeMissing
  <2>1. /\ brOutcome' = [brOutcome EXCEPT ![brJob] = "internal"] /\ pipe' = pipe
        /\ UNCHANGED <<handle, up, loose, late>> /\ brFaults' = brFaults + 1
    BY <1>2 DEF BridgeMissing, Store, bridge, Fault
  <2>2. Costs' <= Costs + 1 /\ Waits' = Waits /\ Risk' = Risk /\ Dues' = Dues + 1
    BY <2>1, OneMoreInternal, SamePipe, SameBridge, OneMoreDue
  <2> QED BY <1>1, <2>2, Charge, Zenon DEF Paid
<1>3. CASE RequestComparison
  <2>1. UNCHANGED <<brOutcome, brFaults, late, loose>> /\ Dial
    BY <1>3 DEF RequestComparison
  <2>2. Costs' = Costs /\ Dues' = Dues
    BY <2>1, NothingStored, SameDues
  <2>3. CASE BridgeUp
    <3>1. UNCHANGED <<handle, up, pipe>>
      BY <2>1, <2>3 DEF Dial
    <3>2. Waits' = Waits /\ Risk' = Risk
      BY <2>1, <3>1, SamePipe, SameBridge
    <3> QED BY <1>1, <2>2, <3>2, Ledger, Zenon DEF Paid
  <2>4. CASE ~BridgeUp
    <3>1. handle' = started + 1 /\ up' = up \cup {started + 1} /\ pipe' = <<>>
      BY <2>1, <2>4 DEF Dial
    <3>2. loose \subseteq 1..started /\ started \in Nat
      BY DEF BridgeInv, BridgeTypeOK
    <3>3. Risk' = 0
      BY <2>1, <3>1, <3>2 DEF Risk, Doomed, BridgeUp
    <3>4. Waits' = 0
      BY <3>1, NewPipe
    <3> QED BY <1>1, <2>2, <3>3, <3>4, Ledger, Zenon DEF Paid
  <2> QED BY <2>3, <2>4
<1>4. CASE CloseAdapter
  <2>1. UNCHANGED <<brOutcome, brFaults, late>> /\ handle' = 0 /\ pipe' = <<>>
    BY <1>4 DEF CloseAdapter, HangUp
  <2>2. Costs' = Costs /\ Dues' = Dues /\ Waits' = 0
    BY <2>1, NothingStored, SameDues, NewPipe
  <2>3. Risk' = 0
    BY <2>1 DEF Risk, Doomed
  <2> QED BY <1>1, <2>2, <2>3, Ledger, Zenon DEF Paid
<1>5. CASE TimerFires
  <2>1. UNCHANGED <<brOutcome, brFaults, pipe>> /\ late' = late + 1
    BY <1>5 DEF TimerFires, client, bridge
  <2>2. Costs' = Costs /\ Waits' = Waits /\ Dues' = Dues + 1
    BY <2>1, NothingStored, SamePipe, OneMoreDue
  <2> QED BY <1>1, <2>2, Charge, Zenon DEF Paid
<1>6. CASE TimerKills
  <2>1. /\ UNCHANGED <<brOutcome, brFaults, late, pipe, handle>>
        /\ \E b \in loose : loose' = loose \ {b} /\ up' = up \ {b}
    BY <1>6 DEF TimerKills, client
  <2>2. Costs' = Costs /\ Waits' = Waits /\ Dues' = Dues
    BY <2>1, NothingStored, SamePipe, SameDues
  <2>3. Doomed' => Doomed
    BY <2>1 DEF Doomed, BridgeUp
  <2>4. CASE Doomed
    <3>1. 1 <= Risk
      BY <2>4 DEF Risk
    <3>2. Costs' + Waits' + Risk' <= Dues
      BY <1>1, <2>2, <3>1, Ledger, Zenon DEF Paid
    <3> QED BY <2>2, <3>2 DEF Paid
  <2>5. CASE ~Doomed
    <3>1. Risk' = 0
      BY <2>3, <2>5 DEF Risk
    <3>2. Costs' + Waits' + Risk' <= Dues
      BY <1>1, <2>2, <3>1, Ledger, Zenon DEF Paid
    <3> QED BY <2>2, <3>2 DEF Paid
  <2> QED BY <2>4, <2>5
<1> QED BY <1>2, <1>3, <1>4, <1>5, <1>6

LEMMA BridgePays ==
  ASSUME BridgeInv, BridgeInv', Paid, BridgeAnswers \/ LibraryPrints \/ BridgeDies
  PROVE  Paid'
<1>1. /\ Costs \in Nat /\ Waits \in Nat /\ Risk \in 0..1 /\ Dues \in Nat
      /\ Costs' \in Nat /\ Waits' \in Nat /\ Risk' \in 0..1 /\ Dues' \in Nat
  BY AmountsHold, AmountsHoldNext DEF Amounts
<1>2. brOutcome' = brOutcome /\ late' = late
  BY DEF BridgeAnswers, LibraryPrints, BridgeDies, client
<1>3. Costs' = Costs
  BY <1>2, NothingStored
<1>4. CASE BridgeAnswers
  <2>1. PICK kind \in Answers :
          /\ pipe' = Append(pipe, [kind |-> kind, of |-> Head(todo)])
          /\ kind = "machine" => brFaults' = brFaults + 1
          /\ kind # "machine" => brFaults' = brFaults
    BY <1>4 DEF BridgeAnswers, Answers, Fault
  <2> DEFINE line == [kind |-> kind, of |-> Head(todo)]
  <2>2. line \in BridgeLine
    <3>1. todo \in Seq(1..NBridgeJobs) /\ todo # <<>>
      BY <1>4 DEF BridgeAnswers, BridgeInv, Pipes
    <3>2. Head(todo) \in 1..NBridgeJobs
      BY <3>1, HeadOf, Zenon
    <3> QED BY <3>2 DEF BridgeLine
  <2>3. Waits' <= Waits + 1 /\ (line.kind \notin Costly => Waits' <= Waits)
    BY <2>1, <2>2, LineWritten
  <2>4. UNCHANGED <<handle, up, loose>>
    BY <1>4 DEF BridgeAnswers
  <2>5. Risk' = Risk
    BY <2>4, SameBridge
  <2>6. CASE kind = "machine"
    <3>1. Dues' = Dues + 1
      BY <1>2, <2>1, <2>6, OneMoreDue
    <3> QED BY <1>1, <1>3, <2>3, <2>5, <3>1, Charge, Zenon DEF Paid
  <2>7. CASE kind # "machine"
    <3>1. Dues' = Dues /\ Waits' <= Waits
      BY <1>2, <2>1, <2>3, <2>7, SameDues DEF Costly, Answers
    <3> QED BY <1>1, <1>3, <2>5, <3>1, Ledger, Zenon DEF Paid
  <2> QED BY <2>6, <2>7
<1>5. CASE LibraryPrints
  <2>1. brFaults' = brFaults + 1 /\ UNCHANGED <<handle, up, loose>>
    BY <1>5 DEF LibraryPrints, Fault
  <2>2. PICK kind \in {"noise", "stray"} : pipe' = Append(pipe, [kind |-> kind])
    BY <1>5 DEF LibraryPrints
  <2>3. [kind |-> kind] \in BridgeLine
    BY DEF BridgeLine
  <2>4. Waits' <= Waits + 1
    BY <2>2, <2>3, LineWritten
  <2>5. Risk' = Risk /\ Dues' = Dues + 1
    BY <1>2, <2>1, SameBridge, OneMoreDue
  <2> QED BY <1>1, <1>3, <2>4, <2>5, Charge, Zenon DEF Paid
<1>6. CASE BridgeDies
  <2>1. brFaults' = brFaults + 1 /\ pipe' = pipe
    BY <1>6 DEF BridgeDies, Fault
  <2>2. Waits' = Waits /\ Dues' = Dues + 1
    BY <1>2, <2>1, SamePipe, OneMoreDue
  <2> QED BY <1>1, <1>3, <2>2, Charge, Zenon DEF Paid
<1> QED BY <1>4, <1>5, <1>6

LEMMA PaidKept ==
  ASSUME BridgeInv, Paid, [BridgeNext]_bridgeVars
  PROVE  Paid'
<1>1. BridgeInv'
  BY BridgeStepInv
<1>2. CASE UNCHANGED bridgeVars
  <2>1. UNCHANGED <<brOutcome, brFaults, late, pipe, handle, up, loose>>
    BY <1>2 DEF bridgeVars, client, bridge
  <2>2. Costs' = Costs /\ Waits' = Waits /\ Risk' = Risk /\ Dues' = Dues
    BY <2>1, NothingStored, SamePipe, SameBridge, SameDues
  <2> QED BY <2>2 DEF Paid
<1>3. CASE BridgeNext
  BY <1>1, <1>3, ReadingPays, AskingPays, BridgePays
  DEF BridgeNext, BridgeClient, BridgeTimer
<1> QED BY <1>2, <1>3

LEMMA PaidFromTheStart == BridgeInit => Paid
<1> SUFFICES ASSUME BridgeInit PROVE Paid
  OBVIOUS
<1>1. Internal = {} /\ ~Doomed /\ pipe = <<>> /\ brFaults = 0 /\ late = 0
  BY DEF BridgeInit, Internal, Doomed
<1>2. Costs = 0 /\ Waits = 0
  BY <1>1, FS_EmptySet, NothingBad DEF Costs, Waits
<1>3. Risk = 0 /\ Dues = 0
  BY <1>1 DEF Risk, Dues
<1> QED BY <1>2, <1>3 DEF Paid

\* BridgeWorker.compare replaces a bridge that failed: no fault and no late answer
\* costs more than one comparison, whichever comparison that is.
THEOREM EachFaultCostsOne == BridgeSpec => []OneFaultOneFailure
<1>1. BridgeInv /\ Paid => OneFaultOneFailure
  <2> SUFFICES ASSUME BridgeInv, Paid PROVE OneFaultOneFailure
    OBVIOUS
  <2>1. Costs <= Dues
    BY AmountsHold DEF Amounts, Paid
  <2> QED BY <2>1 DEF Costs, Dues, Internal, OneFaultOneFailure
<1>2. BridgeInv /\ Paid /\ [BridgeNext]_bridgeVars => BridgeInv' /\ Paid'
  BY BridgeStepInv, PaidKept
<1> QED BY <1>1, <1>2, BridgeInitInv, PaidFromTheStart, PTL DEF BridgeSpec

-----------------------------------------------------------------------------
(* An external tool and the processes it starts.                            *)

\* Which way out a call is on, and where the tool is on it.
OnTheWay ==
  /\ treeAt = "launch" => born = {} /\ container = {}
  /\ treeAt \notin {"launch", "over"} => Tool \in born
  /\ treeAt \in {"assign", "taskkill", "job"} => platform = "windows"
  /\ treeAt \in {"term", "grace", "kill", "last", "reap", "prove"} => platform = "posix"
  /\ treeAt = "assign" => container = {}
  /\ platform = "posix" /\ treeAt \notin {"launch", "over"} => Tool \in container
  /\ treeAt = "prove" => Tool \notin running \cup zombies

\* After SIGKILL the group no longer grows: only its members could start more.
KilledIsGone ==
  treeAt \in {"last", "reap", "prove"} /\ osFaults = 0 => container \cap running = {}

TreeInv == TreeTypeOK /\ OnTheWay /\ TimedOutIsGone /\ KilledIsGone

LEMMA TreeInitInv == TreeInit => TreeInv
<1> SUFFICES ASSUME TreeInit PROVE TreeInv
  OBVIOUS
<1>1. TreeTypeOK
  <2>1. platform \in Platforms /\ treeAt = "launch" /\ result = "none"
    BY DEF TreeInit
  <2>2. born = {} /\ running = {} /\ zombies = {} /\ container = {} /\ osFaults = 0
    BY DEF TreeInit
  <2>3. lateExit \in BOOLEAN
    BY DEF TreeInit
  <2> QED BY <2>1, <2>2, <2>3, TreeAssumption DEF TreeTypeOK
<1>2. OnTheWay /\ TimedOutIsGone /\ KilledIsGone
  BY DEF TreeInit, OnTheWay, TimedOutIsGone, KilledIsGone
<1> QED BY <1>1, <1>2 DEF TreeInv

\* The launch of the tool and its place in a job.
LEMMA LaunchInv ==
  ASSUME TreeInv, LaunchFails \/ Launch \/ Assign \/ AssignFails
  PROVE  TreeInv'
<1> USE TreeAssumption DEF TreeInv, TreeTypeOK, OnTheWay, TimedOutIsGone, KilledIsGone,
        Tool, Platforms, tree, OsFails, Conclude, GoTo, Finish, Unwaited
<1>1. CASE LaunchFails  BY <1>1 DEF LaunchFails
<1>2. CASE Launch       BY <1>2 DEF Launch
<1>3. CASE Assign       BY <1>3 DEF Assign
<1>4. CASE AssignFails  BY <1>4 DEF AssignFails
<1> QED BY <1>1, <1>2, <1>3, <1>4

\* The wait, and what follows it on POSIX.
LEMMA PosixInv ==
  ASSUME TreeInv,
         \/ WaitReturns \/ WaitExpires \/ SignalTerm \/ Poll \/ GroupIsGone \/ GraceEnds
         \/ SignalKill \/ LastEnds \/ Reap \/ ReapExpires \/ Prove
  PROVE  TreeInv'
<1> USE TreeAssumption DEF TreeInv, TreeTypeOK, OnTheWay, TimedOutIsGone, KilledIsGone,
        Tool, Platforms, tree, Conclude, GoTo, Finish, Unwaited, GroupExists
<1>1. CASE WaitReturns  BY <1>1 DEF WaitReturns, CloseJob
<1>2. CASE WaitExpires  BY <1>2 DEF WaitExpires
<1>3. CASE SignalTerm   BY <1>3 DEF SignalTerm
<1>4. CASE Poll         BY <1>4 DEF Poll
<1>5. CASE GroupIsGone  BY <1>5 DEF GroupIsGone
<1>6. CASE GraceEnds    BY <1>6 DEF GraceEnds
<1>7. CASE SignalKill
  <2>1. CASE Finish(container) /\ UNCHANGED osFaults
    <3>1. container' \cap running' = {}
      BY <1>7, <2>1 DEF SignalKill
    <3> QED BY <1>7, <2>1, <3>1 DEF SignalKill
  <2>2. CASE OsFails /\ \E p \in container \cap running : Finish(container \ {p})
    <3>1. osFaults' # 0 /\ osFaults' \in 0..OsMaxFaults
      BY <2>2 DEF OsFails
    <3> QED BY <1>7, <2>2, <3>1 DEF SignalKill
  <2> QED BY <1>7, <2>1, <2>2 DEF SignalKill
<1>8. CASE LastEnds     BY <1>8 DEF LastEnds
<1>9. CASE Reap         BY <1>9 DEF Reap
<1>10. CASE ReapExpires BY <1>10 DEF ReapExpires
<1>11. CASE Prove       BY <1>11 DEF Prove
<1> QED BY <1>1, <1>2, <1>3, <1>4, <1>5, <1>6, <1>7, <1>8, <1>9, <1>10, <1>11

LEMMA WindowsInv ==
  ASSUME TreeInv, Taskkill \/ TaskkillFails \/ TerminateJob
  PROVE  TreeInv'
<1> USE TreeAssumption DEF TreeInv, TreeTypeOK, OnTheWay, TimedOutIsGone, KilledIsGone,
        Tool, Platforms, OsFails, Conclude, GoTo, Finish, Unwaited
<1>1. CASE Taskkill      BY <1>1 DEF Taskkill
<1>2. CASE TaskkillFails BY <1>2 DEF TaskkillFails
<1>3. CASE TerminateJob  BY <1>3 DEF TerminateJob
<1> QED BY <1>1, <1>2, <1>3

\* What the processes do by themselves.
LEMMA ProcessesInv ==
  ASSUME TreeInv, Spawn \/ Escape \/ Exit \/ Wait
  PROVE  TreeInv'
<1> USE TreeAssumption DEF TreeInv, TreeTypeOK, OnTheWay, TimedOutIsGone, KilledIsGone,
        Tool, Platforms, Finish, Unwaited
<1>1. CASE Spawn
  <2>1. PICK p \in running, c \in (1..NProcesses) \ born :
          /\ born' = born \cup {c} /\ running' = running \cup {c}
          /\ container' = IF p \in container THEN container \cup {c} ELSE container
          /\ UNCHANGED <<platform, treeAt, zombies, result, osFaults, lateExit>>
    BY <1>1 DEF Spawn
  <2>2. container \cap running = {} => container' \cap running' = {}
    BY <2>1
  <2> QED BY <2>1, <2>2
<1>2. CASE Escape BY <1>2 DEF Escape
<1>3. CASE Exit   BY <1>3 DEF Exit
<1>4. CASE Wait   BY <1>4 DEF Wait
<1> QED BY <1>1, <1>2, <1>3, <1>4

LEMMA TreeStepInv == TreeInv /\ [TreeNext]_treeVars => TreeInv'
<1> SUFFICES ASSUME TreeInv, [TreeNext]_treeVars PROVE TreeInv'
  OBVIOUS
<1>1. CASE UNCHANGED treeVars
  BY <1>1 DEF treeVars, tree, TreeInv, TreeTypeOK, OnTheWay, TimedOutIsGone, KilledIsGone
<1>2. CASE TreeNext
  BY <1>2, LaunchInv, PosixInv, WindowsInv, ProcessesInv DEF TreeNext, TreeCaller
<1> QED BY <1>1, <1>2

\* Every state of a call is well typed, and a result is told exactly when the
\* call is over.
THEOREM TreeTypeCorrect == TreeSpec => []TreeTypeOK
<1>1. TreeInv => TreeTypeOK
  BY DEF TreeInv
<1> QED BY <1>1, TreeInitInv, TreeStepInv, PTL DEF TreeSpec

\* run_external_command reports a timeout only when no process of the group or
\* the job runs, and on Windows leaves none of the job behind in any case.
THEOREM NoneOutlivesATimeout == TreeSpec => []TimedOutIsGone
<1>1. TreeInv => TimedOutIsGone
  BY DEF TreeInv
<1> QED BY <1>1, TreeInitInv, TreeStepInv, PTL DEF TreeSpec

\* The call raises, which stops a run, only for a reason: a failure of the
\* operating system, a zombie of the group, a tool that ended at its deadline.
THEOREM NoFalseAlarm == TreeSpec => AlarmHasACause
<1> DEFINE Cause ==
      result' = "raised" /\ result = "none" =>
        \/ osFaults' > 0
        \/ platform = "posix" /\ (container \cap zombies) \ {Tool} # {}
        \/ platform = "windows" /\ lateExit'
<1>1. TreeInv /\ [TreeNext]_treeVars => [Cause]_treeVars
  <2> SUFFICES ASSUME TreeInv, TreeNext, result' = "raised", result = "none"
      PROVE  \/ osFaults' > 0
             \/ platform = "posix" /\ (container \cap zombies) \ {Tool} # {}
             \/ platform = "windows" /\ lateExit'
    OBVIOUS
  <2> USE DEF TreeInv, TreeTypeOK, OnTheWay, KilledIsGone, Conclude, GoTo, OsFails
  <2>1. CASE LaunchFails   BY <2>1, TreeAssumption DEF LaunchFails
  <2>2. CASE AssignFails   BY <2>2, TreeAssumption DEF AssignFails
  <2>3. CASE ReapExpires   BY <2>3, TreeAssumption DEF ReapExpires, tree
  <2>4. CASE Prove
    <3>1. PICK p \in container : p \in running \cup zombies
      BY <2>4 DEF Prove, GroupExists
    <3>2. p # Tool /\ osFaults' = osFaults /\ platform = "posix"
      BY <2>4, <3>1 DEF Prove
    <3>3. CASE osFaults = 0
      BY <2>4, <3>1, <3>2, <3>3 DEF Prove
    <3>4. CASE osFaults # 0
      BY <3>2, <3>4, TreeAssumption
    <3> QED BY <3>3, <3>4
  <2>5. CASE TaskkillFails
    <3>1. CASE Tool \in running
      BY <2>5, <3>1, TreeAssumption DEF TaskkillFails
    <3>2. CASE Tool \notin running
      BY <2>5, <3>2, Zenon DEF TaskkillFails
    <3> QED BY <3>1, <3>2
  <2>6. CASE TerminateJob  BY <2>6, TreeAssumption DEF TerminateJob
  <2>7. CASE \/ Launch \/ Assign \/ WaitReturns \/ WaitExpires \/ SignalTerm \/ Poll
             \/ GroupIsGone \/ GraceEnds \/ SignalKill \/ LastEnds \/ Reap \/ Taskkill
    BY <2>7 DEF Launch, Assign, WaitReturns, WaitExpires, SignalTerm, Poll, GroupIsGone,
       GraceEnds, SignalKill, LastEnds, Reap, Taskkill
  <2>8. CASE Spawn \/ Escape \/ Exit \/ Wait
    BY <2>8 DEF Spawn, Escape, Exit, Wait
  <2> QED BY <2>1, <2>2, <2>3, <2>4, <2>5, <2>6, <2>7, <2>8 DEF TreeNext, TreeCaller
<1> QED BY <1>1, TreeInitInv, TreeStepInv, PTL DEF TreeSpec, AlarmHasACause
=============================================================================
