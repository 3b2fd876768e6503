------------------------------ MODULE FlxWorker ------------------------------
(* flx computes in a worker process: one request per line, one response per *)
(* line, a deadline on every request and no retry.  The module is one       *)
(* invocation of a run: the runner validates the environment, then asks the *)
(* adapter for every comparison in turn.  It joins FlxWorkerSession         *)
(* (flx/worker.py), the integration that holds a session, and the adapter   *)
(* that holds an integration (experiments/flx_adapter.py).                  *)
(*                                                                          *)
(* The worker's output pipe and the queue its reader thread fills are one   *)
(* sequence: the queue is only ever read by the request that waits for it.  *)
EXTENDS Integers, Sequences, FiniteSets

CONSTANTS
  NComparisons,   \* comparisons of the invocation
  FlxMaxFaults    \* bound: stray lines, deaths of a worker and failed starts

ASSUME FlxAssumption == NComparisons \in Nat \ {0} /\ FlxMaxFaults \in Nat

VARIABLES
  flxAt,      \* "call", "ask", "wait", "closing", "over"
  flxJob,     \* 0: validate_environment; 1..NComparisons: that comparison
  script,     \* the operations the call has still to ask for
  loaded,     \* the adapter holds an integration whose runtime is loaded
  session,    \* how many workers were started; the last is the one spoken to
  alive,      \* the workers that run
  inbox,      \* requests the worker has not read
  responses,  \* lines it wrote that no request has taken, EndOfOutput for its end
  evidence,   \* for each comparison, the requests whose answers it used
  flxOutcome, \* what is stored of each comparison
  troubled,   \* history: a request missed its deadline or was refused, or a fault
  flxFaults   \* faults so far

parent == <<flxAt, flxJob, script, loaded, evidence, flxOutcome>>
child  == <<session, alive, inbox, responses>>
flxVars == <<parent, child, troubled, flxFaults>>

\* load_runtime, what validate_environment asks on top, and one comparison.
Loading    == <<"validate_runtime", "load_runtime">>
Reporting  == <<"validate_runtime", "validate_runtime">>
Comparison == <<"preprocess", "extract", "preprocess", "extract", "compare">>

Goal == IF flxJob = 0 THEN Reporting ELSE Comparison

\* A request is known by its worker, its call and its place in the script.
Request == [worker |-> session, job |-> flxJob, left |-> Len(script), op |-> Head(script)]
Answer(r, ok) == [kind |-> IF ok THEN "ok" ELSE "refused", of |-> r]
Stray == [kind |-> "stray"]
EndOfOutput == [kind |-> "end"]

Running == session \in alive

FlxInit ==
  /\ flxAt = "call" /\ flxJob = 0 /\ script = <<>> /\ loaded = FALSE
  /\ session = 0 /\ alive = {} /\ inbox = <<>> /\ responses = <<>>
  /\ evidence = [j \in 1..NComparisons |-> <<>>]
  /\ flxOutcome = [j \in 1..NComparisons |-> "none"]
  /\ troubled = FALSE /\ flxFaults = 0

-----------------------------------------------------------------------------
\* Killed or shut down, and waited for; `rest` is what it wrote and nobody took.
End(rest) ==
  /\ alive' = alive \ {session}
  /\ inbox' = <<>>
  /\ responses' = IF Running THEN Append(rest, EndOfOutput) ELSE rest
  /\ UNCHANGED session

\* A request that fails ends its call.  A failed validation ends the
\* invocation; a failed comparison is stored.
EndCall(how) ==
  /\ script' = <<>>
  /\ IF flxJob = 0
       THEN flxAt' = "over" /\ loaded' = FALSE /\ UNCHANGED <<flxJob, flxOutcome>>
       ELSE /\ flxAt' = "call" /\ flxJob' = flxJob + 1
            /\ flxOutcome' = [flxOutcome EXCEPT ![flxJob] = how]
            /\ UNCHANGED loaded
  /\ UNCHANGED evidence

Leave(rest) == responses' = rest /\ UNCHANGED <<session, alive, inbox>>

\* While the runtime is being loaded the session is closed too; of a loaded
\* runtime the adapter keeps the integration, whether its worker was killed or
\* not.
Fail(how, killed, rest) ==
  EndCall(how) /\ IF killed \/ ~loaded \/ flxJob = 0 THEN End(rest) ELSE Leave(rest)

-----------------------------------------------------------------------------
(* The adapter and its session.                                             *)

\* The session keeps its queue when it starts another worker.
BugOpen ==
  /\ flxAt = "call" /\ flxJob <= NComparisons
  /\ flxAt' = "ask"
  /\ IF loaded
       THEN script' = Goal /\ UNCHANGED child
       ELSE /\ script' = Loading \o Goal
            /\ session' = session + 1 /\ alive' = alive \cup {session + 1}
            /\ inbox' = <<>> /\ UNCHANGED responses
  /\ UNCHANGED <<flxJob, loaded, evidence, flxOutcome, troubled, flxFaults>>

\* _open: reuse the integration, or start a worker with a queue of its own.
Open ==
  /\ flxAt = "call" /\ flxJob <= NComparisons
  /\ flxAt' = "ask"
  /\ IF loaded
       THEN script' = Goal /\ UNCHANGED child
       ELSE /\ script' = Loading \o Goal
            /\ session' = session + 1 /\ alive' = alive \cup {session + 1}
            /\ inbox' = <<>> /\ responses' = <<>>
  /\ UNCHANGED <<flxJob, loaded, evidence, flxOutcome, troubled, flxFaults>>

CannotStart ==
  /\ flxAt = "call" /\ flxJob <= NComparisons /\ ~loaded
  /\ flxFaults < FlxMaxFaults /\ flxFaults' = flxFaults + 1 /\ troubled' = TRUE
  /\ Fail("crashed", FALSE, responses)

\* Nobody looks whether the worker has ended.
BugAsk ==
  /\ flxAt = "ask"
  /\ flxAt' = "wait"
  /\ inbox' = Append(inbox, Request)
  /\ UNCHANGED <<flxJob, script, loaded, evidence, flxOutcome>>
  /\ UNCHANGED <<session, alive, responses, troubled, flxFaults>>

\* request, up to the wait.  A worker that has ended is not written to; one
\* that ends between the look and the write fails the request the same way.
Ask ==
  /\ flxAt = "ask" /\ Running
  /\ flxAt' = "wait"
  /\ inbox' = Append(inbox, Request)
  /\ UNCHANGED <<flxJob, script, loaded, evidence, flxOutcome>>
  /\ UNCHANGED <<session, alive, responses, troubled, flxFaults>>

AskTheDead ==
  /\ flxAt = "ask" /\ ~Running
  /\ Fail("crashed", FALSE, responses)
  /\ UNCHANGED <<troubled, flxFaults>>

\* A response has to name the operation that was asked for; nothing else in it
\* says which request it answers.
Fits(line) == line.kind \in {"ok", "refused"} /\ line.of.op = Head(script)

Waiting == flxAt = "wait" /\ responses # <<>>

\* What was computed of the left side serves for the right side.
BugRemaining ==
  IF flxJob > 0 /\ Len(script) = 4 THEN <<"compare">> ELSE Tail(script)

\* Both sides are computed from the file, though they be the same file.
Remaining == Tail(script)

\* The answer is used.  With the last one of its part the runtime is loaded,
\* the validation is done (and closes what it opened), or there is a score.
Take ==
  /\ Waiting /\ Fits(Head(responses)) /\ Head(responses).kind = "ok"
  /\ script' = Remaining
  /\ evidence' = IF loaded /\ flxJob > 0
                   THEN [evidence EXCEPT ![flxJob] = Append(@, Head(responses).of)]
                   ELSE evidence
  /\ IF script' = <<>> /\ flxJob = 0
       THEN End(Tail(responses)) /\ loaded' = FALSE
       ELSE /\ responses' = Tail(responses)
            /\ loaded' = (loaded \/ Len(script') = Len(Goal))
            /\ UNCHANGED <<session, alive, inbox>>
  /\ flxAt' = IF script' = <<>> THEN "call" ELSE "ask"
  /\ flxJob' = IF script' = <<>> THEN flxJob + 1 ELSE flxJob
  /\ flxOutcome' = IF script' = <<>> /\ flxJob > 0
                     THEN [flxOutcome EXCEPT ![flxJob] = "score"] ELSE flxOutcome
  /\ UNCHANGED <<troubled, flxFaults>>

\* ok: false (stored as a crash, too), or an answer whose content the parent
\* does not accept: the worker stays.
TakeRefusal ==
  /\ Waiting /\ Fits(Head(responses))
  /\ \E how \in IF Head(responses).kind = "refused" THEN {"crashed"} ELSE {"failed"} :
       Fail(how, FALSE, Tail(responses))
  /\ troubled' = TRUE /\ UNCHANGED flxFaults

\* The end of the output, a line that is no response, another operation's.
TakeNonsense ==
  /\ Waiting /\ ~Fits(Head(responses))
  /\ Fail("crashed", TRUE, Tail(responses))
  /\ UNCHANGED <<troubled, flxFaults>>

\* The deadline.  The answer may still arrive before the kill does.
Expire ==
  /\ flxAt = "wait" /\ responses = <<>>
  /\ \E late \in {<<>>} \cup {<<Answer(inbox[i], TRUE)>> : i \in DOMAIN inbox} :
       Fail("timeout", TRUE, late)
  /\ troubled' = TRUE /\ UNCHANGED flxFaults

\* Drift (a runtime that is not the locked one, an input that changed) stops
\* the run; the adapter is closed when its process lets go of it.
Drift ==
  /\ flxAt = "ask" /\ flxJob > 0
  /\ flxAt' = "closing"
  /\ UNCHANGED <<flxJob, script, loaded, evidence, flxOutcome, child, troubled, flxFaults>>

Close ==
  /\ \/ flxAt = "closing"
     \/ flxAt = "call" /\ flxJob > NComparisons
  /\ flxAt' = "over" /\ loaded' = FALSE /\ script' = <<>>
  /\ End(responses)
  /\ UNCHANGED <<flxJob, evidence, flxOutcome, troubled, flxFaults>>

-----------------------------------------------------------------------------
(* The worker.                                                              *)

Serve ==
  /\ Running /\ inbox # <<>>
  /\ \E ok \in BOOLEAN : responses' = Append(responses, Answer(Head(inbox), ok))
  /\ inbox' = Tail(inbox)
  /\ UNCHANGED <<parent, session, alive, troubled, flxFaults>>

\* A library prints to standard output.
Chatter ==
  /\ Running /\ flxFaults < FlxMaxFaults
  /\ responses' = Append(responses, Stray)
  /\ flxFaults' = flxFaults + 1 /\ troubled' = TRUE
  /\ UNCHANGED <<parent, session, alive, inbox>>

Die ==
  /\ Running /\ flxFaults < FlxMaxFaults
  /\ End(responses)
  /\ flxFaults' = flxFaults + 1 /\ troubled' = TRUE
  /\ UNCHANGED parent

-----------------------------------------------------------------------------
FlxParent == Open \/ CannotStart \/ Ask \/ AskTheDead \/ Take \/ TakeRefusal
               \/ TakeNonsense \/ Expire \/ Drift \/ Close

FlxNext == FlxParent \/ Serve \/ Chatter \/ Die

\* The parent is scheduled and its deadlines pass; nothing is asked of the
\* worker, which may hang for ever.
FlxSpec == FlxInit /\ [][FlxNext]_flxVars
FlxFairness == WF_flxVars(FlxParent)

-----------------------------------------------------------------------------
(* Properties.                                                              *)

Requests == [worker : 1..(NComparisons + 1), job : 0..NComparisons,
             left : 1..7, op : {"validate_runtime", "load_runtime", "preprocess",
                                "extract", "compare"}]

FlxTypeOK ==
  /\ flxAt \in {"call", "ask", "wait", "closing", "over"}
  /\ flxJob \in 0..(NComparisons + 1) /\ loaded \in BOOLEAN
  /\ Len(script) <= 7
  /\ session \in 0..(NComparisons + 1) /\ alive \subseteq 1..session
  /\ Len(inbox) <= 1 /\ \A i \in DOMAIN inbox : inbox[i] \in Requests
  /\ \A i \in DOMAIN responses :
       responses[i].kind \in {"ok", "refused"} => responses[i].of \in Requests
  /\ \A j \in 1..NComparisons :
       /\ flxOutcome[j] \in {"none", "score", "failed", "timeout", "crashed"}
       /\ Len(evidence[j]) <= 5
  /\ troubled \in BOOLEAN /\ flxFaults \in 0..FlxMaxFaults

\* A stored score comes from five answers to the five requests of that very
\* comparison, all by one worker, although a response names only its
\* operation: no late, stray or repeated line is ever taken for an answer.
ScoreIsItsOwn ==
  \A j \in 1..NComparisons : flxOutcome[j] = "score" =>
    \E s \in 1..session :
      evidence[j] = [i \in 1..5 |->
        [worker |-> s, job |-> j, left |-> 6 - i, op |-> Comparison[i]]]

\* There is never a second worker beside the first, and none when the
\* invocation is over.
OneWorker == Cardinality(alive) <= IF flxAt = "over" THEN 0 ELSE 1

\* A comparison fails only if something went wrong: what the validation left
\* behind (its worker, its queue) never reaches a comparison.
FailuresHaveACause ==
  ~troubled => \A j \in 1..NComparisons : flxOutcome[j] \in {"none", "score"}

\* The price of keeping the integration: between a loaded runtime whose worker is
\* gone and the end of the invocation no worker is started and no comparison gets
\* a score; every one that is reached is stored as a crash.
Lost == loaded /\ ~Running /\ flxAt \in {"call", "ask"}

LossIsForGood == [][Lost =>
  /\ Lost' \/ flxAt' \in {"closing", "over"}
  /\ \A j \in 1..NComparisons :
       flxOutcome'[j] # flxOutcome[j] => flxOutcome'[j] = "crashed"]_flxVars

\* Whatever the worker does, every call of the invocation ends.
InvocationEnds == <>(flxAt = "over")
=============================================================================
