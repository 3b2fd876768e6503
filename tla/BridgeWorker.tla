---------------------------- MODULE BridgeWorker ----------------------------
(* fingerprints-matching computes in a bridge process: one request per line, *)
(* one response per line, and a timer that kills the process when an answer *)
(* is late (adapters/fingerprints_matching/bridge_client.py).  The module is *)
(* one walk of the runner over its comparisons; a failed bridge is replaced *)
(* by the next request.  Two callers cannot be in a request at once: the    *)
(* lock of the client makes the second one wait.                            *)
EXTENDS Integers, Sequences, FiniteSets

CONSTANTS
  NBridgeJobs,      \* comparisons of the walk
  BridgeMaxFaults   \* bound: stray lines, deaths, failed starts, refusals

ASSUME BridgeAssumption == NBridgeJobs \in Nat \ {0} /\ BridgeMaxFaults \in Nat

VARIABLES
  brAt,       \* "call", "read", "over"
  brJob,      \* the comparison in hand
  started,    \* how many bridges were started
  handle,     \* the bridge the client holds, 0 for none
  up,         \* the bridges that run
  todo,       \* requests the bridge has not read
  pipe,       \* lines it wrote that nobody read
  armed,      \* the timer of the request runs
  loose,      \* bridges whose timer has passed its last look and will kill
  brOutcome,  \* what is stored of each comparison
  answered,   \* for each comparison, the request whose answer was stored
  strayRead,  \* history: a line that is JSON but no response was read
  brFaults,   \* faults so far
  late        \* history: timers that fired

client == <<brAt, brJob, brOutcome, answered, strayRead>>
bridge == <<started, handle, up, todo, pipe>>
bridgeVars == <<client, bridge, armed, loose, brFaults, late>>

BridgeUp == handle \in up

BridgeInit ==
  /\ brAt = "call" /\ brJob = 1
  /\ started = 0 /\ handle = 0 /\ up = {} /\ todo = <<>> /\ pipe = <<>>
  /\ armed = FALSE /\ loose = {}
  /\ brOutcome = [j \in 1..NBridgeJobs |-> "none"]
  /\ answered = [j \in 1..NBridgeJobs |-> 0]
  /\ strayRead = FALSE /\ brFaults = 0 /\ late = 0

-----------------------------------------------------------------------------
\* close: the input is closed and the process awaited, or killed.
HangUp ==
  /\ handle' = 0 /\ up' = up \ {handle} /\ todo' = <<>> /\ pipe' = <<>>
  /\ UNCHANGED started

\* The runner stores a comparison and goes on to the next: a score, a print
\* the algorithm declined, or any ordinary exception of the adapter.
Store(outcome, of) ==
  /\ brOutcome' = [brOutcome EXCEPT ![brJob] = outcome]
  /\ answered' = [answered EXCEPT ![brJob] = of]
  /\ brJob' = brJob + 1
  /\ brAt' = "call"

Fault == brFaults < BridgeMaxFaults /\ brFaults' = brFaults + 1

-----------------------------------------------------------------------------
(* The client.                                                              *)

\* start, and the request on the pipe.  What a dead process left unread is lost
\* with its pipe.
Dial ==
  IF BridgeUp
    THEN todo' = Append(todo, brJob) /\ UNCHANGED <<started, handle, up, pipe>>
    ELSE /\ started' = started + 1 /\ handle' = started + 1
         /\ up' = up \cup {started + 1}
         /\ todo' = <<brJob>> /\ pipe' = <<>>

RequestComparison ==
  /\ brAt = "call" /\ brJob <= NBridgeJobs
  /\ Dial
  /\ armed' = TRUE
  /\ brAt' = "read"
  /\ UNCHANGED <<brJob, brOutcome, answered, strayRead, loose, brFaults, late>>

\* The interpreter or the script is missing, or the process does not start.
BridgeMissing ==
  /\ brAt = "call" /\ brJob <= NBridgeJobs /\ ~BridgeUp
  /\ Fault
  /\ Store("internal", 0)
  /\ UNCHANGED <<strayRead, bridge, armed, loose, late>>

\* However the read ends, the timer is cancelled.
Reading == brAt = "read" /\ armed' = FALSE /\ UNCHANGED <<loose, brFaults, late>>

ReadAnswer ==
  /\ Reading /\ pipe # <<>> /\ Head(pipe).kind \in {"score", "declined"}
  /\ Store(Head(pipe).kind, Head(pipe).of)
  /\ pipe' = Tail(pipe)
  /\ UNCHANGED <<strayRead, started, handle, up, todo>>

\* infrastructure_failure: the adapter raises, the bridge stays.
ReadRefusal ==
  /\ Reading /\ pipe # <<>> /\ Head(pipe).kind = "machine"
  /\ Store("internal", 0)
  /\ pipe' = Tail(pipe)
  /\ UNCHANGED <<strayRead, started, handle, up, todo>>

\* The bridge is kept over a line that is no JSON.
BugReadNoise ==
  /\ Reading /\ pipe # <<>> /\ Head(pipe).kind = "noise"
  /\ Store("internal", 0)
  /\ pipe' = Tail(pipe)
  /\ UNCHANGED <<strayRead, started, handle, up, todo>>

\* A line that is no JSON, or the end of the output.
ReadNoise ==
  /\ Reading /\ pipe # <<>> /\ Head(pipe).kind = "noise"
  /\ HangUp
  /\ Store("internal", 0)
  /\ UNCHANGED strayRead

ReadEnd ==
  /\ Reading /\ pipe = <<>> /\ ~BridgeUp
  /\ HangUp
  /\ Store("internal", 0)
  /\ UNCHANGED strayRead

\* A line that is JSON but has no status the client knows: the bridge is kept,
\* and so is the answer behind that line.
ReadStray ==
  /\ Reading /\ pipe # <<>> /\ Head(pipe).kind = "stray"
  /\ Store("internal", 0)
  /\ pipe' = Tail(pipe)
  /\ strayRead' = TRUE
  /\ UNCHANGED <<started, handle, up, todo>>

CloseAdapter ==
  /\ brAt = "call" /\ brJob > NBridgeJobs
  /\ brAt' = "over"
  /\ HangUp
  /\ UNCHANGED <<brJob, brOutcome, answered, strayRead, armed, loose, brFaults, late>>

-----------------------------------------------------------------------------
(* The timer of a request, in a thread of its own: it looks whether it was  *)
(* cancelled and kills afterwards.                                          *)

TimerFires ==
  /\ armed /\ armed' = FALSE
  /\ loose' = loose \cup {handle} /\ late' = late + 1
  /\ UNCHANGED <<client, bridge, brFaults>>

TimerKills ==
  /\ loose # {}
  /\ \E b \in loose : loose' = loose \ {b} /\ up' = up \ {b}
  /\ UNCHANGED <<client, started, handle, todo, pipe, armed, brFaults, late>>

-----------------------------------------------------------------------------
(* The bridge.                                                              *)

BridgeAnswers ==
  /\ BridgeUp /\ todo # <<>>
  /\ \/ /\ \E kind \in {"score", "declined"} :
             pipe' = Append(pipe, [kind |-> kind, of |-> Head(todo)])
        /\ UNCHANGED brFaults
     \/ /\ Fault
        /\ pipe' = Append(pipe, [kind |-> "machine", of |-> Head(todo)])
  /\ todo' = Tail(todo)
  /\ UNCHANGED <<client, started, handle, up, armed, loose, late>>

\* The library prints to standard output, which is the pipe, while it computes.
LibraryPrints ==
  /\ BridgeUp /\ todo # <<>> /\ Fault
  /\ \E kind \in {"noise", "stray"} : pipe' = Append(pipe, [kind |-> kind])
  /\ UNCHANGED <<client, started, handle, up, todo, armed, loose, late>>

BridgeDies ==
  /\ BridgeUp /\ Fault
  /\ up' = up \ {handle}
  /\ UNCHANGED <<client, started, handle, todo, pipe, armed, loose, late>>

-----------------------------------------------------------------------------
BridgeClient ==
  RequestComparison \/ BridgeMissing \/ ReadAnswer \/ ReadRefusal \/ ReadNoise
    \/ ReadEnd \/ ReadStray \/ CloseAdapter

BridgeTimer == TimerFires \/ TimerKills

BridgeNext ==
  BridgeClient \/ BridgeTimer \/ BridgeAnswers \/ LibraryPrints \/ BridgeDies

\* The client and its timer run; the bridge may hang for ever.
BridgeSpec == BridgeInit /\ [][BridgeNext]_bridgeVars
BridgeFairness == WF_bridgeVars(BridgeClient) /\ WF_bridgeVars(BridgeTimer)

-----------------------------------------------------------------------------
(* Properties.                                                              *)

BridgeTypeOK ==
  /\ brAt \in {"call", "read", "over"} /\ brJob \in 1..(NBridgeJobs + 1)
  /\ started \in 0..NBridgeJobs /\ handle \in 0..started /\ up \subseteq 1..started
  /\ \A i \in DOMAIN todo : todo[i] \in 1..NBridgeJobs
  /\ \A i \in DOMAIN pipe :
       pipe[i].kind \in {"score", "declined", "machine", "noise", "stray"}
  /\ armed \in BOOLEAN /\ (armed => brAt = "read") /\ loose \subseteq 1..started
  /\ brOutcome \in [1..NBridgeJobs -> {"none", "score", "declined", "internal"}]
  /\ answered \in [1..NBridgeJobs -> 0..NBridgeJobs]
  /\ strayRead \in BOOLEAN
  /\ brFaults \in 0..BridgeMaxFaults /\ late \in 0..NBridgeJobs

\* What is stored of a pair is the answer to that pair, although an answer does
\* not say which request it answers and a bridge lives through many: whatever
\* makes the count of answers differ from the count of requests ends the
\* bridge.  Only a line that is JSON but no response can shift the answers.
AnswersAreForThePair ==
  ~strayRead => \A j \in 1..NBridgeJobs :
    brOutcome[j] \in {"score", "declined"} => answered[j] = j

\* What goes wrong once costs one comparison: the next one gets a new bridge.
\* A timer that fires as the answer arrives costs the next comparison instead.
OneFaultOneFailure ==
  Cardinality({j \in 1..NBridgeJobs : brOutcome[j] = "internal"}) <= brFaults + late

\* The client never leaves a bridge running beside the one it holds, or after
\* it has closed.
NoBridgeIsLost == up \subseteq {handle}

\* Though the bridge may hang for ever, every comparison ends.
EveryComparisonEnds == <>(brAt = "over")

\* "Everything else is the machine, and it stops the run rather than becoming a
\* 6,001st kind of biometric outcome" (adapter.py, _to_result): no comparison
\* is stored after one the machine failed.
MachineFailureStopsTheRun ==
  \A j, k \in 1..NBridgeJobs :
    j < k /\ brOutcome[j] = "internal" => brOutcome[k] = "none"
=============================================================================
