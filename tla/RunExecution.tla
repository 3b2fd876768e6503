---------------------------- MODULE RunExecution ----------------------------
(***************************************************************************)
(* One benchmark run executed by SequentialRunExecutor over                *)
(* SingleJobRunner and ResultStore (fpbench/execution, fpbench/storage):   *)
(* several invocations, at once or one after another, walk one plan, store *)
(* one immutable result per job and declare the run complete on the        *)
(* strength of an audit.  run.json and the plan are the same for every     *)
(* invocation (SetPublication models how they are published); each file is *)
(* created by the create-if-absent register of AtomicPublish.              *)
(*                                                                         *)
(* A result is what the integrity checks and the properties tell apart:    *)
(* its status and score, what prepared its images, what its score depended *)
(* on, and who stored it.  Unsound stands for any stored file the audit    *)
(* rejects: unreadable, foreign or with a different fingerprint.           *)
(***************************************************************************)
EXTENDS Naturals, FiniteSets

CONSTANTS
  Workers,       \* processes that may run an executor
  NJobs,         \* jobs of the plan, in ordinal order
  Preparers,     \* implementations that hold the profile's preparer_id
  Closures,      \* content closures a process may run under
  ResearchRun,   \* the adapter states a content closure
  Scores,        \* scores a comparison may produce
  Budgets,       \* values of max_new_jobs; NJobs stands for None
  Finalizing,    \* values of finalize
  Tampering,     \* what happens outside the program, see the last actions
  Unsound,       \* a stored result that no integrity check accepts
  Absent         \* a file that does not exist

ASSUME NJobsAssumption == NJobs \in Nat \ {0}
ASSUME BudgetsAssumption == Budgets \subseteq Nat \ {0}
ASSUME ResearchAssumption == ResearchRun \in BOOLEAN
ASSUME FinalizingAssumption == Finalizing \subseteq BOOLEAN
ASSUME TamperingAssumption == Tampering \subseteq {"unbind", "damage", "delete"}

Jobs == 1 .. NJobs

\* The runner records a failure as a result like any other.
Verdicts == [status : {"success"}, score : Scores]
              \cup [status : {"failure"}, score : {Absent}]

Results == [status : {"success", "failure"}, score : Scores \cup {Absent},
            preparer : Preparers, closure : Closures, by : Workers]

\* A clean audit of a whole run is told apart by its counts alone.
Audits == [successes : Nat, failures : Nat]

ASSUME UnsoundAssumption == Unsound \notin Results \cup {Absent}
ASSUME AbsentAssumption ==
  Absent \notin Results \cup Audits \cup Preparers \cup Closures

VARIABLES
  preparerBinding,  \* the run's preparer binding, or Absent
  closureBinding,   \* the run's content-closure binding, or Absent
  result,           \* result[j]: the stored result of job j, or Absent
  completion,       \* completion.json: the audit it names, or Absent
  pc,               \* where each worker's invocation is, "idle" between them
  job,              \* its settings: preparer, closure, max_new_jobs, finalize
  at,               \* the ordinal its walk over the plan has reached
  executed,         \* new results it has stored
  verdict,          \* the comparison, later the audit, it holds in memory
  told,             \* what its last invocation reported
  tainted,          \* history: that invocation started over a damaged result
  certified         \* history: the results on disk when completion.json was written

disk == <<preparerBinding, closureBinding, result, completion>>
memory == <<pc, job, at, executed, verdict, told, tainted>>
vars == <<disk, memory, certified>>

Steps == {"idle", "bindCheck", "bindPublish", "scan", "closureCheck",
          "closurePublish", "validate", "visit", "compare", "write", "count",
          "audit", "complete"}

Reports == {"nothing", "died", "drifted", "error", "partial", "completed", "verified"}

Settings == [preparer : Preparers, closure : Closures, budget : Budgets,
             finalize : Finalizing]

Stored == {j \in Jobs : result[j] # Absent}
Sound(j) == result[j] \notin {Absent, Unsound}
StoredSound == \A j \in Stored : Sound(j)

TypeOK ==
  /\ preparerBinding \in Preparers \cup {Absent}
  /\ closureBinding \in Closures \cup {Absent}
  /\ result \in [Jobs -> Results \cup {Absent, Unsound}]
  /\ completion \in Audits \cup {Absent}
  /\ pc \in [Workers -> Steps]
  /\ job \in [Workers -> Settings \cup {Absent}]
  /\ at \in [Workers -> 1 .. NJobs + 1]
  /\ executed \in [Workers -> 0 .. NJobs]
  /\ verdict \in [Workers -> Verdicts \cup Audits \cup {Absent}]
  /\ told \in [Workers -> Reports]
  /\ tainted \in [Workers -> BOOLEAN]
  /\ certified \in [Jobs -> Results \cup {Absent, Unsound}]

Init ==
  /\ preparerBinding = Absent
  /\ closureBinding = Absent
  /\ result = [j \in Jobs |-> Absent]
  /\ completion = Absent
  /\ pc = [w \in Workers |-> "idle"]
  /\ job = [w \in Workers |-> Absent]
  /\ at = [w \in Workers |-> 1]
  /\ executed = [w \in Workers |-> 0]
  /\ verdict = [w \in Workers |-> Absent]
  /\ told = [w \in Workers |-> "nothing"]
  /\ tainted = [w \in Workers |-> FALSE]
  /\ certified = result

-----------------------------------------------------------------------------
(* Moving one invocation.                                                  *)

Goto(w, step) == pc' = [pc EXCEPT ![w] = step]

Carry == UNCHANGED <<job, at, executed, verdict, told>>

\* The invocation ends, with a summary or with an exception, and its memory
\* with it.
End(w, what) ==
  /\ Goto(w, "idle")
  /\ job' = [job EXCEPT ![w] = Absent]
  /\ at' = [at EXCEPT ![w] = 1]
  /\ executed' = [executed EXCEPT ![w] = 0]
  /\ verdict' = [verdict EXCEPT ![w] = Absent]
  /\ told' = [told EXCEPT ![w] = what]

\* A mutation: an integrity error is reported and the invocation carries on.
BugRequireNothing(w, condition, step) == Goto(w, step) /\ Carry

\* A check: carry on at the next step, or raise.
Require(w, condition, step) ==
  IF condition THEN Goto(w, step) /\ Carry ELSE End(w, "error")

Launch(w, s) ==
  /\ pc[w] = "idle"
  /\ Goto(w, "bindCheck")
  /\ job' = [job EXCEPT ![w] = s]
  /\ told' = [told EXCEPT ![w] = "nothing"]
  /\ tainted' = [tainted EXCEPT ![w] = ~StoredSound]
  /\ UNCHANGED <<disk, at, executed, verdict, certified>>

-----------------------------------------------------------------------------
(* SingleJobRunner._preflight: what the run is bound to.                   *)

\* bind_preparer: a run with results cannot acquire its first binding.
BindCheck(w) ==
  /\ pc[w] = "bindCheck"
  /\ Require(w, preparerBinding # Absent \/ Stored = {}, "bindPublish")
  /\ UNCHANGED <<disk, tainted, certified>>

\* A mutation: the binding is written and nobody compares.
BugBindWithoutComparing(w) ==
  /\ pc[w] = "bindPublish"
  /\ preparerBinding' =
       IF preparerBinding = Absent THEN job[w].preparer ELSE preparerBinding
  /\ Require(w, TRUE, "scan")
  /\ UNCHANGED <<closureBinding, result, completion, tainted, certified>>

\* Whoever publishes the binding first defines the run.
BindPublish(w) ==
  /\ pc[w] = "bindPublish"
  /\ preparerBinding' =
       IF preparerBinding = Absent THEN job[w].preparer ELSE preparerBinding
  /\ Require(w, preparerBinding' = job[w].preparer, "scan")
  /\ UNCHANGED <<closureBinding, result, completion, tainted, certified>>

\* Every stored result must be readable and say it came from this preparer; one
\* that is unsound may be neither, or say so all the same.
ScanStored(w) ==
  /\ pc[w] = "scan"
  /\ \E passes \in BOOLEAN :
       /\ StoredSound => passes
       /\ Require(w, /\ passes
                     /\ \A j \in Stored : Sound(j) => result[j].preparer = job[w].preparer,
                  IF ResearchRun THEN "closureCheck" ELSE "validate")
  /\ UNCHANGED <<disk, tainted, certified>>

\* A mutation: a removed closure binding is simply written again.
BugRebindClosure(w) ==
  /\ pc[w] = "closureCheck"
  /\ Require(w, TRUE, "closurePublish")
  /\ UNCHANGED <<disk, tainted, certified>>

\* bind_content_closure: the same rule for what the scores depend on.
ClosureCheck(w) ==
  /\ pc[w] = "closureCheck"
  /\ Require(w, closureBinding # Absent \/ Stored = {}, "closurePublish")
  /\ UNCHANGED <<disk, tainted, certified>>

ClosurePublish(w) ==
  /\ pc[w] = "closurePublish"
  /\ closureBinding' =
       IF closureBinding = Absent THEN job[w].closure ELSE closureBinding
  /\ Require(w, closureBinding' = job[w].closure, "validate")
  /\ UNCHANGED <<preparerBinding, result, completion, tainted, certified>>

-----------------------------------------------------------------------------
(* SequentialRunExecutor.execute: the walk over the plan.                  *)

\* validate_existing_results: resume only from evidence that is sound now.
Validate(w) ==
  /\ pc[w] = "validate"
  /\ Require(w, StoredSound, "visit")
  /\ UNCHANGED <<disk, tainted, certified>>

WalkEnds(w) == at[w] > NJobs \/ executed[w] >= job[w].budget

LeaveWalk(w) ==
  /\ pc[w] = "visit"
  /\ WalkEnds(w)
  /\ Goto(w, "count")
  /\ Carry
  /\ UNCHANGED <<disk, tainted, certified>>

\* A mutation: the budget is spent on jobs that are already done.
BugSkipCostsBudget(w) ==
  /\ pc[w] = "visit"
  /\ ~WalkEnds(w)
  /\ result[at[w]] # Absent
  /\ at' = [at EXCEPT ![w] = @ + 1]
  /\ executed' = [executed EXCEPT ![w] = @ + 1]
  /\ UNCHANGED <<disk, pc, job, verdict, told, tainted, certified>>

\* A stored result is read and skipped, and costs no budget.  What is checked of it
\* is the fingerprint of its job, so an unsound one is refused or skipped as well.
SkipExisting(w) ==
  /\ pc[w] = "visit"
  /\ ~WalkEnds(w)
  /\ result[at[w]] # Absent
  /\ \/ at' = [at EXCEPT ![w] = @ + 1] /\ UNCHANGED <<pc, job, executed, verdict, told>>
     \/ ~Sound(at[w]) /\ End(w, "error")
  /\ UNCHANGED <<disk, tainted, certified>>

StartJob(w) ==
  /\ pc[w] = "visit"
  /\ ~WalkEnds(w)
  /\ result[at[w]] = Absent
  /\ Goto(w, "compare")
  /\ Carry
  /\ UNCHANGED <<disk, tainted, certified>>

\* Any ordinary exception of the input, the preparer or the adapter is one
\* failed comparison; a score or a failure is held until it is stored.
Compare(w, v) ==
  /\ pc[w] = "compare"
  /\ verdict' = [verdict EXCEPT ![w] = v]
  /\ Goto(w, "write")
  /\ UNCHANGED <<disk, job, at, executed, told, tainted, certified>>

\* RuntimeDriftError and ProcessTreeTerminationError are not facts about the
\* pair: they propagate, and no result is written for the job.
Drift(w) ==
  /\ pc[w] = "compare"
  /\ End(w, "drifted")
  /\ UNCHANGED <<disk, tainted, certified>>

Record(w) ==
  [status |-> verdict[w].status, score |-> verdict[w].score,
   preparer |-> job[w].preparer, closure |-> job[w].closure, by |-> w]

\* A mutation: write a temporary and rename it over whatever is there.
BugReplaceResult(w) ==
  /\ pc[w] = "write"
  /\ result' = [result EXCEPT ![at[w]] = Record(w)]
  /\ at' = [at EXCEPT ![w] = @ + 1]
  /\ executed' = [executed EXCEPT ![w] = @ + 1]
  /\ verdict' = [verdict EXCEPT ![w] = Absent]
  /\ Goto(w, "visit")
  /\ UNCHANGED <<preparerBinding, closureBinding, completion, job, told, tainted, certified>>

\* write_raw_result creates the file, or somebody else did and this raises.
WriteResult(w) ==
  /\ pc[w] = "write"
  /\ IF result[at[w]] = Absent
       THEN /\ result' = [result EXCEPT ![at[w]] = Record(w)]
            /\ at' = [at EXCEPT ![w] = @ + 1]
            /\ executed' = [executed EXCEPT ![w] = @ + 1]
            /\ verdict' = [verdict EXCEPT ![w] = Absent]
            /\ Goto(w, "visit")
            /\ UNCHANGED <<job, told>>
       ELSE /\ End(w, "error")
            /\ UNCHANGED result
  /\ UNCHANGED <<preparerBinding, closureBinding, completion, tainted, certified>>

\* A mutation: remaining jobs are counted from the walk, not from the disk.
BugCountTheWalk(w) ==
  /\ pc[w] = "count"
  /\ IF job[w].finalize
       THEN Goto(w, "audit") /\ Carry
       ELSE End(w, "completed")
  /\ UNCHANGED <<disk, tainted, certified>>

\* _remaining_jobs, and what execute does about it.
CountRemaining(w) ==
  /\ pc[w] = "count"
  /\ CASE Stored # Jobs -> End(w, "partial")
       [] Stored = Jobs /\ job[w].finalize -> Goto(w, "audit") /\ Carry
       [] OTHER -> End(w, "completed")
  /\ UNCHANGED <<disk, tainted, certified>>

-----------------------------------------------------------------------------
(* RunCompletionService.finalise and inspect_run_progress.                 *)

Count(status) == Cardinality({j \in Jobs : Sound(j) /\ result[j].status = status})

Audit == [successes |-> Count("success"), failures |-> Count("failure")]

AuditIsClean == StoredSound /\ Stored = Jobs

RunAudit(w) ==
  /\ pc[w] = "audit"
  /\ IF AuditIsClean
       THEN /\ verdict' = [verdict EXCEPT ![w] = Audit]
            /\ Goto(w, "complete")
            /\ UNCHANGED <<job, at, executed, told>>
       ELSE End(w, "error")
  /\ UNCHANGED <<disk, tainted, certified>>

\* ensure_completion: create, or confirm the stored one says the same.
EnsureCompletion(w) ==
  /\ pc[w] = "complete"
  /\ completion' = IF completion = Absent THEN verdict[w] ELSE completion
  /\ certified' = IF completion = Absent THEN result ELSE certified
  /\ End(w, IF completion' = verdict[w] THEN "verified" ELSE "error")
  /\ UNCHANGED <<preparerBinding, closureBinding, result, tainted>>

CompletionMatches == completion # Absent /\ AuditIsClean /\ completion = Audit

RunState ==
  CASE ~StoredSound \/ (completion # Absent /\ ~CompletionMatches) -> "INVALID"
    [] StoredSound /\ CompletionMatches -> "VERIFIED"
    [] StoredSound /\ completion = Absent /\ Stored = {} -> "PLANNED"
    [] StoredSound /\ completion = Absent /\ Stored \notin {{}, Jobs} -> "PARTIAL"
    [] OTHER -> "COMPLETE"

-----------------------------------------------------------------------------
(* The environment.                                                        *)

Crash(w) ==
  /\ pc[w] # "idle"
  /\ End(w, "died")
  /\ UNCHANGED <<disk, tainted, certified>>

\* Somebody removes bindings while no executor runs.
Unbind ==
  /\ "unbind" \in Tampering
  /\ \A w \in Workers : pc[w] = "idle"
  /\ preparerBinding' \in {preparerBinding, Absent}
  /\ closureBinding' \in {closureBinding, Absent}
  /\ UNCHANGED <<result, completion, memory, certified>>

\* A sound result rots or a foreign file takes its name, or it is lost.
Leaves == [damage |-> Unsound, delete |-> Absent]

Spoil(j) ==
  /\ Sound(j)
  /\ \E way \in Tampering \ {"unbind"} : result' = [result EXCEPT ![j] = Leaves[way]]
  /\ UNCHANGED <<preparerBinding, closureBinding, completion, memory, certified>>

Tamper == Unbind \/ \E j \in Jobs : Spoil(j)

Step(w) ==
  \/ BindCheck(w) \/ BindPublish(w) \/ ScanStored(w)
  \/ ClosureCheck(w) \/ ClosurePublish(w) \/ Validate(w)
  \/ LeaveWalk(w) \/ SkipExisting(w) \/ StartJob(w)
  \/ \E v \in Verdicts : Compare(w, v)
  \/ WriteResult(w) \/ CountRemaining(w) \/ RunAudit(w) \/ EnsureCompletion(w)

Next ==
  \/ \E w \in Workers :
       \/ \E s \in Settings : Launch(w, s)
       \/ Step(w) \/ Drift(w) \/ Crash(w)
  \/ Tamper

Spec == Init /\ [][Next]_vars

\* Somebody keeps starting the run, with the settings it is bound to and the
\* default finalize, and a process that runs gets on with its work; from some
\* point on processes neither die nor drift.
Bound(s) ==
  /\ s.finalize
  /\ preparerBinding \in {Absent, s.preparer}
  /\ closureBinding \in {Absent, s.closure}

LaunchBound(w) == \E s \in Settings : Bound(s) /\ Launch(w, s)

Fairness == \A w \in Workers : WF_vars(Step(w)) /\ SF_vars(LaunchBound(w))

FaultsStop == <>[][\A w \in Workers : ~Crash(w) /\ ~Drift(w)]_vars

FairSpec == Spec /\ Fairness /\ FaultsStop

-----------------------------------------------------------------------------
(* Properties.                                                             *)

\* A run never mixes preparations: every stored result was prepared by the
\* same implementation, whichever executors raced to be first and whichever
\* resumed later, bindings removed between invocations or not.
OnePreparation ==
  \A i, j \in Jobs :
    Sound(i) /\ Sound(j) => result[i].preparer = result[j].preparer

\* A research run never mixes content closures, although no result records
\* the closure it was produced under.
OneClosure ==
  ResearchRun =>
    \A i, j \in Jobs :
      Sound(i) /\ Sound(j) => result[i].closure = result[j].closure

\* A worker told that its score was stored has that score on disk; the loser
\* of a race is told so, and never counts the winner's file as its own.
CountedResultsAreStored ==
  \A w \in Workers :
    executed[w] <= Cardinality({j \in Jobs : Sound(j) /\ result[j].by = w})

\* completion.json exists only over a whole run and states its real counts,
\* whoever audited, and whatever other executors did between audit and write.
CompletionIsEarned == completion # Absent => CompletionMatches

\* What an executor reported is still what an inspection of the run finds.
ReportsHold ==
  \A w \in Workers :
    /\ told[w] = "verified" => RunState = "VERIFIED"
    /\ told[w] = "completed" => RunState \in {"COMPLETE", "VERIFIED"}

\* What a run says of itself, in its completion or to its caller, is so.
ReportsAreTrue == CompletionIsEarned /\ ReportsHold

Rank == [INVALID |-> 0, PLANNED |-> 1, PARTIAL |-> 2, COMPLETE |-> 3, VERIFIED |-> 4]

\* However executors race, die and resume, the inspected state of a run only
\* advances, and it is never INVALID by the program's own doing.
ProgressOnlyAdvances == [][Rank[RunState'] >= Rank[RunState]]_vars

\* An executor started over a damaged result stops before it adds anything.
DamageStopsWork ==
  \A w \in Workers :
    tainted[w] => executed[w] = 0 /\ told[w] \in {"nothing", "died", "error"}

\* An interrupted run is finished and verified by starting it again.
RunIsEventuallyVerified == <>(RunState = "VERIFIED")

\* What the completion module says of itself: a completion cannot be reused
\* after the results underneath it changed.
CompletionPinsResults == RunState = "VERIFIED" => result = certified
=============================================================================
