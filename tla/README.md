# Formal models of fpbench

fpbench measures fingerprint matchers.  It turns a frozen plan of comparisons
into results that are kept as evidence, and nearly everything it promises is a
promise about files: what is published is never changed, what is declared
finished really is, and a run can be killed at any point and carried on.  There
is no server and no lock.  Several processes may work on one workspace, and the
only thing they share is the file system.  Where it calls a matcher, it holds a
child process that may hang, die or answer late; and from the stored scores it
derives rates and thresholds that have to mean what they are called.

This directory holds TLA+ models of that part of the program, configurations
that check them with TLC, and proofs checked with TLAPS.  Paths below are
relative to `src/src/fpbench/` unless they start with `src/`.

1. [Inventory](#1-inventory)
2. [How the models are layered](#2-how-the-models-are-layered)
3. [The modules and the code](#3-the-modules-and-the-code)
4. [What the runs check](#4-what-the-runs-check)
5. [Fairness](#5-fairness)
6. [What is proved](#6-what-is-proved)
7. [Where the code and its text disagree](#7-where-the-code-and-its-text-disagree)
8. [What is left out, and the plan](#8-what-is-left-out-and-the-plan)

## 1. Inventory

### Modelled

**Publication of one file** (`core/atomic_write.py`).
State: the target path, the sentinel `<target>.publishing`, private scratch
files.  Operation: `publish_file`, which creates the target if it is absent and
otherwise says whether the bytes agree.  Two mechanisms: `os.link`, or, where a
mount refuses it, an `O_EXCL` sentinel around a second look and an `os.replace`.
Hard: two mechanisms on one path, the two reads of `_await_publication`, a
process that dies holding the sentinel, deadlines.
Correct when: bytes under a published name never change, an answer agrees with
the disk, and every call ends.

**Publication of a set** (`storage/set_publication.py`).
State: one manifest and the bodies it describes.  Operation: `publish_set`, in
seven numbered steps: inspect, claim, identify, survey and verify, create what
is missing, read back, verify the whole set.
Hard: publishers of different sets interleave body by body; crashes half-way;
directories written by an older release that created bodies first; a
publication conflict that is swallowed on purpose.
Correct when: a set may be incomplete but never mixed, success means the whole
set is on disk, and an abandoned set can be finished.

**Run execution** (`execution/batch_runner.py`, `runner.py`, `audit.py`,
`completion.py`, `progress.py`, `storage/result_store.py`).
State: the preparer binding, the content-closure binding, one result file per
job, `completion.json`.  Operations: one invocation of the executor binds the
run, checks what is stored, walks the plan, stores new results, counts, audits
and completes; `inspect_run_progress` names the state of the run.
Hard: concurrent invocations on one run, check-then-create on the bindings,
resume after a crash with another budget, results damaged or removed between
invocations, drift of the runtime in the middle of a comparison.
Correct when: results are of one preparation, counts and completion are honest, the inspected state only advances, and damage stops work.

**Research finalization** (`experiments/algorithm_research.py`,
`experiments/research_receipt.py`, `execution/research.py`,
`storage/result_store.py`, `storage/result_set_store.py`).
State: result set, completion, receipt, finalization marker, publication
history, the evidence copy in the git working tree, and HEAD.  Operations:
finalize, inspect, upgrade of schema-1 documents.
Hard: eleven documents and checks in sequence with a crash possible between any
two, racing finalizers whose receipts differ in who wrote them, three reads of raw
results that may change in between, commits that move HEAD.
Correct when: the marker cites exactly what is on disk, no crash makes the run
look damaged for longer than its repair, the exported copy is the marked
receipt, and what an upgrade replaces is kept.

**A Stage 21B run** (`stage21b/store.py`, `stage21b/runner.py`).
State: the run spec, a SQLite journal (`checkpoint.sqlite3`) of attempts and
terminal outcomes with its journal mode, two Parquet exports, a seal that holds
checksums, a supersession record.  Operations: open (create, initialise, verify,
complete an interrupted seal), recover, begin an attempt, record an outcome or a
failure, seal, verify the seal, supersede.
Hard: the directory is not locked, so two processes may run at once; recovery
closes the attempt of a live process; `_connect` looks for a seal before it
writes; crashes between schema, rows, exports and seal; limits and resume.
Correct when: the journal can always be opened again, a pair gets one terminal
outcome for ever, the exports are the journal, a seal verifies for good, and a run
that is asked for again and again is sealed.

**The FLX worker** (`flx/worker.py`, `flx/integration.py`,
`experiments/flx_adapter.py`).
State: a session with its child process, the reader thread's queue, whether the
runtime is loaded, the stored results.  Operations: validate the environment, compare (load
if necessary, then five requests), close.
Hard: a response names its operation only, the queue is not emptied when a worker
is replaced, an answer may come between the missed deadline and the kill, a
session left behind by the validation, a start that fails half-way.
Correct when: a score comes from the answers to its own requests, there is never a
second worker, what the validation leaves behind costs no comparison.

**The bridge worker** (`adapters/fingerprints_matching/bridge_client.py`,
`adapter.py`).
State: the child the client holds, its pipe, one kill timer per request.
Operations: request (start if there is none, write, arm, read, disarm), close.
Hard: the timer against the answer, a child killed after it answered, lines that
are no responses, children that die between two requests.
Correct when: what is stored of a pair is the answer to that pair, one fault costs
one comparison, no child is left behind.

**Process supervision** (`adapters/support/process.py`).
State: the tool, what it started, its process group or Windows job.  Operation:
`run_external_command`: launch, wait, and at the deadline SIGTERM, grace, SIGKILL,
reap, prove; or `taskkill` and the job.
Hard: processes are started while others are killed, some leave the group, zombies
answer signal 0, the tool ends as its deadline passes.
Correct when: a timeout is returned only over a group or job that is gone, and an
error has a reason.

**Runtime bundles** (`storage/runtime_bundle_store.py`).
State: the source files (build output), copies under a name made of their digests,
a manifest.  Operations: `materialize`, `verify_bundle`.
Hard: builds go on while files are digested and copied, two writers, a crash
between a copy and its executable bits, damage.
Correct when: a bundle is whole and launchable and is what the sources were at one
moment; a damaged one is reported and never mended.

**Prepared images** (`experiments/sd300_canonical500_images.py`,
`storage/prepared_image_set_store.py`, `imaging/`).
State: image files named by their digests, an entry per image, the set with its
audit, receipt and marker, the evidence copy and HEAD, the resampler installed.
Operations: `materialize` (with a budget), `finalize`, `inspect`.
Hard: the resampler is identified by files hashed before it is first used, and may
be replaced at any moment; several processes, each with its own; crashes between
any two files; commits.
Correct when: a finished set was made by one resampler, its marker cites what is
on disk, and whoever asks again finishes what another left.

**Protocols** (`datasets/base.py`, `protocols/`).
State: none beyond inputs and outputs.  Operations: subject records, cohort, pairs,
cross-subject roster, audit of a stored roster.
Hard: records and index count usable images each in its own way; criteria and plan
are chosen apart from each other; the cyclic shift; an audit that counts.
Correct when: a cohort can be paired as far as its criteria go, impostors are balanced, a roster
passes exactly if it is the whole product.

**From results to rates** (`decisions/`, `eligibility/`, `evaluation/`, `metrics/`,
`protocols/self_filtering.py`).
State: none beyond inputs and outputs.  Operations: a decision per comparison,
eligibility per finger, views, counts by release, rates.
Hard: failures, undetermined and excluded rows belong to some denominators and not
to others; a manifest whose pairs are not what their stage says.
Correct when: a rate is the share of what its name says, over units that are three
comparisons of one finger.

**Thresholds** (`baseline_evaluation/sweep.py`, `calibration/selection.py`).
Hard: ties, failures, targets between two steps, targets nothing meets.
Correct when: the selection is the optimum over every threshold there is.

### Not modelled

| component | why |
|---|---|
| Planner, jobs, blinding (`execution/`) | deterministic derivation of the plan; next in the plan below |
| Regenerated documents (`core/serialization.py`) | one file, last writer wins, no behaviour of its own |
| Other stores (`storage/*_store.py`), derivation receipts | validation and layout around the two publications |
| Paired and cross-algorithm comparison | statistics over two result sets, numeric content |
| Workspaces and runtime guards (`adapters/support/`) | scratch directories and hashing; their outcome is `Drift` in `RunExecution` |
| FLX analysis, modern matchers, final baseline, stage experiments | one-off drivers, over half of the package, that call the parts above in sequence |
| Datasets, pixels, adapters' formats | parsing and pixel work without state |
| Integrations, scripts | third-party programs and command-line entry points |

### How the parts interact

`publish_set` creates every one of its files with `publish_file`.  The result
store creates bindings, results, completion, receipt and marker with
`publish_file`, and the plan and the result set with `publish_set`.  Runtime
bundles and prepared images are made of both.  The
executor and the finalizer never talk to each other: the finalizer reads what
executors stored.  Inspection reads everything and writes nothing.  The walk of an
executor calls one adapter per comparison, which may hold an FLX worker or a
bridge, or run a tool under process supervision; what comes back, an error
included, is stored as that comparison's result.  Decisions, eligibility, views
and metrics each read the layer below and the pair manifest.  Nothing is called
back.  Between processes of the program nothing is locked, so every interaction
of theirs is an interleaving of file operations.  Stage 21B keeps its results in a
database of its own; it shares only the publication of files.

## 2. How the models are layered

```
 CreateIfAbsent  <=  AtomicPublish         one file, both mechanisms
       | used as an atomic step by
 SetRegister     <=  SetPublication        a manifest and its bodies
       | used as atomic steps by
 RunExecution                              bind, walk, store, audit, complete
       | its finished results are the input of
 ResearchFinalization                      set, completion, receipt, marker, copy

 Stage21BStore                             journal, exports, seal (files: CreateIfAbsent)

 MCPublication                             AtomicPublish, SetPublication or
                                           ResearchFinalization, one at a time
 MCParts                                   one of these at a time
   FlxWorker  BridgeWorker  ProcessTree    a child process and its parent
   RuntimeBundle  ImagePreparation         files of a run (files: CreateIfAbsent)
   Protocol  Evaluation  Threshold         derived documents
```

`<=` is refinement: the specification on the right is shown to implement the
one on the left, by TLC on an instance and by a proof for every instance.  The
upper layers then use the abstract step.  A create-if-absent in `RunExecution`
or `ResearchFinalization` is one atomic action because `AtomicPublish`
implements `CreateIfAbsent`; it is not assumed.

The parts under `MCParts` share no state with each other, and what `RunExecution`
sees of them is an answer it does not trust: `Compare` admits every verdict.  They
are therefore checked side by side in one run, whose `focus` says which part moves;
each is a specification of its own (`FlxSpec`, `BridgeSpec`, ...).

The theorems are in modules of their own, which the models do not depend on:
`AtomicPublishProofs`, `SetPublicationProofs`, `RunExecutionProofs`,
`ResearchFinalizationProofs` and `Stage21BStoreProofs` about the module of that name;
`ChildProcessProofs` about `FlxWorker`, `BridgeWorker` and `ProcessTree`;
`FileStoreProofs` about `RuntimeBundle` and `ImagePreparation`; `PartsProofs` about
`Protocol`, `Evaluation`, `Threshold` and the composition in `MCParts`.  The other `MC*` modules
add only instances and symmetry.

## 3. The modules and the code

**AtomicPublish.**  A publisher is one call of `publish_file` on one path.
`target`, `claim` and `scratch` are the three paths; `fileAt` is the place in the
call; `attempts` counts rounds of `_reserve_by_claim`.  Every system call that
another process can observe is an action: `Produce`; `LinkCreates`,
`LinkFindsTarget` and `LinkUnavailable` for `os.link`; `TakeClaim` and
`ClaimRefused` for the `O_EXCL` open; the two reads of `_await_publication`
(`AwaitLooksAtTarget`, then `AwaitLooksAtClaim`); `LookUnderClaim`, `Swap`,
`Release`; `Compare` by the loser; `Tidy` and `TidyFails` for the `finally`, whose
`unlink` may raise and then is all the caller hears, even of a file it has published.
`AwaitTimesOut` and `ClaimsExhausted` raise the same `PublishConflictError` as a
comparison that found other bytes, and answer "conflict" as it does; `compared` is a
history variable that tells the two apart.  A sentinel whose
`unlink` fails stays; Windows's permission error during a pending delete is a
refusal without a sentinel.  A scratch name is private (it holds the process id
and random bits in the code), so `scratch` is a set of calls.  A crash leaves
scratch and sentinel; the operator may remove a sentinel that no live call holds,
as the error message asks.

**CreateIfAbsent.**  The contract at the head of `publish_file`: created,
identical, conflict; or a caller that gave up (`GiveUp`), by an error or by a conflict
nobody compared for; or one whose answer was lost in its clean-up (`Withhold`).

**SetPublication.**  A process at a loop has a cursor `at`: each body is looked
at, verified, created and read back in a step of its own, which is where
publishers interleave.  A set is its fingerprint and `Content[s][i]` is the
canonical content of its body, so the wall clocks two writers stamp are already
gone (`canonical_table`, `canonical_document` leave them out).  `present` is the
list step 4 takes, deliberately stale at steps 5 and 6.  `ClaimLost` is enabled
also while the manifest is absent, because `publish_set` does not look at why
`publish_file` refused (a stale sentinel refuses too).  The initial directory
may hold any bodies.  `verify_whole_set` reads files that are never changed once
they exist, so step 7 is one action.

**SetRegister.**  A name is owned by one set for ever, the set becomes whole
once and stays whole, and success is told only over a whole set of one's own.

**RunExecution.**  `pc[w]` follows `SingleJobRunner._preflight`
(`bindCheck` … `closurePublish`), `SequentialRunExecutor.execute` (`validate`,
`visit`, `compare`, `write`, `count`) and `RunCompletionService` (`audit`,
`complete`).  The check for stored results and the publication of a binding are
two steps, as in `bind_preparer`.  `Compare` chooses any verdict, because any
ordinary exception of the matcher is recorded as a failed comparison; `Drift` is
the two exceptions that propagate.  `at` and `executed` are the loop's ordinal
and budget; a result stored by another process is skipped, and a result that
appears between the look and the write makes the write raise.  A scan over
stored results (`ScanStored`, `Validate`, `RunAudit`) is one step: results are
immutable, a result stored behind the scan is checked by whoever stored it, and
tampering during a scan has the same outcomes as before or after it.
`ScanStored` and `SkipExisting` may let an unsound result pass, for what they compare
of it is the preparer and the fingerprint of its job; `Validate` does not.
`Unbind` and `Spoil` (damage or loss) are what happens outside the program; a
configuration chooses which.  `tainted` and `certified` are history variables.

**ResearchFinalization.**  `raw` is the content of the finished run, `Counts[e]` what
the algorithm validation counts of it (failures by their code) and `AuditOf(e)` the
totals of that, which is all the audit's fingerprint covers; two contents may agree in
both, in one or in neither.  `Audit`, `Validate` and `Build` are the three reads of the
raw results, and each may find another content.  What the first two found is kept
(`audited`, `validated`) and used again: the read-back and the inspection at the end
are handed the old validation, as lines 612 and 643 of `algorithm_research.py` do.
Each `ensure_*` call is one create-if-absent step; the result set is two steps
(manifest, rows).  A receipt is its set, totals, counts, schema and who wrote it
(the fields its semantic fingerprint leaves out: time and timings); the marker
cites the receipt by content.  The upgrades of schema 1 take three steps each:
compare, archive, replace.  `ReadBack` compares every stored document with every
other; `Status` is `inspect_research_run` with a validation of its own, `StatusGiven(v)`
with the one it is handed.  `changes` and `beside` are history variables: how often the
inputs changed, and whether two finalizers have met over a marker still to be upgraded.
The evidence copy is created with mode `xb` and written afterwards: two steps.
A dirty working tree refuses the next finalization (`Clean`), which is why
`Commit` and `Discard` are in the model.

**MCPublication.**  The three modules above that publish, side by side in one run:
`part` says which of them moves, the others rest in one initial state.  Fairness is
each module's own.

**Stage21BStore.**  A process is one command: `preflight` opens the store,
`run` works on it, with or without `--limit`.  `pc` goes through `_initialise`
(`open` … `verify`), `Stage21BRunner.run` and `_execute` (`recover` … `cleanup`) and
`seal` (`seal` … `publish`).  Each write is two steps, `Gate`: `Admit` is the look
for exports, seal and supersession, and the step after it is the switch to WAL mode
with the transaction.  A journal is the classifications of each pair's attempts and
its terminal outcome; times, messages and scores are left out, and an outcome is its
attempt and status.  A checksum is whether it still holds: `fresh` for one a process
is about to seal, `sealHolds` for the sealed one.  A row written, or a switch of the
mode, ends it; a transaction that changes nothing does not.  The freeze fails while
another connection is open in WAL mode and may fail while one is being opened.
`Fault` is any exception inside `_execute` (the
matcher's process, a drifted adapter, the database).  `integrity_report` and the two
reads of the journal before the export are one step each, because a complete journal
does not change, which `ExportIsTheJournal` checks.  `beside` and `troubles` are
history: crashes, faults and starts beside a running process share one bound.

**FlxWorker.**  One invocation: a validation, then `compare` for every comparison.
A call has a `script`, the requests it still has to make; `flxAt` says whether the
parent asks or waits.  `inbox` and `responses` are the worker's stdin and its
stdout with the reader's queue.  `Open` is `start`, `Answer` and `Refuse` the worker's
two responses, `Ask` and `Read…` are `request`, `Expire` the missed deadline with its kill.
The worker may also print, die or answer nothing.  `evidence` is a history
variable: the answers each comparison used, with the worker that gave them.

**BridgeWorker.**  One walk of the runner over a bridge.  `handle` is the process
the client holds, `todo` and `pipe` its two ends, `armed` the timer of the request
being read, `loose` the processes a timer was fired for that are not killed yet:
`TimerFires` and `TimerKills` are two steps because the timer's thread runs beside the
reader.  `ReadEnd`, `ReadNoise` and `ReadStray` are the three ways a line is not an
answer; `Store` is what the runner does with each outcome.

**ProcessTree.**  `born`, `running`, `zombies` and `container` (the group or the
job) are sets of processes; the tool is process 1.  The tool and its descendants
`Spawn`, `Escape` (setsid), `Exit` and are waited for at any moment.  The steps of the
caller are the system calls of `run_external_command` and `_end_process_tree`, each of
which may fail (`OsMaxFaults`).

**RuntimeBundle.**  Each source has a version, which a build may raise at any step.
A call digests every source (`DigestSource`), looks for the bundle (`FindBundle`),
copies file by file (`CopyAsset`; `SourceChanged` if a digest no longer fits), sets
the executable bits (`PreserveMode`) and publishes the manifest.  `created_utc` makes
two manifests of one bundle differ, so the slower writer is refused
(`ManifestExists`) and asks again.  `moments` is a history variable: what the sources
were at every moment.

**ImagePreparation.**  An image is known by its source and the resampler that made
it (two resamplers are taken to differ on every image).  A process takes the installed resampler at `ImportPillow` (`library`) and
records what is installed at `CaptureBefore` and `CaptureAfter`.  `ReuseEntry`,
`PlaceImage`, `RecordImage` and `StopWalk` are the walk, with any budget of one image
or more.  `finalize` follows the numbered comments of the code: collect, publish the
set file by file, verify it, audit between two captures, receipt, marker, inspect,
copy.  A receipt is its verifier (commit and runtime) and its writer; only the
first is compared.  `PrepStatus` is `inspect_preparation`.

**Protocol.**  `Deliver` chooses a dataset and the criteria: a slot with no usable image,
two, or an unusable one; a subject without a single-finger image in a release, with a
slap there or without; any releases; and `allTen`, the impressions of which a subject
needs every finger (`require_all_ten_plain`, `require_all_ten_roll`).  Then `SelectCohort`
(any ranking stands for the SHA-256), `GeneratePairs` under any of the `Plans`, a set of
stages and a shift, or `GenerateCrossSubjectPairs` and `AlterRoster`, what can happen to
a stored roster.  The pair generator asks for both impressions of every finger whatever
the criteria and the stages are; the cross-subject one asks only if there are two
subjects.

**Evaluation.**  Results and a manifest with `MaxOddities` deviations, then
`ApplyProfile`, the mapping of the eligibility units, `DeriveEligibility`,
`BuildViews` and `Aggregate`, each with its refusals.  A score is where it lies of the
threshold (below, at, above), and the four comparators are the profile's.

**Threshold.**  A score for each attempt or a failure, the walk of the sweep one
tied group at a time with its running counters, then both selections over one
target.

**MCParts.**  `focus` is chosen at the start and the other parts rest.  Fairness is
each part's own.  The properties with a name of their own there bundle a part's
invariants, its type invariant included.

## 4. What the runs check

| run | instance | what it shows |
|---|---|---|
| `publication` | every part of `MCPublication` in turn, see below | *file*: implements `CreateIfAbsent`; answers agree with the disk, the sentinel is exclusive, losers have a winner (`AnswersAreTrue`); every call ends. *set*: never mixed, success is true (`SetsAreSound`); no body before the claim, a claimed set is finished; implements `SetRegister`. *research*: RESEARCH_READY and exported in the end |
| `publish_conflict` | 2 publishers of the same bytes, no hard links, 1 round | violated: see section 7 |
| `run_race` | 2 executors, 2 jobs, budgets 1 and "all", finalize or not, crashes and drift | what an executor counted is on disk, counts honest, completion earned (`ReportsAreTrue`), state only advances, verified in the end |
| `run_tamper` | 2 executors, 2 preparers, 2 closures, 2 jobs; bindings removed between invocations, results damaged or lost | one preparation, one closure; an executor that starts over damage adds nothing |
| `run_pins` | 1 executor, 2 scores, results lost | violated: see section 7 |
| `research` | 2 finalizers, 2 contents, a commit, a fresh run or one of an earlier release, raw results and bundle change at any moment | the marker cites the chain it stands over; the copy is the marked receipt and its totals are its set's (`ExportIsTrue`); the verifier is attested; what is replaced is kept; INVALID only where finalizing again repairs it |
| `research_frozen` | 2 finalizers upgrading one receipt at once | violated: see section 7 |
| `research_counts` | 1 finalizer, 2 contents with equal totals, one change | violated: see section 7 |
| `store` | 2 processes, 2 pairs, `--limit 1` or none, at most 2 crashes, faults or starts beside another process, supersession at any moment | the journal always opens again (`JournalIsSound`); outcomes are final; what is exported is the complete journal; without a start beside another, the seal verifies from the moment it exists; sealed in the end |
| `store_shared` | 2 processes, 1 pair | violated: see section 7 |
| `parts` | every part of `MCParts` in turn, see below | a score is its own comparison's, an answer its own pair's; a comparison fails for a reason; nobody is left behind; a lost FLX worker is final; no error without a cause; bundles and image sets are what they are said to be; rosters, rates and thresholds agree with their definitions; every caller gets to an end |
| `bridge_stops` | 2 comparisons over one bridge, 1 fault | violated: see section 7 |

In `research` two finalizers may upgrade an old run side by side, and nothing prevents
that in the code.  From then on (`beside`) `MarkerCitesTheChain`, `InvalidIsUnfinished`,
`VerifierIsAttested` and the first half of `ExportIsTrue` claim nothing, for
`research_frozen` shows that they fail; `HistoryIsKept` and the totals of a copy are
claimed all the same.  The totals of a copy are claimed over one change of the inputs
among the three reads: there and back again, two changes, may go unnoticed.

The instance of `publication`: *file* 2 publishers, 2 contents, a mount with hard links
and one without, 2 rounds of the claim loop; *set* 2 publishers of 2 sets that share a
body, over all 16 contents an earlier directory can have, dying and retrying; *research*
2 finalizers, crashes that end, a fresh run or one of an earlier release, inputs and
HEAD at rest.

The type invariants of `AtomicPublish`, `SetPublication` and `RunExecution` are
theorems (section 6), as is `NeverClobbered`, which `ImplementsFileRegister` contains;
the runs spend nothing on them.

The instance of `parts`, about 762,000 states: *FLX* 3 comparisons, 1 fault;
*bridge* 3 comparisons, 2 faults; *tree* 3 processes, both platforms, 1 failure of the
system; *bundle* 2 writers, 2 files, each rebuilt once, 1 crash or damage; *images* 2
processes, 2 images, 2 events (a replaced resampler, a commit, a death, a damaged
file, in any combination); *protocol* 2 releases, 3 subjects, 3 fingers, a cohort of 2,
any criteria and plan, 1 flaw, 2 alterations of a roster; *evaluation* 2 releases, 2 fingers, 2 oddities;
*threshold* 2 genuine and 3 impostor attempts, scores up to 3, targets in sixths.

### Bounds and why they are enough

*Writers.*  Every hazard of `publish_file` is between one who holds or links and
one who looks, waits or compares, and a call that crashed leaves its sentinel to
the other.  The proofs remove the bound.  *Contents.*  Two values tell "same" from
"different", so the first caller's may be fixed (`FileBegins`), and at each body of a set some value belongs to no set.
*Bodies.*  Two: one that the sets share, one that differs, so a body of the
wrong set can pass for the right one.  *Rounds of the claim loop.*  `ClaimAttempts
= 2` lets a call lose a round, wait and win or be exhausted; the code has more,
which adds rounds of the same kind.
*Jobs.*  Two: one that is stored and one that is not yet; a budget of 1 stops
between them.  *Executors.*  Two: every race in `RunExecution` is between one who
looked and one who wrote.  The proofs remove both bounds.  *Scores.*  One where
only the writer matters (`by` already tells two results of one job apart), two
where the score matters.  `Finalizing` is what `finalize` may be: `run_tamper` is
about what is stored and never finalizes.
*Troubles.*  Two: a process beside another and a crash of either, or two crashes of
one sealing.  *Pairs.*  Two: one before and one after the pair in flight.
*Comparisons of a worker.*  Three: one that goes wrong, one that inherits what it
left behind, one after that.  The proofs remove the bound, and that on faults.
*Processes of a tool.*  Three: the tool, a child that stays, one that leaves.  *Files
of a bundle, images of a set.*  Two, so that two builds or two resamplers can each
have made one.  *Events of a preparation.*  Two: a resampler replaced and put back is
the hardest case, for then both captures of the runtime agree.  *Protocol, rates and
thresholds.*  Every input within the bounds is tried; three fingers are the fewest
for which the cyclic shift is not its own inverse, and each deviation alone and any
two together are there.  *Contents of a run.*  In `research` two that audit differently, so that totals of one
cannot pass for totals of the other; in `research_counts` two whose totals are equal and
whose failures differ in kind.  *Changes of the inputs.*  One, which falls before,
between or after any of the reads.  *Commits.*  `MaxHead = 1`: a commit anywhere in a
call or between two; a second one adds another later verifier of the same kind.

Symmetry is used for safety only, over processes, which no definition tells apart.

Deadlock is checked in every run but `publication`, `publish_conflict`, `parts` and `bridge_stops`: there
calls end, and when all have ended nothing is left to do; and in `publication` two
upgraders that have met stop.

## 5. Fairness

*A process that runs gets on with its work*: `WF_vars(Step(w))`.  The operating
system schedules live processes; a crash is not part of `Step`.

*The deadline of a wait*: `SF_vars(AwaitTimesOut(w))` in `AtomicPublish`.  The
loop of `_await_publication` runs `while time.monotonic() < deadline`; a waiting
call alternates between two reads, so the exit is enabled again and again, and
after the deadline it is the only one.  In `MCPublication` each action carries the part
it belongs to, so that nothing is asked of a part that rests.

*Somebody asks again*: `SF_vars(Retry)`, `SF_vars(LaunchBound(w))` and
`SF_vars(Begin(w))`.  The program does not restart itself; its documents describe
a user who does.  The liveness properties say that such a user succeeds.  The
fair settings in `RunExecution` are the ones the run is bound to, with `finalize`
left at its default.

In `Stage21BStore` it is `SF_vars(Launch(w, Run(NoLimit)))`: the command without
`--limit`, which alone seals.

*Faults end*: in `Stage21BStore`, by the bound on troubles; elsewhere `FaultsStop` says that from some unknown point on nothing dies (and
nothing drifts, no sentinel is left behind).  Without it a process may die before
its first step for ever.  Before that point they are unrestricted.

*A truncated copy is discarded* in `ResearchFinalization`: the code refuses to
finalize over it, and it is the user who removes it.

*In the parts*, the program's side moves: the parent of a worker (`FlxParent`,
`BridgeClient`), the timer's thread (`BridgeTimer`), the caller of a tool (`TreeCaller`),
a call of `materialize` and one of the preparation, repeated when it fails
(`Materialize(w)`, `Prepare(p)`).  All weakly fair: each is enabled until it is taken,
for deadlines pass and a killed process is gone.  Nothing is asked of a worker, a
bridge or a tool, all of which may hang for ever.

`FinalizationEnds` is checked with HEAD at rest and excepts two that upgrade beside each
other.  The marker's fingerprint
holds the verifier's revision, so a commit between the published marker and the
evidence copy makes each later attempt conflict; it is listed among the hazards.

## 6. What is proved

Assumptions are the named `ASSUME`s of the modules (a number is a number, a model
value is none of the others); TLC evaluates them on every run.  The theorems hold
for any number of processes, contents, sets, bodies and rounds.

*AtomicPublishProofs.*  `TypeCorrect` needs nothing more.  `NoClobber`,
`TruthfulAnswers` and `Refinement` assume `UniformLinks`: hard links work for
every caller of a path or for none.  The assumption is needed: a caller for whom links fail takes
the sentinel, which one who links never looks at, and its rename can overwrite what
the other published.  `NeverClobbered` is not inductive: a rename
overwrites unless the target is absent at that moment.  The invariant `Inv` adds
that with hard links nobody reaches the sentinel (`OneMechanism`), that the
sentinel is exclusive, that a holder about to rename has an absent target
(`RenameIsSafe`), and that a holder who gives up without an answer saw a target
(`ReleaseIsExplained`), and that whoever compared has its answer since (`ComparedLate`).
`TruthfulAnswers` says of a conflict that the bytes differ if they were compared, and
that otherwise hard links do not work for this caller: what `publish_conflict` refutes
without that distinction.  `StepInv` proves, one action at a time, that a step keeps
`Inv`, writes the target at most once and is a step of the register or stutters.

*SetPublicationProofs.*  `SetIsNeverMixed`, `ClaimComesFirst` and
`Refinement`.  `NeverMixed` is not inductive: the claim itself creates the
manifest over whatever bodies are there.  `InspectedBodiesFit` records what the
inspection before the claim established, and it survives other publishers because
nobody creates a body while there is no manifest.  `OwnsTheName` says that past
step 3 the manifest is one's own.  The control operators (`Goto`, `Return`,
`Advance`, `Verify`) have a lemma each, and `QuietStep` covers every action that
leaves the files alone.

*RunExecutionProofs.*  For any executors, jobs, settings and tampering.
`TypeCorrect` needs `MemoryFits`: what an invocation holds fits the step it has
reached (an ordinal within the plan while it compares and writes, a result in hand
when it writes, an audit when it completes, fewer results than the ordinal).
`RunIsNeverMixed` is `OnePreparation`, `ClosureIsNeverMixed` is `OneClosure`.  Neither
is inductive: a write could bring a second preparer.  `PreparerInv` adds that an executor past its
binding holds the preparer the run is bound to (`HoldersAreBound`), that a sound
result came from that preparer or the binding is gone (`ResultsAreBound`), and that
while the binding is gone and results are stored nobody is about to publish a new
one (`NobodyRebinds`).  `NobodyRebinds` is why `bind_preparer` may look before it
publishes: results appear only once there is a binding, and bindings disappear only
while no executor runs.  That last clause is an assumption of the model (`Unbind`).
`ClosureInv` says the same of the closure of a research run.

The second half of the module is about completion.  `StepKinds` sorts the steps: one writes a fresh result, one
completes the run, the others touch neither (`StepSorts` says the same of the program's
steps under any tampering).  Under `Tampering = {}`, `HonestInv`
gives `CompletionIsTrue`, `CountsAreStored` and `OnlyForward`.
`CompletionIsEarned` is not inductive, for the completion is written from an audit
taken earlier; `AuditorsAreRight` carries that audit over the steps in between,
because a whole run stays as it is.  `DamageStops` holds under any tampering, by
`DamageInv`: nothing repairs a damaged result (`DamageStays`), so an executor that
started over one never reaches its walk.  These results need `Tampering = {}`
where they say so: a lost result leaves the counts and the completion that named it
behind, as `run_pins` shows.  `CompletionPins` draws that line exactly: a completion
pins the results as long as nobody deletes one, though bindings are removed and results
damaged.  By
`PinInv` a run that is about to be completed is whole and a whole run stays whole, so nothing is
written under a completion; a result damaged afterwards shows for good.

*ChildProcessProofs, the FLX worker.*  For any number of comparisons and faults: `FlxTypeCorrect`,
`ScoresAreTheirOwn`, `NeverTwoWorkers`, `LossIsFinal`, `NoFailureWithoutACause`.  A score is its own although a
response does not say which request it answers, and that takes all of `FlxInv`.
`KeepStep`: while a worker lives, what is under way is the request its parent waits for or the one
answer to it, and otherwise nothing.  It survives because every way out of a wait
other than the answer kills the worker, and a new worker is opened only by a call
that has not loaded its runtime (`SoleWorker`); lines of a dead worker
may still be queued, but no answer is read from them.  `InScript` ties what a call
still has to ask to whether the runtime is loaded, `EvidenceGrows` says that the
answers used so far are those to the requests made so far, and `OncePerCall` bounds the
workers started.  For the causes of failures `Healthy` is added: until something goes
wrong the worker lives as long as its call needs it, and what it has written and
nobody has taken is the answer that is waited for.

*ChildProcessProofs, the bridge.*  `BridgeTypeCorrect`, `AnswersMatchRequests`,
`OneBridge`, `EachFaultCostsOne`.  Here
a bridge lives through many requests, so `InStep` carries the argument: between two
requests nothing is in either pipe, and within one the only answer is the last line
and answers this request.  Whatever would break that ends the bridge, but for a line
that is JSON and no response (`strayRead`), after which nothing is claimed.
`OncePerComparison` bounds starts and timers.  That one fault costs one comparison
and no more is an account, `Paid`: comparisons lost, bad lines still to be read, and a
bridge that is dead or about to be killed and not yet missed are together at most
the faults and late answers there were.  A fault may cost its comparison several
steps later, so the debt has to be carried in between.

*ChildProcessProofs, the process tree.*  `TreeTypeCorrect`, `NoneOutlivesATimeout`, `NoFalseAlarm`, for
any number of processes and failures.  `OnTheWay` says which steps belong to which
platform and where the tool is on each; `KilledIsGone` that after SIGKILL a group does
not grow again, because only its members could have started more.

*ResearchFinalizationProofs.*  `MarkerIsAuthoritative`, `ExportsAreTrue`,
`DamageIsOnlyUnfinished`, `VerifierIsNamed`, `NothingIsLost`, `ReceiptIsFrozen`, for any
finalizers and contents, whatever crashes and is changed underneath, and however
finalizers meet.  Two invariants carry them.  `BaseInv` holds always: what a finalizer
holds is what it read or built and what it has made sure of on the way stays so
(`Held`), whoever is about to replace an earlier document has kept it or finds it
replaced (`Keeps`), and, as long as the inputs changed once at most, what it read is of
one content or the later check sees the difference (`Reads`).  From it follow
`NothingIsLost`, which needs no turns (the second of two upgraders replaces a document
of this release, the first has kept that of the earlier one), and the totals of
`ExportsAreTrue`.  `ChainInv` holds until two finalizers stand over a marker still to be
upgraded: that the documents on disk agree but for a receipt that was replaced before
its marker (`ChainAgrees`), that an upgrader is alone (`UpgradeIsAlone`), that a
citation is of the stored receipt (`Fits`), and that a copy is the marked receipt, in
the working tree and in HEAD.  From both follow the marker, the verifier, the damage and
`ReceiptIsFrozen`, the claim that `research_frozen` refutes of two upgraders: otherwise
only an upgrade replaces a receipt, and an upgrade ends with the marker.

*Stage21BStoreProofs.*  `JournalStaysSound`, `ExportsMatch`, `SealHoldsInTurn`,
`OutcomesStay`, for any processes, any number of pairs and of attempts, and crashes at
any step.  In `StoreInv`, `JournalFits` says that a pair is attempted only when
every pair before it has its outcome; it survives a process that plans from an older
look, because the pairs before one that such a process has still to do are still to be
done by it as well, or are done (`InOrder`).  `Ready` says that whoever seals does so over a complete journal.  A
complete journal is final, so the exports, which are written from a read several steps
old, agree with it and with each other (`FilesFit`).  `InTurn` is the checksum's
part: while processes take turns nobody who could still write runs over a seal.

*FileStoreProofs.*  `BundlesAreRuntimes`: a bundle is whole and of one moment of its
sources although every source is digested, and later copied, in a step of its own.
`CallIsSound` keeps a witness, a moment at which the sources were all between the digests
taken and their versions now; a copy that still has its digest pins that moment down
for its role.  `DamageStays` and `FilesAreSound` carry, for each call, the damage that
was there when it began.  `PreparationsEndSound`: one resampler, a marker over what is
on disk, and readiness that only damage ends.  What holds it together is that no entry
is ever replaced, so who made an image stays true (`FilesGrow`), and that a process
holds what its numbered step of `finalize` has established (`CallHolds`).

*PartsProofs, the protocol.*  `RostersAreComplete`, for any releases, subjects, fingers,
cohort size, criteria, plan, flaws of the dataset and alterations of a roster.  A cohort
is complete in every release for the impressions its criteria ask for, so a generator
that finds an image missing misses one of another impression.  The generator's
output is counted by pairing it one to one with a product: a cross-subject roster is
`CrossOf(releases, PairsOfTwo(cohort), fingers)`, so it has n (n - 1) F R members.  A
roster that passes the audit consists of honest pairs of the cohort, which are
members of that product, and the audit's totals give it the same size: it is the
product.  That the cyclic shift leaves no finger in its place and sends no two to
one is what balances the same-subject impostors.

*PartsProofs, the thresholds.*  `SelectionsAreOptimal`, for any attempts, scores and
targets, in either direction of the comparator.  The sweep carries two running counts;
`PointsCount` says they are those of a threshold at the cut, `NoneSkipped` that every
score is cut or still to come, `CutsAreOrdered` that no cut repeats.  The boundary is
optimal among all thresholds, not only those the sweep looks at, because the sets of
scores that thresholds accept are nested: counting them compares them, and each
threshold accepts what one of the cuts does.

*PartsProofs, the rates.*  `RatesAreWhatTheySay` and `NothingIsUnaccounted`, for any
releases and fingers, any results and any manifest that `DeliverRun` may produce.  The layers derive and refuse
and never repair, so `EvInv` says of each layer that, once derived, it is what it was
derived to be from the one below (`DecisionsAre`, `UnitsAre`, `SelectionIs`,
`CountsAre`).  Everything else follows from that: a mapping that was accepted has
exactly one comparison of each kind per finger (`TheIs`), and these join one finger
(`UnitsJoinOneFinger`); a unit has the status its scores give it (`ConditionIs`), which is
what `self_filtering` computes on another way (`SurvivorsAreEligible`).  A pooled
count is a sum over releases and outcomes, and a sum is a fold.  `SumCounts` shows what
such a sum is without induction: the number of rows, for the sets of rows that are summed are
disjoint (`CountsAreRows`, `PooledCounts`).  Its proof names the function that counts
the rows and shows that it solves the equation by which the sum is defined; a least size
at which they differ cannot exist.  Each rate is then a share of rows, and the metric
policy's numerator and denominator name the rows (`MetricsAre`, `PopulationIs`).
`NothingIsUnaccounted` says that two refusals of the upper layers cannot be met: every
mated comparison has its unit, and the SELF decisions are those of the units.

Proving it found an error of the model: two arms of one CASE both applied to a rate of
eligibility over attempts.  TLC takes the first arm; TLA+ leaves the value open, and
nothing could be proved of it.  The arms of `Denominator` now exclude each other.

*PartsProofs, the composition.*  `EachPartIsItself`: a behaviour of `PartsSpec` is a
behaviour of each of the eight parts, so what is proved of a part holds in the
composition.  From it follow `NobodyIsLeft`, `EveryFailureHasItsCause`,
`BundlesStaySound`, `PreparationsStaySound`, `RostersStayWhole`, `RatesStayTrue` and
`ThresholdsStayOptimal`, which are the invariants of the run `parts` under the names of
that run.

*Only model-checked.*  Every safety invariant and every action property of the passing
runs is a theorem.  The liveness properties `FileCallsEnd`, `ClaimedSetIsFinished`,
`FinalizationEnds`, `RunIsEventuallyVerified`, `EventuallySealed` and
`CallersEnd` are not: the prover reaches neither fairness nor ENABLED.

## 7. Where the code and its text disagree

1. `CompletionPinsResults` (`run_pins`).  `execution/completion.py:8-11` says a
   completion cannot be reused after the results underneath it changed.  The
   audit fingerprint covers counts and issues, not the results: a result that is
   lost and computed again with another score leaves the run VERIFIED.  Of the
   changes from outside that are modelled only a deletion does that (`CompletionPins`).
2. `MarkedReceiptIsFrozen` (`research_frozen`).  `core/research_models.py:592-594`
   says that a receipt is frozen once its marker is published.  Two finalizers that
   upgrade one schema-1 receipt both pass the comparison; the slower one replaces
   the receipt the faster one's marker cites, and the run is INVALID.  Until two
   stand over a marker still to be upgraded the receipt is frozen (`ReceiptIsFrozen`).
3. `SealIsStable` (`store_shared`).  `stage21b/store.py:1045` says that the freeze
   leaves "one stable database file for the seal".  `_connect` (line 137) looks for a
   seal and only then switches the database to WAL mode, which rewrites the header of
   the file.  A process that looked before the seal switches after the sealer hashed
   the file; `verify_seal` refuses the run from then on.  Nothing keeps two processes
   from one run directory; when they take turns it does not happen
   (`SealHoldsAlone`).
4. `MachineFailureStopsTheRun` (`bridge_stops`).  `adapters/fingerprints_matching/
   adapter.py:282-283` raises for everything that is the machine, so that it "stops
   the run rather than becoming a 6,001st kind of biometric outcome", and
   `experiments/stage15a_canonical500_full.py:28` says the same.  `runner.py:539`
   catches every ordinary exception of an adapter, stores the comparison as
   INTERNAL_ERROR and goes on.
5. `ConflictMeansDifferentBytes` (`publish_conflict`).  `PublishConflictError` says of
   itself (`core/atomic_write.py:87`, and `publish_file` at line 316) that another
   writer published different bytes first.  `_await_publication` raises it at its
   deadline (line 277), and `_reserve_by_claim` when its rounds are used up (line 258),
   with nothing on the path, or with the same bytes on it since the last look.  Only
   callers for whom `os.link` fails meet it (`TruthfulAnswers`).
6. `CopiedCountsAreTheSets` (`research_counts`).  `finalize` says it will "Revalidate
   everything" (`experiments/algorithm_research.py:537`) and `verify_research_receipt`
   that it will "Re-derive every load-bearing receipt claim from current evidence"
   (`experiments/research_receipt.py:198`).  The raw results are audited, validated and
   fingerprinted in three reads; the failure counts come from the second, which is
   compared with neither of the others and is used again for every later check.  If
   results change in between, an exported receipt can tell counts that are not those of
   the results it names.  The totals can not, for one change (`ExportsAreTrue`).

Not checked by a run, but visible in the models:

- `core/atomic_write.py:244-248` gives the second look under the sentinel as "the
  reason `os.replace` below can never clobber a published artefact".  A caller that
  links never takes the sentinel; on a path where `os.link` works for some callers
  only, the rename can overwrite (the assumption `UniformLinks`).
- `storage/plan_store.py:8-12` and `storage/result_set_store.py:8-12` describe a
  table that is written before its manifest.  `publish_set` claims the manifest
  first, and a crash leaves the state those comments exclude.
- `flx/worker.py` promises that every failure path of `request` ends with the
  worker dead; an `ok: false` response (line 244) leaves it alive.  `LossIsForGood` is
  the price of an adapter that reuses its integration without asking whether the
  worker still runs.
- `bridge_client.py:81-83` says that a second caller is an error; the lock makes it
  wait.
- `storage/runtime_bundle_store.py:211-214` says that a second writer has "the same
  bytes and the same manifest"; `created_utc` differs, and it is refused.  Asking
  again succeeds (`EveryoneIsServed`).
- `sd300_canonical500_images.py:409-414` tells the user that a set is void and cannot
  be completed by re-running.  Nothing on disk records it: if all images came from
  the new resampler, a finalizer that runs under it finishes the set, and its
  manifest names the old runtime.
- `core/imaging_models.py:1476-1477` says that re-finalising a preparation is a no-op.
  The receipt holds the verifier's commit, and the evidence copy has to be committed
  before the tree is clean again, so a later finalization conflicts.

## 8. What is left out, and the plan

*Abstractions common to all modules.*  A file appears whole: `publish_file` writes
to scratch first, and the evidence copy, which does not, is modelled in two steps.
Directory creation, fsync and logging are left out.  A digest is as good as the
content (no collisions).  Content comparisons are equality of canonical content.

*In RunExecution*, `run.json`, the definition snapshots, the plan and the runtime
reference are there from the start and the same for everybody.

*In Stage21BStore*, the metadata and the plan in the database are those of the run,
preflight's checks of sources and bytes are left out, and a pair's score is part of
its status.  Two sealers never publish equal seals, for `sealed_utc` differs.

*In AtomicPublish*, a scratch file that stays behind is not looked at again: its name
is private.

*In ResearchFinalization*, the inspection at the end is one step, with the validation
made before it; the operational summary is left out; starting and executing the run is `RunExecution`; the
result set uses the register of `SetPublication`, by manifest and rows.

*In FlxWorker and BridgeWorker*, what an answer holds is left out but for its being
accepted; a kill takes effect at once.  *In ProcessTree*, output and its caps are left
out; SIGKILL ends a process at once.  Windows may start a process before it
is put into the job, and a process that leaves its POSIX group, or a grandchild
of a tool that ends normally, is not ended: the properties say "group or job".
*In RuntimeBundle*, symbolic links, write protection and damage to a manifest are left
out, no source returns to an earlier version, and executable bits are what
`verify_bundle` does not look at.  *In ImagePreparation* there is one definition;
`prepare`, its pointer and the upgrades of older receipts and markers are left out,
as are the source's own checks.

*In Protocol*, an id is its two slots; collisions of the legacy ids are left out, and
configuration files are what the loader accepts of them (it refuses a cohort that is
not common to its releases).  Two usable images of one slot are invisible to the
subject records, and so is an image of an impression that the criteria leave out and
the generator asks for; both break the generator, and `CohortIsPairable` says that
nothing else does.  *In Evaluation*, the check for independent evidence of a SELF
comparison (`require_self_independence_evidence`, `eligibility/self_mapping.py:161-197`)
is left out: it reads what an adapter stored beside a score, which no later layer uses; two of the checks of
`metrics/aggregate.py` never fail: `SelfAgrees`, because of what eligibility accepts
(`NothingIsUnaccounted`), and `CoversReleases`, because at most one pair of a manifest
deviates from the protocol's; non-mated rows are not checked by eligibility; `self_filtering.py` is not
called by the production path and is compared with it.  *In Threshold*, scores grow
with similarity or, by the comparator, against it; the scopes and reports around
the sweep repeat it.

The rest of the package, by size, is one-off stage drivers, preflights and
third-party adapters.  They are straight-line code over the parts above: they read
frozen inputs, compare hashes and counts and call one operation after another.  A
model of one would restate it.

What comes next:

1. `ExecutionPlan`: planner, jobs and blinding against a reference definition.
2. `prepare` and its pointer in `ImagePreparation`.
3. Proofs about both, and that the sources of a refusal in `Evaluation` are exactly the
   deviations that were delivered.
