------------------------- MODULE ResearchFinalization -------------------------
(***************************************************************************)
(* finalize_algorithm_research_run and inspect_research_run                *)
(* (fpbench/experiments/algorithm_research.py, fpbench/execution/          *)
(* research.py): over the finished results of one run a finalizer          *)
(* publishes a result set, a completion and a receipt, reads them back,    *)
(* commits them with an immutable marker and copies the receipt into the   *)
(* repository's evidence/ directory.  Finalizers may race, die between any *)
(* two steps and be started again, perhaps from a later commit.            *)
(*                                                                         *)
(* Every ensure_* call is the create-if-absent register of AtomicPublish;  *)
(* the result set is the two-file set of SetPublication.  A schema-1       *)
(* receipt and marker, published by an earlier release, may be upgraded.   *)
(***************************************************************************)
EXTENDS Naturals

CONSTANTS
  Finalizers,  \* processes running finalize
  Evidence,    \* contents the run's raw results may have, each a sound run
  Counts,      \* Counts[e]: what the validation of e counts, failures by their code
  Totals,      \* Totals[c]: what the audit's fingerprint covers of it, totals alone
  Broken,      \* raw results neither accepts
  MaxHead,     \* how often HEAD moves
  MaxChanges,  \* how often the raw results or the runtime bundle change
  Upgrade,     \* whether a release that wrote schema 1 may have finalised the run
  Truncated,   \* an evidence copy cut short
  Earlier,     \* the process of that release
  Absent       \* a file that does not exist

AuditOf(e) == Totals[Counts[e]]

\* A receipt names its audit and completion by the totals, and tells the counts
\* of the validation; `by` stands for its creation time and timings.
Receipt(e, a, c, w, v) ==
  [set |-> e, totals |-> a, counts |-> c, by |-> w, schema |-> v]

Authors == Finalizers \cup {Earlier}
AuditsOf == {AuditOf(e) : e \in Evidence}
CountsOf == {Counts[e] : e \in Evidence}
Receipts == [set : Evidence, totals : AuditsOf, counts : CountsOf, by : Authors,
             schema : {1, 2}]
Markers == [set : Evidence, totals : AuditsOf, counts : CountsOf, receipt : Receipts,
            commit : 0 .. MaxHead, schema : {1, 3}]

ASSUME HeadAssumption == MaxHead \in Nat
ASSUME ChangesAssumption == MaxChanges \in Nat
ASSUME UpgradeAssumption == Upgrade \subseteq BOOLEAN
ASSUME AbsentAssumption ==
  /\ Absent \notin Evidence \cup AuditsOf \cup CountsOf \cup Receipts \cup Markers
  /\ Absent # Broken
  /\ Truncated \notin Receipts \cup {Absent}
  /\ Broken \notin Evidence
  /\ Earlier \notin Finalizers

VARIABLES
  raw,        \* the raw results on disk
  bundle,     \* the runtime bundle still has the bytes the run was bound to
  resultSet,  \* the result set's manifest: the evidence it fingerprints
  rows,       \* the result set's rows are on disk
  completion, \* the audit completion.json names
  receipt,    \* the stored receipt
  marker,     \* research-finalization.json
  history,    \* what publication-history/ holds
  changes,    \* history: how often what finalizers only read has changed
  copy,       \* the evidence copy in the working tree
  head,       \* the commit HEAD is at
  committed,  \* the evidence copy HEAD holds
  pc,         \* the step each finalizer has reached, "idle" between calls
  commit,     \* the verifier revision it captured
  audited,    \* what its audit found
  validated,  \* what its algorithm validation counted
  draft,      \* the receipt it built, with the result set it is about
  cited,      \* the marker it built from what it read back
  told,       \* what its last call returned
  beside      \* history: two finalizers met over a marker still to be upgraded

input == <<raw, bundle, changes>>
chain == <<resultSet, rows, completion, receipt, marker, history>>
tree == <<copy, head, committed>>
memory == <<commit, audited, validated, draft, cited>>
vars == <<input, chain, tree, pc, memory, told, beside>>

Steps == {"idle", "audit", "validate", "build", "claimSet", "fillSet", "completion",
          "receipt", "archiveReceipt", "replaceReceipt", "readBack",
          "marker", "archiveMarker", "replaceMarker", "inspect", "copy", "copyBytes"}

TypeOK ==
  /\ raw \in Evidence \cup {Broken} /\ bundle \in BOOLEAN
  /\ changes \in 0 .. MaxChanges /\ beside \in BOOLEAN
  /\ resultSet \in Evidence \cup {Absent} /\ rows \in BOOLEAN
  /\ completion \in AuditsOf \cup {Absent}
  /\ receipt \in Receipts \cup {Absent}
  /\ marker \in Markers \cup {Absent}
  /\ history \subseteq Receipts \cup Markers
  /\ {copy, committed} \subseteq Receipts \cup {Absent, Truncated}
  /\ head \in 0 .. MaxHead
  /\ pc \in [Finalizers -> Steps]
  /\ commit \in [Finalizers -> 0 .. MaxHead]
  /\ audited \in [Finalizers -> AuditsOf \cup {Absent}]
  /\ validated \in [Finalizers -> CountsOf \cup {Absent}]
  /\ draft \in [Finalizers -> Receipts \cup {Absent}]
  /\ cited \in [Finalizers -> Markers \cup {Absent}]
  /\ told \in [Finalizers -> {"nothing", "died", "error", "ready"}]

OldReceipt == Receipt(raw, AuditOf(raw), Counts[raw], Earlier, 1)

OldMarker == [set |-> raw, totals |-> AuditOf(raw), counts |-> Counts[raw],
              receipt |-> OldReceipt, commit |-> 0, schema |-> 1]

Init ==
  /\ raw \in Evidence
  /\ bundle = TRUE
  /\ changes = 0
  /\ \E old \in Upgrade :
       /\ resultSet = IF old THEN raw ELSE Absent
       /\ rows = old
       /\ completion = IF old THEN AuditOf(raw) ELSE Absent
       /\ receipt = IF old THEN OldReceipt ELSE Absent
       /\ marker = IF old THEN OldMarker ELSE Absent
  /\ history = {}
  /\ copy = receipt
  /\ head = 0
  /\ committed = copy
  /\ pc = [w \in Finalizers |-> "idle"]
  /\ commit = [w \in Finalizers |-> 0]
  /\ audited = [w \in Finalizers |-> Absent]
  /\ validated = [w \in Finalizers |-> Absent]
  /\ draft = [w \in Finalizers |-> Absent]
  /\ cited = [w \in Finalizers |-> Absent]
  /\ told = [w \in Finalizers |-> "nothing"]
  /\ beside = FALSE

-----------------------------------------------------------------------------
(* What inspect_research_run makes of the disk: it audits the raw results   *)
(* itself, and is handed a validation of them, v.                           *)

AuditIs(a) == raw \in Evidence /\ AuditOf(raw) = a

SetHolds == rows /\ resultSet = raw

ReceiptHolds(v) ==
  /\ resultSet = receipt.set
  /\ completion = receipt.totals
  /\ AuditIs(receipt.totals)
  /\ receipt.counts = v

MarkerHolds(v) ==
  /\ receipt = marker.receipt
  /\ resultSet = marker.set
  /\ completion = marker.totals
  /\ AuditIs(marker.totals)
  /\ marker.counts = v

Issues(v) ==
  \/ ~bundle
  \/ resultSet # Absent /\ ~SetHolds
  \/ receipt # Absent /\ ~ReceiptHolds(v)
  \/ marker # Absent /\ ~MarkerHolds(v)

Invalid(v) ==
  Issues(v) \/ raw = Broken \/ (completion # Absent /\ ~AuditIs(completion))

StatusGiven(v) ==
  CASE Invalid(v) -> "INVALID"
    [] ~Invalid(v) /\ completion = Absent -> "RESULTS_COMPLETE"
    [] ~Invalid(v) /\ completion # Absent /\ Absent \in {resultSet, receipt, marker} ->
         "CORE_VERIFIED"
    [] OTHER -> "RESEARCH_READY"

\* inspect_algorithm_research_experiment validates anew before it inspects.
Validation == IF raw \in Evidence THEN Counts[raw] ELSE Absent

Status == StatusGiven(Validation)

-----------------------------------------------------------------------------
(* Moving one finalizer.                                                   *)

Goto(w, step) == pc' = [pc EXCEPT ![w] = step] /\ told' = told

End(w, what) ==
  /\ pc' = [pc EXCEPT ![w] = "idle"]
  /\ told' = [told EXCEPT ![w] = what]
  /\ commit' = [commit EXCEPT ![w] = 0]
  /\ audited' = [audited EXCEPT ![w] = Absent]
  /\ validated' = [validated EXCEPT ![w] = Absent]
  /\ draft' = [draft EXCEPT ![w] = Absent]
  /\ cited' = [cited EXCEPT ![w] = Absent]

\* A check: carry on at the next step, or raise.
Require(w, condition, step) ==
  IF condition
    THEN Goto(w, step) /\ UNCHANGED memory
    ELSE End(w, "error")

\* A document this call may create, or must already find: the loser of the
\* claim goes on if what is stored is its own, and raises otherwise.
Ensure(w, file, mine, step) ==
  /\ file' = IF file = Absent THEN mine ELSE file
  /\ Require(w, file' = mine, step)

-----------------------------------------------------------------------------
(* finalize_algorithm_research_run, step by step.                          *)

Clean == copy = committed

UpgradePending == marker # Absent /\ marker.schema = 1

\* A verifier with uncommitted changes is refused before anything is read.
Begin(w) ==
  /\ pc[w] = "idle"
  /\ Clean
  /\ Goto(w, "audit")
  /\ commit' = [commit EXCEPT ![w] = head]
  /\ beside' = (beside \/ (UpgradePending /\ \E v \in Finalizers \ {w} : pc[v] # "idle"))
  /\ UNCHANGED <<input, chain, tree, audited, validated, draft, cited>>

\* Every asset of the bundle, then the audit's walk over the raw results.
Audit(w) ==
  /\ pc[w] = "audit"
  /\ IF bundle /\ raw \in Evidence
       THEN /\ audited' = [audited EXCEPT ![w] = AuditOf(raw)]
            /\ Goto(w, "validate")
            /\ UNCHANGED <<commit, validated, draft, cited>>
       ELSE End(w, "error")
  /\ UNCHANGED <<input, chain, tree>>

\* The algorithm validation reads every raw result a second time.
Validate(w) ==
  /\ pc[w] = "validate"
  /\ IF raw \in Evidence
       THEN /\ validated' = [validated EXCEPT ![w] = Counts[raw]]
            /\ Goto(w, "build")
            /\ UNCHANGED <<commit, audited, draft, cited>>
       ELSE End(w, "error")
  /\ UNCHANGED <<input, chain, tree>>

\* The result set reads them a third time; nothing is written yet.
Build(w) ==
  /\ pc[w] = "build"
  /\ IF raw \in Evidence
       THEN /\ draft' = [draft EXCEPT ![w] = Receipt(raw, audited[w], validated[w], w, 2)]
            /\ Goto(w, "claimSet")
            /\ UNCHANGED <<commit, audited, validated, cited>>
       ELSE End(w, "error")
  /\ UNCHANGED <<input, chain, tree>>

\* ensure_result_set: the entries still describe the raw files, then the
\* manifest is claimed and the rows follow.
ClaimSet(w) ==
  /\ pc[w] = "claimSet"
  /\ IF raw = draft[w].set
       THEN Ensure(w, resultSet, draft[w].set, "fillSet")
       ELSE End(w, "error") /\ UNCHANGED resultSet
  /\ UNCHANGED <<input, rows, completion, receipt, marker, history, tree>>

FillSet(w) ==
  /\ pc[w] = "fillSet"
  /\ rows' = TRUE
  /\ Goto(w, "completion")
  /\ UNCHANGED <<input, resultSet, completion, receipt, marker, history, tree, memory>>

\* A mutation: a completion somebody stored before is refused.
BugCompletionMustBeNew(w) ==
  /\ pc[w] = "completion"
  /\ completion' = IF completion = Absent THEN audited[w] ELSE completion
  /\ Require(w, completion = Absent, "receipt")
  /\ UNCHANGED <<input, resultSet, rows, receipt, marker, history, tree>>

EnsureCompletion(w) ==
  /\ pc[w] = "completion"
  /\ Ensure(w, completion, audited[w], "receipt")
  /\ UNCHANGED <<input, resultSet, rows, receipt, marker, history, tree>>

SameClaims(r, s) == r.set = s.set /\ r.totals = s.totals /\ r.counts = s.counts

\* The receipt's fingerprint leaves out who wrote it and when.
SameReceipt(r, s) == SameClaims(r, s) /\ r.schema = s.schema

ReceiptUpgrade(old, new) == SameClaims(old, new) /\ old.schema = 1 /\ new.schema = 2

EnsureReceipt(w) ==
  /\ pc[w] = "receipt"
  /\ receipt' = IF receipt = Absent THEN draft[w] ELSE receipt
  /\ CASE SameReceipt(receipt', draft[w]) -> Goto(w, "readBack") /\ UNCHANGED memory
       [] ReceiptUpgrade(receipt', draft[w]) ->
            Goto(w, "archiveReceipt") /\ UNCHANGED memory
       [] OTHER -> End(w, "error")
  /\ UNCHANGED <<input, resultSet, rows, completion, marker, history, tree>>

\* A mutation: the receipt is replaced and nothing is kept.
BugArchiveNothing(w) ==
  /\ pc[w] = "archiveReceipt"
  /\ Goto(w, "replaceReceipt")
  /\ UNCHANGED <<input, chain, tree, memory>>

\* _archive_publication reads the file again; then write_json replaces it.
ArchiveReceipt(w) ==
  /\ pc[w] = "archiveReceipt"
  /\ history' = history \cup {receipt}
  /\ Goto(w, "replaceReceipt")
  /\ UNCHANGED <<input, resultSet, rows, completion, receipt, marker, tree, memory>>

ReplaceReceipt(w) ==
  /\ pc[w] = "replaceReceipt"
  /\ receipt' = draft[w]
  /\ Goto(w, "readBack")
  /\ UNCHANGED <<input, resultSet, rows, completion, marker, history, tree, memory>>

Cite(w, r) == [set |-> resultSet, totals |-> audited[w], counts |-> validated[w],
               receipt |-> r, commit |-> commit[w], schema |-> 3]

\* A mutation: the marker cites the receipt this call built.
BugCiteOwnReceipt(w) ==
  /\ pc[w] = "readBack"
  /\ cited' = [cited EXCEPT ![w] = Cite(w, draft[w])]
  /\ Goto(w, "marker")
  /\ UNCHANGED <<input, chain, tree, commit, audited, validated, draft>>

\* The stored set against the raw files, and every claim of the stored receipt
\* against the stored set and completion, the audit and the validation made above.
ReadBack(w) ==
  /\ pc[w] = "readBack"
  /\ IF /\ SetHolds
        /\ completion = audited[w]
        /\ SameClaims(receipt, Receipt(resultSet, audited[w], validated[w], w, 2))
       THEN /\ cited' = [cited EXCEPT ![w] = Cite(w, receipt)]
            /\ Goto(w, "marker")
            /\ UNCHANGED <<commit, audited, validated, draft>>
       ELSE End(w, "error")
  /\ UNCHANGED <<input, chain, tree>>

MarkerUpgrade(old, new) == SameClaims(old, new) /\ old.schema = 1 /\ new.schema = 3

\* A mutation: whatever marker is stored, the run is committed.
BugAcceptAnyMarker(w) ==
  /\ pc[w] = "marker"
  /\ marker' = IF marker = Absent THEN cited[w] ELSE marker
  /\ Goto(w, "inspect")
  /\ UNCHANGED <<input, resultSet, rows, completion, receipt, history, tree, memory>>

\* ensure_research_finalization: the marker's fingerprint covers everything
\* it cites, the verifier's revision included.
EnsureMarker(w) ==
  /\ pc[w] = "marker"
  /\ marker' = IF marker = Absent THEN cited[w] ELSE marker
  /\ CASE marker' = cited[w] -> Goto(w, "inspect") /\ UNCHANGED memory
       [] marker' # cited[w] /\ MarkerUpgrade(marker', cited[w]) ->
            Goto(w, "archiveMarker") /\ UNCHANGED memory
       [] OTHER -> End(w, "error")
  /\ UNCHANGED <<input, resultSet, rows, completion, receipt, history, tree>>

ArchiveMarker(w) ==
  /\ pc[w] = "archiveMarker"
  /\ history' = history \cup {marker}
  /\ Goto(w, "replaceMarker")
  /\ UNCHANGED <<input, resultSet, rows, completion, receipt, marker, tree, memory>>

ReplaceMarker(w) ==
  /\ pc[w] = "replaceMarker"
  /\ marker' = cited[w]
  /\ Goto(w, "inspect")
  /\ UNCHANGED <<input, resultSet, rows, completion, receipt, history, tree, memory>>

\* A mutation: the finished chain is not inspected again.
BugInspectNothing(w) ==
  /\ pc[w] = "inspect"
  /\ Require(w, TRUE, "copy")
  /\ UNCHANGED <<input, chain, tree>>

\* The chain is inspected with a new audit and the validation made above.
Inspect(w) ==
  /\ pc[w] = "inspect"
  /\ Require(w, StatusGiven(validated[w]) = "RESEARCH_READY", "copy")
  /\ UNCHANGED <<input, chain, tree>>

\* write_evidence_copy: the name is created first and the bytes follow; a
\* schema-1 copy with the same claims is replaced; anything else is refused.
WriteCopy(w) ==
  /\ pc[w] = "copy"
  /\ LET mine == cited[w].receipt IN
       \/ /\ copy = Absent
          /\ copy' = Truncated
          /\ Goto(w, "copyBytes")
          /\ UNCHANGED memory
       \/ /\ copy # Absent
          /\ copy' = IF copy # Truncated /\ ReceiptUpgrade(copy, mine)
                       THEN mine
                       ELSE copy
          /\ End(w, IF copy' = mine THEN "ready" ELSE "error")
  /\ UNCHANGED <<input, chain, head, committed>>

\* A mutation: the receipt this call built is exported, not the stored one.
BugCopyOwnReceipt(w) ==
  /\ pc[w] = "copyBytes"
  /\ copy' = draft[w]
  /\ End(w, "ready")
  /\ UNCHANGED <<input, chain, head, committed>>

CopyBytes(w) ==
  /\ pc[w] = "copyBytes"
  /\ copy' = cited[w].receipt
  /\ End(w, "ready")
  /\ UNCHANGED <<input, chain, head, committed>>

-----------------------------------------------------------------------------
(* The environment.                                                        *)

Crash(w) ==
  /\ pc[w] # "idle"
  /\ End(w, "died")
  /\ UNCHANGED <<input, chain, tree>>

\* Somebody commits the working tree as it is.
Commit ==
  /\ head < MaxHead
  /\ head' = head + 1
  /\ committed' = copy
  /\ UNCHANGED <<input, chain, copy, pc, memory, told>>

\* Somebody discards the uncommitted changes.
Discard ==
  /\ ~Clean
  /\ copy' = committed
  /\ UNCHANGED <<input, chain, head, committed, pc, memory, told>>

DiscardTruncated ==
  /\ copy = Truncated /\ \A w \in Finalizers : pc[w] = "idle"
  /\ Discard /\ UNCHANGED beside

\* Raw results are rewritten, or the runtime bundle is.
Tamper ==
  /\ changes < MaxChanges
  /\ raw' \in Evidence \cup {Broken}
  /\ bundle' \in {bundle, FALSE}
  /\ <<raw', bundle'>> # <<raw, bundle>>
  /\ changes' = changes + 1
  /\ UNCHANGED <<chain, tree, pc, memory, told>>

Step(w) ==
  \/ Audit(w) \/ Validate(w) \/ Build(w)
  \/ ClaimSet(w) \/ FillSet(w) \/ EnsureCompletion(w)
  \/ EnsureReceipt(w) \/ ArchiveReceipt(w) \/ ReplaceReceipt(w) \/ ReadBack(w)
  \/ EnsureMarker(w) \/ ArchiveMarker(w) \/ ReplaceMarker(w) \/ Inspect(w)
  \/ WriteCopy(w) \/ CopyBytes(w)

Next ==
  \/ \E w \in Finalizers : Begin(w)
  \/ (\E w \in Finalizers : Step(w) \/ Crash(w)) /\ UNCHANGED beside
  \/ (Commit \/ Discard \/ Tamper) /\ UNCHANGED beside

Spec == Init /\ [][Next]_vars

\* Somebody runs finalize again and again, a process that runs gets on with
\* it, an evidence copy cut short is discarded, and crashes come to an end.
Fairness ==
  /\ \A w \in Finalizers : WF_vars(Step(w) /\ UNCHANGED beside) /\ SF_vars(Begin(w))
  /\ WF_vars(DiscardTruncated)

FaultsStop == <>[][\A w \in Finalizers : ~Crash(w)]_vars

FairSpec == Spec /\ Fairness /\ FaultsStop

-----------------------------------------------------------------------------
(* Properties.                                                             *)
(* Nothing keeps two finalizers from upgrading the documents of an earlier *)
(* release side by side, and what that costs is MarkedReceiptIsFrozen.     *)

\* Only the last-written marker is authoritative: whatever crashed, raced or
\* was rewritten, a current marker stands over the very result set,
\* completion and receipt it cites, and all of them are on disk in full.
MarkerCitesTheChain ==
  ~beside /\ marker # Absent /\ marker.schema = 3 =>
    /\ rows /\ resultSet = marker.set
    /\ completion = marker.totals
    /\ receipt = marker.receipt

\* If nothing it reads was changed no crash, race or retry makes the run INVALID
\* for good: it is so only between the manifest of the result set and its rows,
\* and between the two replacements of an upgrade, and both are repaired by
\* finalizing again.
InvalidIsUnfinished ==
  ~beside /\ changes = 0 /\ Status = "INVALID" =>
    \/ resultSet # Absent /\ ~rows
    \/ UpgradePending /\ receipt.schema = 2

Whole(c) == c \notin {Absent, Truncated}

\* The evidence copy is complete or visibly cut short: a copy that parses is
\* the receipt the marker froze.
CopyIsTheMarkedReceipt ==
  ~beside /\ Whole(copy) /\ copy.schema = 2 => marker # Absent /\ copy = marker.receipt

\* The totals that leave the workspace are of the results they name, however the
\* finalizers met, though the audit, the validation and the result set are three
\* reads of the raw results: one change among them is noticed unless it leaves
\* the totals as they were.  Two changes, there and back, may not be.
CopiedTotalsAreTheSets ==
  changes <= 1 /\ Whole(copy) =>
    copy.totals = AuditOf(copy.set) /\ copy.totals = Totals[copy.counts]

\* What leaves the workspace is true of what stays in it, over well-typed states.
ExportIsTrue == TypeOK /\ CopyIsTheMarkedReceipt /\ CopiedTotalsAreTheSets

\* A finalization that succeeds was run at the commit its marker names,
\* however HEAD moved before, during and between the calls.
VerifierIsAttested ==
  [][\A w \in Finalizers :
       ~beside /\ told'[w] = "ready" /\ told[w] # "ready" => marker.commit = commit[w]]_vars

\* What the earlier release published is kept before it is replaced, whoever
\* upgrades it beside whom.
HistoryIsKept ==
  [][/\ receipt' # receipt /\ receipt # Absent /\ receipt.schema = 1 => receipt \in history
     /\ marker' # marker /\ marker # Absent /\ marker.schema = 1 => marker \in history]_vars

\* Finalization reaches RESEARCH_READY and exports the evidence.
EventuallyResearchReady ==
  <>(beside \/ (Status = "RESEARCH_READY" /\ marker.schema = 3 /\ copy = receipt))

\* What the content hash of the receipt is for: "once the marker is
\* published, even those non-biometric fields are frozen".
MarkedReceiptIsFrozen ==
  [][marker # Absent /\ marker.schema = 3 => receipt' = receipt]_vars

\* finalize says it will "Revalidate everything", and verify_research_receipt that
\* it will "Re-derive every load-bearing receipt claim from current evidence": the
\* counts a copy tells are those of the results it names.
CopiedCountsAreTheSets == Whole(copy) => copy.counts = Counts[copy.set]
=============================================================================
