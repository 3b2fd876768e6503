---------------------------- MODULE Stage21BStore ----------------------------
(***************************************************************************)
(* One Stage 21B run (fpbench/stage21b): Stage21BResultStore, a SQLite     *)
(* journal of attempts and terminal outcomes in one run directory, and     *)
(* Stage21BRunner, which works through the pending pairs in plan order     *)
(* and seals the run when every pair has its outcome.  Several processes   *)
(* may be at it, at once or one after another: nothing in the code locks   *)
(* the directory, each checks what it needs and then acts.                 *)
(*                                                                         *)
(* Every write goes through _connect(write=True), which looks for a seal   *)
(* and a supersession, then switches the database to WAL mode, then runs   *)
(* its transaction.  The look is a step of its own here; the switch and    *)
(* the transaction, which exclude each other in SQLite, are one step.      *)
(***************************************************************************)
EXTENDS Naturals, Sequences, FiniteSets

CONSTANTS
  Workers,       \* processes that run the command line
  NPairs,        \* pairs of the frozen plan, in ordinal order
  Limits,        \* values of --limit; NoLimit stands for leaving it out
  NoLimit,
  Superseding,   \* somebody may record a supersession
  MaxTroubles,   \* crashes, faults and processes started beside another one
  Absent         \* a file that does not exist

ASSUME NPairsAssumption == NPairs \in Nat \ {0}
ASSUME LimitsAssumption == Limits \subseteq (Nat \ {0}) \cup {NoLimit}
ASSUME NoLimitAssumption == NoLimit \notin Nat
ASSUME SupersedingAssumption == Superseding \in BOOLEAN
ASSUME MaxTroublesAssumption == MaxTroubles \in Nat

Pairs == 1 .. NPairs

\* The classifications of an attempt.
Terminal == {"SUCCESS", "ALGORITHM_FAILURE"}
Closed == Terminal \cup {"INFRASTRUCTURE_FAILURE", "INFRASTRUCTURE_INTERRUPTED"}
Classifications == Closed \cup {"IN_PROGRESS"}

\* A terminal outcome: the attempt it came from, and its status.
Outcomes == [attempt : Nat \ {0}, status : Terminal]

Journals == [Pairs -> Seq(Classifications)]
Tables == [Pairs -> Outcomes \cup {Absent}]

ASSUME AbsentAssumption == Absent \notin Outcomes \cup Journals \cup Tables

VARIABLES
  spec,          \* run-spec.json exists
  db,            \* checkpoint.sqlite3: "none", only the "schema", or "ready"
  mode,          \* its journal mode
  attempts,      \* attempts[p]: the classifications of p's attempts, 1..n
  outcome,       \* outcome[p]: p's row of terminal_outcomes, or Absent
  outcomesFile,  \* outcomes.parquet: the rows it holds, or Absent
  attemptsFile,  \* attempts.parquet
  sealed,        \* result-set.json exists
  superseded,    \* supersession.json exists
  fresh,         \* processes whose checksum of the database still holds
  sealHolds,     \* so does the one in the seal
  pc,            \* where each process is
  job,           \* its command and limit, or Absent
  creating,      \* it saw no database when it opened the store
  todo,          \* the pending pairs it has still to do
  number,        \* the number of its attempt at the first of them
  verdict,       \* what came of that attempt
  read,          \* the rows it is about to export
  beside,        \* history: two processes have been at it at once
  troubles       \* how much has gone wrong, at most MaxTroubles

journal == <<spec, db, attempts, outcome>>
files == <<outcomesFile, attemptsFile, sealed, superseded>>
checksums == <<mode, fresh, sealHolds>>
memory == <<job, creating, todo, number, verdict, read>>
history == <<beside, troubles>>
vars == <<journal, files, checksums, pc, memory, history>>

Preflight == [command |-> "preflight", limit |-> NoLimit]
Run(limit) == [command |-> "run", limit |-> limit]
Commands == {Preflight} \cup {Run(limit) : limit \in Limits}

\* A write is allowed at the step on the left and happens at the one on the right.
Gate == [connect |-> "schema", recover |-> "interrupt", begin |-> "insert",
         record |-> "outcome", fail |-> "failure", freeze |-> "truncate"]

Steps == {"idle", "open", "claim", "look", "initialise", "verify", "opened", "select", "next",
          "compare", "cleanup", "seal", "audit", "read", "exportOutcomes",
          "exportAttempts", "hash", "publish", "verifySeal"}
            \cup DOMAIN Gate \cup {Gate[s] : s \in DOMAIN Gate}

TypeOK ==
  /\ spec \in BOOLEAN
  /\ db \in {"none", "schema", "ready"}
  /\ mode \in {"wal", "delete"}
  /\ attempts \in Journals
  /\ outcome \in Tables
  /\ outcomesFile \in Tables \cup {Absent}
  /\ attemptsFile \in Journals \cup {Absent}
  /\ {sealed, superseded, sealHolds, beside} \subseteq BOOLEAN
  /\ fresh \subseteq Workers
  /\ pc \in [Workers -> Steps]
  /\ job \in [Workers -> Commands \cup {Absent}]
  /\ creating \in [Workers -> BOOLEAN]
  /\ todo \in [Workers -> SUBSET Pairs]
  /\ number \in [Workers -> Nat]
  /\ verdict \in [Workers -> Terminal \cup {Absent}]
  /\ read \in [Workers -> [attempts : Journals, outcome : Tables] \cup {Absent}]
  /\ troubles \in 0 .. MaxTroubles

Init ==
  /\ spec = FALSE
  /\ db = "none"
  /\ mode = "delete"
  /\ attempts = [p \in Pairs |-> <<>>]
  /\ outcome = [p \in Pairs |-> Absent]
  /\ outcomesFile = Absent
  /\ attemptsFile = Absent
  /\ sealed = FALSE
  /\ superseded = FALSE
  /\ fresh = {}
  /\ sealHolds = TRUE
  /\ pc = [w \in Workers |-> "idle"]
  /\ job = [w \in Workers |-> Absent]
  /\ creating = [w \in Workers |-> FALSE]
  /\ todo = [w \in Workers |-> {}]
  /\ number = [w \in Workers |-> 0]
  /\ verdict = [w \in Workers |-> Absent]
  /\ read = [w \in Workers |-> Absent]
  /\ beside = FALSE
  /\ troubles = 0

-----------------------------------------------------------------------------
(* What the steps are made of.                                             *)

Pending == {p \in Pairs : outcome[p] = Absent}
Open(p) == {n \in DOMAIN attempts[p] : attempts[p][n] = "IN_PROGRESS"}
OpenAttempts == UNION {{p} \X Open(p) : p \in Pairs}
Exported == outcomesFile # Absent \/ attemptsFile # Absent

First(S) == CHOOSE p \in S : \A q \in S : p <= q

Goto(w, step) == pc' = [pc EXCEPT ![w] = step] /\ UNCHANGED memory

\* The command ends, with a report or with an exception.
End(w) ==
  /\ pc' = [pc EXCEPT ![w] = "idle"]
  /\ job' = [job EXCEPT ![w] = Absent]
  /\ creating' = [creating EXCEPT ![w] = FALSE]
  /\ todo' = [todo EXCEPT ![w] = {}]
  /\ number' = [number EXCEPT ![w] = 0]
  /\ verdict' = [verdict EXCEPT ![w] = Absent]
  /\ read' = [read EXCEPT ![w] = Absent]

Require(w, condition, step) == IF condition THEN Goto(w, step) ELSE End(w)

\* A write connection: in WAL mode from here on.  Switching the mode, like
\* writing a row, changes the bytes of the database file.
Written(rows) ==
  /\ mode' = "wal"
  /\ IF rows \/ mode = "delete" THEN fresh' = {} /\ sealHolds' = FALSE
                                ELSE UNCHANGED <<fresh, sealHolds>>

InFlight(w) == First(todo[w])
Mine(w) == number[w] \in Open(InFlight(w))

Close(p, n, classification) == [attempts EXCEPT ![p][n] = classification]

-----------------------------------------------------------------------------
(* Starting, and Stage21BResultStore._initialise.                          *)

\* A start beside a running process is counted, so that it happens at most
\* MaxTroubles times.
Launch(w, s) ==
  /\ pc[w] = "idle"
  /\ pc' = [pc EXCEPT ![w] = "open"]
  /\ job' = [job EXCEPT ![w] = s]
  /\ IF \A v \in Workers : pc[v] = "idle"
       THEN UNCHANGED history
       ELSE troubles < MaxTroubles /\ beside' = TRUE /\ troubles' = troubles + 1
  /\ UNCHANGED <<journal, files, checksums, creating, todo, number, verdict, read>>

\* Two processes that saw no run spec publish two that differ in their
\* created_utc: the second is refused.
OpenStore(w) ==
  /\ pc[w] = "open"
  /\ Goto(w, IF spec THEN "look" ELSE "claim")
  /\ UNCHANGED <<journal, files, checksums, history>>

ClaimSpec(w) ==
  /\ pc[w] = "claim"
  /\ spec' = TRUE
  /\ Require(w, ~spec, "look")
  /\ UNCHANGED <<db, attempts, outcome, files, checksums, history>>

\* _verify_existing_records: what a journal must look like to be opened.
Ended(p) == {n \in DOMAIN attempts[p] : attempts[p][n] \in Terminal}

JournalVerifies ==
  /\ Cardinality(OpenAttempts) <= 1
  /\ \A p \in Pairs :
       /\ Ended(p) \subseteq {Len(attempts[p])}
       /\ IF outcome[p] = Absent THEN Ended(p) = {}
            ELSE /\ outcome[p].attempt \in Ended(p)
                 /\ outcome[p].status = attempts[p][outcome[p].attempt]

LookAtRun(w) ==
  /\ pc[w] = "look"
  /\ IF sealed
       THEN Require(w, JournalVerifies, "verifySeal")
       ELSE /\ pc' = [pc EXCEPT ![w] = "connect"]
            /\ creating' = [creating EXCEPT ![w] = db = "none"]
            /\ UNCHANGED <<job, todo, number, verdict, read>>
  /\ UNCHANGED <<journal, files, checksums, history>>

\* _require_accepting_outcomes for the writes of a batch, then the look of
\* _connect.  A refused record is an exception inside _execute.
Accepting(step) ==
  /\ step \in {"connect", "freeze"} \/ ~Exported
  /\ ~sealed /\ ~superseded

Admit(w) ==
  /\ pc[w] \in DOMAIN Gate
  /\ CASE Accepting(pc[w]) -> Goto(w, Gate[pc[w]])
       [] ~Accepting(pc[w]) /\ pc[w] = "record" -> Goto(w, "fail")
       [] OTHER -> End(w)
  /\ UNCHANGED <<journal, files, checksums, history>>

\* A mutation: an interrupted initialisation is not recognised.
BugCreateSchema(w) ==
  /\ pc[w] = "schema"
  /\ db' = IF db = "none" THEN "schema" ELSE db
  /\ Written(db = "none")
  /\ Goto(w, IF creating[w] THEN "initialise" ELSE "verify")
  /\ UNCHANGED <<spec, attempts, outcome, files, history>>

\* The schema commits by itself, before the transaction that fills it.
CreateSchema(w) ==
  /\ pc[w] = "schema"
  /\ db' = IF db = "none" THEN "schema" ELSE db
  /\ Written(db = "none")
  /\ Goto(w, IF creating[w] \/ db' = "schema" THEN "initialise" ELSE "verify")
  /\ UNCHANGED <<spec, attempts, outcome, files, history>>

\* One transaction; a second creator violates the primary key.
WriteInitialState(w) ==
  /\ pc[w] = "initialise"
  /\ db' = "ready"
  /\ IF db = "schema" THEN Written(TRUE) ELSE UNCHANGED checksums
  /\ Require(w, db = "schema", "verify")
  /\ UNCHANGED <<spec, attempts, outcome, files, history>>

\* Exports under an open run: a seal that was interrupted, to be completed.
VerifyBinding(w) ==
  /\ pc[w] = "verify"
  /\ CASE db # "ready" \/ ~JournalVerifies -> End(w)
       [] db = "ready" /\ JournalVerifies /\ Exported -> Require(w, Pending = {}, "seal")
       [] OTHER -> Goto(w, "opened")
  /\ UNCHANGED <<journal, files, checksums, history>>

Opened(w) ==
  /\ pc[w] = "opened"
  /\ Require(w, job[w].command = "run" /\ ~sealed, "recover")
  /\ UNCHANGED <<journal, files, checksums, history>>

-----------------------------------------------------------------------------
(* Stage21BRunner.run and _execute.                                        *)

\* recover_interrupted_attempts closes whatever is in progress, whoever's.
Interrupt(w) ==
  /\ pc[w] = "interrupt"
  /\ attempts' = [p \in Pairs |-> [n \in DOMAIN attempts[p] |->
       IF n \in Open(p) THEN "INFRASTRUCTURE_INTERRUPTED" ELSE attempts[p][n]]]
  /\ Written(OpenAttempts # {})
  /\ Goto(w, "select")
  /\ UNCHANGED <<spec, db, outcome, files, history>>

\* The first pairs that are pending now, in plan order.
Selected(limit) ==
  {p \in Pending : limit = NoLimit \/ Cardinality({q \in Pending : q < p}) < limit}

Select(w) ==
  /\ pc[w] = "select"
  /\ pc' = [pc EXCEPT ![w] = "next"]
  /\ todo' = [todo EXCEPT ![w] = Selected(job[w].limit)]
  /\ UNCHANGED <<journal, files, checksums, job, creating, number, verdict, read, history>>

NextPair(w) ==
  /\ pc[w] = "next"
  /\ Goto(w, IF todo[w] = {} THEN "cleanup" ELSE "begin")
  /\ UNCHANGED <<journal, files, checksums, history>>

\* A mutation: the open attempt of somebody else is not looked for.
BugBeginAttempt(w) ==
  /\ pc[w] = "insert"
  /\ LET p == InFlight(w)
         n == Len(attempts[p]) + 1
         mayBegin == outcome[p] = Absent
     IN  /\ Written(mayBegin)
         /\ IF mayBegin
              THEN /\ attempts' = [attempts EXCEPT ![p] = Append(@, "IN_PROGRESS")]
                   /\ pc' = [pc EXCEPT ![w] = "compare"]
                   /\ number' = [number EXCEPT ![w] = n]
                   /\ UNCHANGED <<job, creating, todo, verdict, read>>
              ELSE End(w) /\ UNCHANGED attempts
  /\ UNCHANGED <<spec, db, outcome, files, history>>

\* begin_attempt: not for a pair that has its outcome or is being attempted.
BeginAttempt(w) ==
  /\ pc[w] = "insert"
  /\ LET p == InFlight(w)
         n == Len(attempts[p]) + 1
         mayBegin == outcome[p] = Absent /\ Open(p) = {}
     IN  /\ Written(mayBegin)
         /\ IF mayBegin
              THEN /\ attempts' = [attempts EXCEPT ![p] = Append(@, "IN_PROGRESS")]
                   /\ pc' = [pc EXCEPT ![w] = "compare"]
                   /\ number' = [number EXCEPT ![w] = n]
                   /\ UNCHANGED <<job, creating, todo, verdict, read>>
              ELSE End(w) /\ UNCHANGED attempts
  /\ UNCHANGED <<spec, db, outcome, files, history>>

\* The matcher answered, with a score or with a failure of the algorithm.
Answer(w) ==
  /\ pc[w] = "compare"
  /\ \E v \in Terminal : verdict' = [verdict EXCEPT ![w] = v]
  /\ pc' = [pc EXCEPT ![w] = "record"]
  /\ UNCHANGED <<journal, files, checksums, job, creating, todo, number, read, history>>

\* Anything that goes wrong inside _execute is no outcome of the pair: the
\* attempt is to be closed, and the batch stops.
Fault(w) ==
  /\ pc[w] \in {"compare", "record", "outcome"}
  /\ troubles < MaxTroubles
  /\ troubles' = troubles + 1
  /\ Goto(w, "fail")
  /\ UNCHANGED <<journal, files, checksums, beside>>

\* A mutation: an outcome is written whatever became of its attempt.
BugRecordTerminal(w) ==
  /\ pc[w] = "outcome"
  /\ Written(TRUE)
  /\ outcome' = [outcome EXCEPT ![InFlight(w)] =
                    [attempt |-> number[w], status |-> verdict[w]]]
  /\ attempts' = Close(InFlight(w), number[w], verdict[w])
  /\ End(w)
  /\ UNCHANGED <<spec, db, files, history>>

\* record_terminal: the outcome and the end of its attempt, together.
RecordTerminal(w) ==
  /\ pc[w] = "outcome"
  /\ Written(Mine(w))
  /\ LET p == InFlight(w)
     IN  IF Mine(w)
           THEN /\ outcome' = [outcome EXCEPT
                     ![p] = [attempt |-> number[w], status |-> verdict[w]]]
                /\ attempts' = Close(p, number[w], verdict[w])
                /\ todo' = [todo EXCEPT ![w] = @ \ {p}]
                /\ number' = [number EXCEPT ![w] = 0]
                /\ verdict' = [verdict EXCEPT ![w] = Absent]
                /\ pc' = [pc EXCEPT ![w] = "next"]
                /\ UNCHANGED <<job, creating, read>>
           ELSE Goto(w, "fail") /\ UNCHANGED <<attempts, outcome>>
  /\ UNCHANGED <<spec, db, files, history>>

\* A mutation: the diagnosis also goes to an attempt that has been closed.
BugRecordFailure(w) ==
  /\ pc[w] = "failure"
  /\ Written(TRUE)
  /\ attempts' = Close(InFlight(w), number[w], "INFRASTRUCTURE_FAILURE")
  /\ End(w)
  /\ UNCHANGED <<spec, db, outcome, files, history>>

RecordFailure(w) ==
  /\ pc[w] = "failure"
  /\ Written(Mine(w))
  /\ attempts' = IF Mine(w)
                   THEN Close(InFlight(w), number[w], "INFRASTRUCTURE_FAILURE")
                   ELSE attempts
  /\ End(w)
  /\ UNCHANGED <<spec, db, outcome, files, history>>

\* Only an unlimited batch seals, and only once the adapter has closed.
Cleanup(w) ==
  /\ pc[w] = "cleanup"
  /\ Require(w, job[w].limit = NoLimit /\ Pending = {}, "seal")
  /\ UNCHANGED <<journal, files, checksums, history>>

-----------------------------------------------------------------------------
(* Stage21BResultStore.seal.                                               *)

BeginSeal(w) ==
  /\ pc[w] = "seal"
  /\ CASE superseded -> End(w)
       [] ~superseded /\ sealed -> Goto(w, "verifySeal")
       [] OTHER -> Goto(w, "audit")
  /\ UNCHANGED <<journal, files, checksums, history>>

\* integrity_report(require_complete=True).
AuditRun(w) ==
  /\ pc[w] = "audit"
  /\ Require(w, Pending = {} /\ OpenAttempts = {} /\ \A p \in Pairs : Cardinality(Ended(p)) = 1,
             "freeze")
  /\ UNCHANGED <<journal, files, checksums, history>>

\* _freeze_checkpoint_database: out of WAL mode, into one file.  It fails
\* while somebody else has the database open in WAL mode.
Connected == {v \in Workers : pc[v] \in {"initialise", "verify"}}
Connecting == {v \in Workers : \E s \in DOMAIN Gate : pc[v] = Gate[s]}

Freeze(w) ==
  /\ pc[w] = "truncate"
  /\ Connected = {}
  /\ mode' = "delete"
  /\ fresh' = {}
  /\ sealHolds' = FALSE
  /\ Goto(w, "read")
  /\ UNCHANGED <<journal, files, history>>

FreezeLockedOut(w) ==
  /\ pc[w] = "truncate"
  /\ Connected \cup Connecting # {w}
  /\ End(w)
  /\ UNCHANGED <<journal, files, checksums, history>>

ReadJournal(w) ==
  /\ pc[w] = "read"
  /\ IF OpenAttempts = {}
       THEN /\ pc' = [pc EXCEPT ![w] = "exportOutcomes"]
            /\ read' = [read EXCEPT ![w] = [attempts |-> attempts, outcome |-> outcome]]
            /\ UNCHANGED <<job, creating, todo, number, verdict>>
       ELSE End(w)
  /\ UNCHANGED <<journal, files, checksums, history>>

\* publish_table: create the file, or find it the same.
ExportOutcomes(w) ==
  /\ pc[w] = "exportOutcomes"
  /\ outcomesFile' = IF outcomesFile = Absent THEN read[w].outcome ELSE outcomesFile
  /\ Require(w, outcomesFile' = read[w].outcome, "exportAttempts")
  /\ UNCHANGED <<journal, attemptsFile, sealed, superseded, checksums, history>>

ExportAttempts(w) ==
  /\ pc[w] = "exportAttempts"
  /\ attemptsFile' = IF attemptsFile = Absent THEN read[w].attempts ELSE attemptsFile
  /\ Require(w, attemptsFile' = read[w].attempts, "hash")
  /\ UNCHANGED <<journal, outcomesFile, sealed, superseded, checksums, history>>

\* A mutation: the checksum is the one of the database before the freeze.
BugHashDatabase(w) ==
  /\ pc[w] = "hash"
  /\ Goto(w, "publish")
  /\ UNCHANGED <<journal, files, checksums, history>>

HashDatabase(w) ==
  /\ pc[w] = "hash"
  /\ fresh' = fresh \cup {w}
  /\ Goto(w, "publish")
  /\ UNCHANGED <<journal, files, mode, sealHolds, history>>

\* Two seals differ at least in sealed_utc: the later one is discarded.
PublishSeal(w) ==
  /\ pc[w] = "publish"
  /\ sealed' = TRUE
  /\ sealHolds' = IF sealed THEN sealHolds ELSE w \in fresh
  /\ Goto(w, "verifySeal")
  /\ UNCHANGED <<journal, outcomesFile, attemptsFile, superseded, mode, fresh, history>>

SealVerifies ==
  /\ sealHolds
  /\ attemptsFile # Absent /\ outcomesFile \in [Pairs -> Outcomes]
  /\ \A p \in Pairs :
       LET rows == attemptsFile[p]
       IN  /\ outcomesFile[p].attempt = Len(rows)
           /\ outcomesFile[p].status = rows[Len(rows)]
           /\ \A n \in 1 .. Len(rows) - 1 : rows[n] \in Closed \ Terminal

\* Back in _initialise or at the end of run, which then only reports.
VerifySeal(w) ==
  /\ pc[w] = "verifySeal"
  /\ Require(w, SealVerifies, "opened")
  /\ UNCHANGED <<journal, files, checksums, history>>

-----------------------------------------------------------------------------
(* What may go wrong, and the specification.                               *)

Crash(w) ==
  /\ pc[w] # "idle"
  /\ troubles < MaxTroubles
  /\ troubles' = troubles + 1
  /\ End(w)
  /\ UNCHANGED <<journal, files, checksums, beside>>

\* record_supersession looks at nothing but its own file.
Supersede ==
  /\ Superseding /\ spec /\ ~superseded
  /\ superseded' = TRUE
  /\ UNCHANGED <<journal, outcomesFile, attemptsFile, sealed, checksums, pc, memory, history>>

Step(w) ==
  \/ OpenStore(w) \/ ClaimSpec(w) \/ LookAtRun(w) \/ Admit(w)
  \/ CreateSchema(w) \/ WriteInitialState(w) \/ VerifyBinding(w) \/ Opened(w)
  \/ Interrupt(w) \/ Select(w) \/ NextPair(w) \/ BeginAttempt(w)
  \/ Answer(w) \/ RecordTerminal(w) \/ RecordFailure(w) \/ Cleanup(w)
  \/ BeginSeal(w) \/ AuditRun(w) \/ Freeze(w) \/ FreezeLockedOut(w)
  \/ ReadJournal(w) \/ ExportOutcomes(w) \/ ExportAttempts(w)
  \/ HashDatabase(w) \/ PublishSeal(w) \/ VerifySeal(w)

Next ==
  \/ Supersede
  \/ \E w \in Workers :
       \/ \E s \in Commands : Launch(w, s)
       \/ Step(w)
       \/ Fault(w)
       \/ Crash(w)

Spec == Init /\ [][Next]_vars

\* A process that has started goes on, and somebody keeps asking for the
\* whole run.
FairSpec ==
  /\ Spec
  /\ \A w \in Workers : WF_vars(Step(w)) /\ SF_vars(Launch(w, Run(NoLimit)))

-----------------------------------------------------------------------------
(* Properties.                                                             *)

\* _verify_existing_records refuses a journal for good: nothing repairs it.
\* Whatever processes did to it, together and in any order, with crashes and
\* faults anywhere, the journal of an initialised run passes.  In particular
\* no two attempts are ever open at once, which no statement checks across
\* pairs: each process works in plan order and goes on only after an outcome.
JournalAlwaysOpens == db = "ready" => JournalVerifies

\* The same, over well-typed states.
JournalIsSound == TypeOK /\ JournalAlwaysOpens

\* From the moment an export exists it is the journal, the complete one: a
\* process that looked before does not add an attempt, close one differently,
\* or record an outcome any more.  Otherwise the seal of an interrupted
\* sealer could not be completed: publish_table would refuse.
ExportIsTheJournal ==
  /\ outcomesFile \in {Absent, outcome}
  /\ attemptsFile \in {Absent, attempts}
  /\ Exported => Pending = {} /\ OpenAttempts = {}

\* A pair gets one terminal outcome, ever, and the attempt it came from keeps
\* the classification: resume skips the pair because of it.
OutcomesAreFinal ==
  [][\A p \in Pairs : outcome[p] # Absent =>
       outcome'[p] = outcome[p] /\ attempts'[p] = attempts[p]]_vars

\* When processes take turns, crashing anywhere, the seal verifies from the
\* instant it is published and ever after.
SealHoldsAlone == sealed /\ ~beside => SealVerifies

\* "Merge the WAL and leave one stable database file for the seal.": the
\* docstring of _freeze_checkpoint_database.  So the sealed checksum is the
\* checksum of the database.
SealIsStable == sealed => sealHolds

\* While somebody keeps asking for the whole run, and troubles end, the run
\* is sealed, however far an earlier process got, unless it is superseded.
EventuallySealed == <>(sealed \/ superseded)

=============================================================================
