--------------------------- MODULE SetPublication ---------------------------
(***************************************************************************)
(* publish_set of fpbench/storage/set_publication.py: a manifest and the   *)
(* bodies it describes are published by processes that may race, fail, die *)
(* and retry.  Every file is created by publish_file, used here as the     *)
(* create-if-absent register AtomicPublish implements.                     *)
(*                                                                         *)
(* Bodies are numbered in the order the store declares them.  A body is    *)
(* its canonical content (canonical_table, canonical_document), so the     *)
(* wall clocks two writers of one set stamp are already abstracted away.   *)
(***************************************************************************)
EXTENDS Naturals

CONSTANTS
  Writers,   \* processes publishing under one name
  Sets,      \* the sets they may want to publish; a set is its fingerprint
  NBodies,   \* how many files the manifest describes
  Values,    \* canonical contents of a body, unreadable ones included
  Content,   \* Content[s][i]: what body i of set s holds
  Absent     \* a file that does not exist

ASSUME NBodiesAssumption == NBodies \in Nat \ {0}
ASSUME ContentAssumption == Content \in [Sets -> [1 .. NBodies -> Values]]
ASSUME AbsentAssumption == Absent \notin Sets \cup Values

Bodies == 1 .. NBodies

VARIABLES
  manifest,  \* the manifest on disk: Absent, or the set it names
  body,      \* body[i]: the i-th body on disk
  want,      \* the set each process is publishing
  pc,        \* the numbered step of publish_set each process is at
  at,        \* the body its current loop has reached
  present,   \* the bodies it found at step 4
  outcome    \* what the call returned

vars == <<manifest, body, want, pc, at, present, outcome>>

Steps == {"arrive", "inspect", "claim", "identify", "survey", "verify",
          "create", "readback", "whole", "ended"}
Outcomes == {"none", "published", "failed", "died"}

TypeOK ==
  /\ manifest \in Sets \cup {Absent}
  /\ body \in [Bodies -> Values \cup {Absent}]
  /\ want \in [Writers -> Sets]
  /\ pc \in [Writers -> Steps]
  /\ at \in [Writers -> Bodies]
  /\ present \in [Writers -> SUBSET Bodies]
  /\ outcome \in [Writers -> Outcomes]

\* The directory may hold bodies from before the manifest-first rule.
Init ==
  /\ manifest = Absent
  /\ body \in [Bodies -> Values \cup {Absent}]
  /\ want \in [Writers -> Sets]
  /\ pc = [w \in Writers |-> "arrive"]
  /\ at = [w \in Writers |-> 1]
  /\ present = [w \in Writers |-> {}]
  /\ outcome = [w \in Writers |-> "none"]

-----------------------------------------------------------------------------
(* Moving through the steps.                                               *)

Goto(w, step) ==
  /\ pc' = [pc EXCEPT ![w] = step]
  /\ at' = [at EXCEPT ![w] = 1]
  /\ outcome' = outcome

Return(w, o) ==
  /\ pc' = [pc EXCEPT ![w] = "ended"]
  /\ at' = at
  /\ outcome' = [outcome EXCEPT ![w] = o]

\* The next body of the loop at this step, or the step after the loop.
Advance(w, next) ==
  IF at[w] < NBodies
    THEN /\ at' = [at EXCEPT ![w] = @ + 1]
         /\ UNCHANGED <<pc, outcome>>
    ELSE Goto(w, next)

InLoop(w, step) == pc[w] = step /\ at[w] \in Bodies

Expected(w, i) == Content[want[w]][i]

\* verify_existing: a missing, unreadable or different body is an error.
Verify(w, next) ==
  IF body[at[w]] = Expected(w, at[w])
    THEN Advance(w, next)
    ELSE Return(w, "failed")

-----------------------------------------------------------------------------
(* The seven steps of publish_set.                                         *)

\* 1. Without a manifest, what is on disk is inspected before it is claimed.
Arrive(w) ==
  /\ pc[w] = "arrive"
  /\ Goto(w, IF manifest = Absent THEN "inspect" ELSE "claim")
  /\ UNCHANGED <<manifest, body, want, present>>

\* A mutation: older bodies are left for the check after the claim.
BugInspectNothing(w) ==
  /\ InLoop(w, "inspect")
  /\ Advance(w, "claim")
  /\ UNCHANGED <<manifest, body, want, present>>

\* A mutation: bodies first, as the stores did before this module.
BugCreateWhileInspecting(w) ==
  /\ InLoop(w, "inspect")
  /\ IF body[at[w]] = Absent
       THEN /\ body' = [body EXCEPT ![at[w]] = Expected(w, at[w])]
            /\ Advance(w, "claim")
       ELSE /\ Verify(w, "claim")
            /\ body' = body
  /\ UNCHANGED <<manifest, want, present>>

Inspect(w) ==
  /\ InLoop(w, "inspect")
  /\ IF body[at[w]] = Absent THEN Advance(w, "claim") ELSE Verify(w, "claim")
  /\ UNCHANGED <<manifest, body, want, present>>

\* A mutation: the manifest replaced rather than created.
BugReplaceManifest(w) ==
  /\ pc[w] = "claim"
  /\ manifest' = want[w]
  /\ Goto(w, "survey")
  /\ UNCHANGED <<body, want, present>>

\* 2. The claim: the manifest is created if nothing is there.
Claim(w) ==
  /\ pc[w] = "claim"
  /\ manifest = Absent
  /\ manifest' = want[w]
  /\ Goto(w, "survey")
  /\ UNCHANGED <<body, want, present>>

\* Another manifest won the name, or publish_file gave up on a stale sentinel.
\* publish_set does not look at the exception: the fingerprint decides.
ClaimLost(w) ==
  /\ pc[w] = "claim"
  /\ Goto(w, "identify")
  /\ UNCHANGED <<manifest, body, want, present>>

\* A mutation: a race lost is taken for the same set.
BugTrustTheWinner(w) ==
  /\ pc[w] = "identify"
  /\ IF manifest # Absent THEN Goto(w, "survey") ELSE Return(w, "failed")
  /\ UNCHANGED <<manifest, body, want, present>>

\* 3. The stored fingerprint is ours, or this is a conflict (or unreadable).
Identify(w) ==
  /\ pc[w] = "identify"
  /\ IF manifest = want[w] THEN Goto(w, "survey") ELSE Return(w, "failed")
  /\ UNCHANGED <<manifest, body, want, present>>

\* 4. Which bodies are there, and then whether each is what we hold.
Survey(w) ==
  /\ InLoop(w, "survey")
  /\ present' = [present EXCEPT ![w] =
                   IF body[at[w]] = Absent THEN @ ELSE @ \cup {at[w]}]
  /\ Advance(w, "verify")
  /\ UNCHANGED <<manifest, body, want>>

VerifyPresent(w) ==
  /\ InLoop(w, "verify")
  /\ IF at[w] \in present[w] THEN Verify(w, "create") ELSE Advance(w, "create")
  /\ UNCHANGED <<manifest, body, want, present>>

\* 5. Only what is missing.
CreateMissing(w) ==
  /\ InLoop(w, "create")
  /\ body' = IF body[at[w]] = Absent
               THEN [body EXCEPT ![at[w]] = Expected(w, at[w])]
               ELSE body
  /\ Advance(w, "readback")
  /\ UNCHANGED <<manifest, want, present>>

\* publish_missing swallows a PublishConflictError, a stale sentinel included.
CreateGivesUp(w) ==
  /\ InLoop(w, "create")
  /\ body[at[w]] = Absent
  /\ Advance(w, "readback")
  /\ UNCHANGED <<manifest, body, want, present>>

\* 6. Everything that was not verified at step 4.
ReadBack(w) ==
  /\ InLoop(w, "readback")
  /\ IF at[w] \in present[w] THEN Advance(w, "whole") ELSE Verify(w, "whole")
  /\ UNCHANGED <<manifest, body, want, present>>

WholeSetOnDisk ==
  /\ manifest # Absent
  /\ \A i \in Bodies : body[i] = Content[manifest][i]

\* 7. verify_whole_set, then the return.
VerifyWholeSet(w) ==
  /\ pc[w] = "whole"
  /\ Return(w, IF WholeSetOnDisk THEN "published" ELSE "failed")
  /\ UNCHANGED <<manifest, body, want, present>>

-----------------------------------------------------------------------------
(* The environment: a process dies or an I/O call raises; somebody retries. *)

Abort(w) ==
  /\ pc[w] # "ended"
  /\ Return(w, "died")
  /\ UNCHANGED <<manifest, body, want, present>>

Retry(w, s) ==
  /\ pc[w] = "ended"
  /\ pc' = [pc EXCEPT ![w] = "arrive"]
  /\ at' = [at EXCEPT ![w] = 1]
  /\ outcome' = [outcome EXCEPT ![w] = "none"]
  /\ want' = [want EXCEPT ![w] = s]
  /\ present' = [present EXCEPT ![w] = {}]
  /\ UNCHANGED <<manifest, body>>

Step(w) ==
  \/ Arrive(w) \/ Inspect(w) \/ Claim(w) \/ ClaimLost(w) \/ Identify(w)
  \/ Survey(w) \/ VerifyPresent(w) \/ CreateMissing(w) \/ CreateGivesUp(w)
  \/ ReadBack(w) \/ VerifyWholeSet(w)

Next ==
  \E w \in Writers :
    \/ Step(w)
    \/ Abort(w)
    \/ \E s \in Sets : Retry(w, s)

Spec == Init /\ [][Next]_vars

\* Callers keep asking for what they want, and processes that run get on with
\* it; from some point on nothing dies and no sentinel is left behind.
Fairness ==
  \A w \in Writers : WF_vars(Step(w)) /\ \A s \in Sets : SF_vars(Retry(w, s))

FaultsStop == <>[][\A w \in Writers : ~Abort(w) /\ ~CreateGivesUp(w)]_vars

FairSpec == Spec /\ Fairness /\ FaultsStop

-----------------------------------------------------------------------------
(* Properties.                                                             *)

\* "A set may be incomplete; it may never be mixed": under a manifest, every
\* body that exists belongs to the manifest's set, whoever wrote it and
\* whatever lay in the directory before the claim.
NeverMixed ==
  manifest # Absent =>
    \A i \in Bodies : body[i] \in {Absent, Content[manifest][i]}

\* A publisher that is refused before the claim has changed nothing: bodies
\* appear only under a manifest.
NoBodyBeforeTheClaim == [][manifest = Absent => body' = body]_vars

\* A successful return means the disk holds the set the caller asked for, on
\* every outcome: fresh, retried, resumed or a race lost to the same set.
SuccessMeansOnDisk ==
  \A w \in Writers :
    outcome[w] = "published" => manifest = want[w] /\ WholeSetOnDisk

\* What is on disk is of one set, and whole where somebody was told so.
SetsAreSound == NeverMixed /\ SuccessMeansOnDisk

\* A set abandoned half-way is finished by whoever publishes it again: no
\* crash, and no body lying there before, leaves a claim nobody can complete.
ClaimedSetIsFinished ==
  \A s \in Sets :
    (manifest = s) ~>
      (\E w \in Writers : want[w] = s /\ outcome[w] = "published")

\* publish_set implements the set register.
Register == INSTANCE SetRegister WITH
  owner <- manifest, whole <- WholeSetOnDisk, wants <- want, told <- outcome

ImplementsRegister == Register!Spec
=============================================================================
