---------------------------- MODULE AtomicPublish ---------------------------
(***************************************************************************)
(* publish_file of fpbench/core/atomic_write.py: several processes create  *)
(* one path from private scratch files, by os.link where the mount has     *)
(* hard links and by an O_EXCL sentinel plus os.replace where it has not.  *)
(*                                                                         *)
(* One writer is one call.  A process that crashes and is started again is *)
(* a crashed writer and another one that has not begun.                    *)
(***************************************************************************)
EXTENDS Naturals

CONSTANTS
  Publishers,     \* the calls of publish_file on one path
  Bytes,          \* the contents a producer may write
  Mounts,         \* the mounts: each the set of calls whose os.link works there
  ClaimAttempts,  \* _CLAIM_ATTEMPTS
  NoFile,         \* the target path does not exist
  Nobody          \* the sentinel path does not exist

ASSUME MountsAssumption == Mounts \subseteq SUBSET Publishers
ASSUME AttemptsAssumption == ClaimAttempts \in Nat
ASSUME NoFileAssumption == NoFile \notin Bytes
ASSUME NobodyAssumption == Nobody \notin Publishers

VARIABLES
  target,    \* the published path: NoFile or its bytes
  claim,     \* <target>.publishing: Nobody, or the call that created it
  scratch,   \* the calls whose private temporary file exists
  mine,      \* the bytes each call's producer writes
  linkers,   \* the calls whose os.link works
  fileAt,    \* where each call is
  attempts,  \* iterations of the claim loop each call has begun
  answer,    \* what each call returns or raises, once that is decided
  compared   \* history: the calls that compared the target with their bytes

fileVars == <<target, claim, scratch, mine, linkers, fileAt, attempts, answer, compared>>

Answers == {"none", "published", "identical", "conflict", "error"}

FileSteps == {"produce", "reserve", "claim", "await", "poll", "look", "swap",
              "release", "compare", "tidy", "done", "crashed"}

Holding == {"look", "swap", "release"}   \* between O_EXCL create and unlink
Ended == {"done", "crashed"}

FileTypeOK ==
  /\ target \in Bytes \cup {NoFile}
  /\ claim \in Publishers \cup {Nobody}
  /\ scratch \subseteq Publishers
  /\ mine \in [Publishers -> Bytes]
  /\ linkers \in Mounts
  /\ fileAt \in [Publishers -> FileSteps]
  /\ attempts \in [Publishers -> 0 .. ClaimAttempts]
  /\ answer \in [Publishers -> Answers]
  /\ compared \subseteq Publishers

FileInit ==
  /\ target \in Bytes \cup {NoFile}
  /\ claim = Nobody
  /\ scratch = {}
  /\ mine \in [Publishers -> Bytes]
  /\ linkers \in Mounts
  /\ fileAt = [w \in Publishers |-> "produce"]
  /\ attempts = [w \in Publishers |-> 0]
  /\ answer = [w \in Publishers |-> "none"]
  /\ compared = {}

FileGoto(w, step) == fileAt' = [fileAt EXCEPT ![w] = step]

Decide(w, o) == answer' = [answer EXCEPT ![w] = o]

-----------------------------------------------------------------------------
(* The producer and its private scratch file.                              *)

Produce(w) ==
  /\ fileAt[w] = "produce"
  /\ scratch' = scratch \cup {w}
  /\ FileGoto(w, "reserve")
  /\ UNCHANGED <<target, claim, mine, linkers, attempts, answer>>

\* The producer raised, or returned and left no file.
ProducerFails(w) ==
  /\ fileAt[w] = "produce"
  /\ scratch' \in {scratch, scratch \cup {w}}
  /\ Decide(w, "error")
  /\ FileGoto(w, "tidy")
  /\ UNCHANGED <<target, claim, mine, linkers, attempts>>

-----------------------------------------------------------------------------
(* _reserve: the hard link, and the fallback when it is refused.           *)

\* A mutation: rename over the name instead of link.
BugRenameInsteadOfLink(w) ==
  /\ fileAt[w] = "reserve"
  /\ w \in linkers
  /\ target' = mine[w]
  /\ Decide(w, "published")
  /\ FileGoto(w, "tidy")
  /\ UNCHANGED <<claim, scratch, mine, linkers, attempts>>

LinkCreates(w) ==
  /\ fileAt[w] = "reserve"
  /\ w \in linkers
  /\ target = NoFile
  /\ target' = mine[w]
  /\ Decide(w, "published")
  /\ FileGoto(w, "tidy")
  /\ UNCHANGED <<claim, scratch, mine, linkers, attempts>>

\* FileExistsError, which the kernel reports before it looks for link support.
LinkFindsTarget(w) ==
  /\ fileAt[w] = "reserve"
  /\ target # NoFile
  /\ FileGoto(w, "compare")
  /\ UNCHANGED <<target, claim, scratch, mine, linkers, attempts, answer>>

\* Any other OSError sends the call to _reserve_by_claim.
LinkUnavailable(w) ==
  /\ fileAt[w] = "reserve"
  /\ w \notin linkers
  /\ FileGoto(w, "claim")
  /\ UNCHANGED <<target, claim, scratch, mine, linkers, attempts, answer>>

-----------------------------------------------------------------------------
(* _reserve_by_claim: at most ClaimAttempts rounds for the sentinel.       *)

BeginRound(w) ==
  /\ fileAt[w] = "claim"
  /\ attempts[w] < ClaimAttempts
  /\ attempts' = [attempts EXCEPT ![w] = @ + 1]

TakeClaim(w) ==
  /\ BeginRound(w)
  /\ claim = Nobody
  /\ claim' = w
  /\ FileGoto(w, "look")
  /\ UNCHANGED <<target, scratch, mine, linkers, answer>>

\* FileExistsError; or PermissionError, which Windows also raises while the
\* previous holder's unlink is still pending.
ClaimRefused(w) ==
  /\ BeginRound(w)
  /\ FileGoto(w, "await")
  /\ UNCHANGED <<target, claim, scratch, mine, linkers, answer>>

\* The same PublishConflictError as a comparison that failed, with nothing compared.
ClaimsExhausted(w) ==
  /\ fileAt[w] = "claim"
  /\ attempts[w] = ClaimAttempts
  /\ Decide(w, "conflict")
  /\ FileGoto(w, "tidy")
  /\ UNCHANGED <<target, claim, scratch, mine, linkers, attempts>>

(* _await_publication: the target first, then the sentinel, two reads.     *)
AwaitLooksAtTarget(w) ==
  /\ fileAt[w] = "await"
  /\ FileGoto(w, IF target # NoFile THEN "compare" ELSE "poll")
  /\ UNCHANGED <<target, claim, scratch, mine, linkers, attempts, answer>>

AwaitLooksAtClaim(w) ==
  /\ fileAt[w] = "poll"
  /\ FileGoto(w, IF claim = Nobody THEN "claim" ELSE "await")
  /\ UNCHANGED <<target, claim, scratch, mine, linkers, attempts, answer>>

\* A mutation: a wait with no deadline.
BugAwaitForever(w) ==
  /\ fileAt[w] = "await"
  /\ target # NoFile
  /\ FileGoto(w, "compare")
  /\ UNCHANGED <<target, claim, scratch, mine, linkers, attempts, answer>>

\* The deadline of _CLAIM_TIMEOUT_SECONDS: a PublishConflictError again, whether
\* or not the holder's file has appeared since the last look.
AwaitTimesOut(w) ==
  /\ fileAt[w] = "await"
  /\ Decide(w, "conflict")
  /\ FileGoto(w, "tidy")
  /\ UNCHANGED <<target, claim, scratch, mine, linkers, attempts>>

\* A mutation: no second look once the claim is held.
BugSkipLook(w) ==
  /\ fileAt[w] = "look"
  /\ FileGoto(w, "swap")
  /\ UNCHANGED <<target, claim, scratch, mine, linkers, attempts, answer>>

LookUnderClaim(w) ==
  /\ fileAt[w] = "look"
  /\ FileGoto(w, IF target # NoFile THEN "release" ELSE "swap")
  /\ UNCHANGED <<target, claim, scratch, mine, linkers, attempts, answer>>

\* os.replace(source, target): the scratch file becomes the target.
Swap(w) ==
  /\ fileAt[w] = "swap"
  /\ target' = mine[w]
  /\ scratch' = scratch \ {w}
  /\ Decide(w, "published")
  /\ FileGoto(w, "release")
  /\ UNCHANGED <<claim, mine, linkers, attempts>>

SwapFails(w) ==
  /\ fileAt[w] = "swap"
  /\ Decide(w, "error")
  /\ FileGoto(w, "release")
  /\ UNCHANGED <<target, claim, scratch, mine, linkers, attempts>>

\* The finally clause: unlink the sentinel, or fail to and carry on.
Release(w) ==
  /\ fileAt[w] = "release"
  /\ claim' \in {Nobody, claim}
  /\ FileGoto(w, IF answer[w] = "none" THEN "compare" ELSE "tidy")
  /\ UNCHANGED <<target, scratch, mine, linkers, attempts, answer>>

-----------------------------------------------------------------------------
(* The loser's comparison, and the clean-up every call ends with.          *)

Compare(w) ==
  /\ fileAt[w] = "compare"
  /\ target # NoFile
  /\ Decide(w, IF target = mine[w] THEN "identical" ELSE "conflict")
  /\ FileGoto(w, "tidy")
  /\ UNCHANGED <<target, claim, scratch, mine, linkers, attempts>>

\* _digest_of_the_winner still cannot open the file after _SETTLE_SECONDS.
CompareTimesOut(w) ==
  /\ fileAt[w] = "compare"
  /\ Decide(w, "error")
  /\ FileGoto(w, "tidy")
  /\ UNCHANGED <<target, claim, scratch, mine, linkers, attempts>>

Tidy(w) ==
  /\ fileAt[w] = "tidy"
  /\ scratch' = scratch \ {w}
  /\ FileGoto(w, "done")
  /\ UNCHANGED <<target, claim, mine, linkers, attempts, answer>>

\* The unlink raises: the scratch file stays and the caller gets that error in
\* place of the answer, even of a file that is published.
TidyFails(w) ==
  /\ fileAt[w] = "tidy"
  /\ w \in scratch
  /\ Decide(w, "error")
  /\ FileGoto(w, "done")
  /\ UNCHANGED <<target, claim, scratch, mine, linkers, attempts>>

-----------------------------------------------------------------------------
(* The environment.                                                        *)

\* The process dies: its scratch file and its sentinel stay where they are.
Crash(w) ==
  /\ fileAt[w] \notin Ended
  /\ FileGoto(w, "crashed")
  /\ UNCHANGED <<target, claim, scratch, mine, linkers, attempts, answer, compared>>

\* The operator follows the timeout's message: "remove the claim once you
\* know no writer still holds it".
OperatorRemovesClaim ==
  /\ claim # Nobody
  /\ fileAt[claim] \notin Holding
  /\ claim' = Nobody
  /\ UNCHANGED <<target, scratch, mine, linkers, fileAt, attempts, answer, compared>>

-----------------------------------------------------------------------------

\* Whoever is told the result of a comparison has compared.
Remember ==
  compared' = compared \cup
    {w \in Publishers : fileAt[w] = "compare" /\ answer'[w] \in {"identical", "conflict"}}

FileStep(w) ==
  /\ \/ Produce(w) \/ ProducerFails(w)
     \/ LinkCreates(w) \/ LinkFindsTarget(w) \/ LinkUnavailable(w)
     \/ TakeClaim(w) \/ ClaimRefused(w) \/ ClaimsExhausted(w)
     \/ AwaitLooksAtTarget(w) \/ AwaitLooksAtClaim(w) \/ AwaitTimesOut(w)
     \/ LookUnderClaim(w) \/ Swap(w) \/ SwapFails(w) \/ Release(w)
     \/ Compare(w) \/ CompareTimesOut(w) \/ Tidy(w) \/ TidyFails(w)
  /\ Remember

FileNext ==
  \/ \E w \in Publishers : FileStep(w) \/ Crash(w)
  \/ OperatorRemovesClaim

FileSpec == FileInit /\ [][FileNext]_fileVars

\* A live process keeps running, and its wait has a deadline: the loop
\* condition of _await_publication is false from then on.
FileFairness ==
  \A w \in Publishers : WF_fileVars(FileStep(w)) /\ SF_fileVars(AwaitTimesOut(w) /\ Remember)

FileFairSpec == FileSpec /\ FileFairness

-----------------------------------------------------------------------------
(* Properties.                                                             *)

\* A mount either has hard links for every caller or for none.
UniformLinks == Mounts \subseteq {{}, Publishers}

\* A published artefact is never replaced: whatever the interleaving of link,
\* sentinel, rename and crash, bytes under the final name stay those bytes.
NeverClobbered == [][target # NoFile => target' = target]_fileVars

\* Every decided call told the truth about the file: a publisher's bytes are
\* there, "identical" means equal bytes, and a conflict that was found by
\* comparing means other bytes that really exist, never a missing or half-written
\* target.  A conflict that nobody compared for tells nothing, and is raised only
\* where hard links do not work.
AnswersAgreeWithDisk ==
  \A w \in Publishers :
    /\ answer[w] \in {"published", "identical"} => target = mine[w]
    /\ answer[w] = "conflict" =>
         IF w \in compared THEN target \notin {NoFile, mine[w]} ELSE w \notin linkers

\* What PublishConflictError says of itself: "Another writer published different
\* bytes at this path first".
ConflictMeansDifferentBytes ==
  \A w \in Publishers : answer[w] = "conflict" => target \notin {NoFile, mine[w]}

\* _digest_of_the_winner always has a winner: a call only loses to a file
\* that exists, so FileNotFoundError there is never the end of a lost race.
LosersHaveAWinner == \A w \in Publishers : fileAt[w] = "compare" => target # NoFile

\* The sentinel is a lock: no two live calls are between its creation and its
\* removal, and the one that is there owns it.
ClaimIsExclusive ==
  \A w \in Publishers : fileAt[w] \in Holding => claim = w

\* What a call concludes from the files it looked at is still so when it says it.
AnswersAreTrue == AnswersAgreeWithDisk /\ LosersHaveAWinner /\ ClaimIsExclusive

\* Every call returns or raises, even one that meets the sentinel of a
\* process that died holding it.
EveryCallEnds == \A w \in Publishers : (fileAt[w] = "produce") ~> (fileAt[w] \in Ended)

\* The publication is a create-if-absent register (CreateIfAbsent).
FileRegister == INSTANCE CreateIfAbsent WITH
  Writers <- Publishers, Absent <- NoFile, file <- target, offer <- mine

ImplementsFileRegister == FileRegister!Spec
=============================================================================
