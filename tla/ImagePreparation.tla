--------------------------- MODULE ImagePreparation ---------------------------
(* The images every algorithm is compared over are resampled once, by one    *)
(* resampler, into a set (experiments/sd300_canonical500_images.py,          *)
(* storage/prepared_image_set_store.py, imaging/verify.py, imaging/status.py)*)
(* `materialize` makes them one by one and can be stopped at any point;      *)
(* `finalize` re-derives all of them and publishes set, receipt and marker.  *)
(*                                                                           *)
(* The module is one definition, written by `prepare` at commit 0 under      *)
(* resampler 1.  A process takes its resampler when it first needs Pillow    *)
(* and keeps it; what it records is what is installed when it asks.  The     *)
(* image that resampler v makes of source i is known by <<i, v>>.  One       *)
(* publication of a file is one step (CreateIfAbsent), as is each file of    *)
(* the set (SetPublication).                                                 *)
EXTENDS Integers, FiniteSets

CONSTANTS
  Preparers,      \* processes, one call at a time each
  NImages,        \* images the definition promises
  PrepMaxEvents   \* bound: how often Pillow is replaced, HEAD moves, a process
                  \* dies or an image file is damaged, together

ASSUME PrepAssumption ==
  NImages \in Nat \ {0} /\ PrepMaxEvents \in Nat

Promised == 1..NImages

VARIABLES
  installed,  \* the resampler on the machine, 1 or 2
  replaced,   \* it was replaced at some time
  blobs,      \* image files on disk, each named by the digest of its bytes
  spoiled,    \* those whose bytes were replaced
  entryOf,    \* for each image the resampler of the file its entry names, or 0
  stage,      \* files of the set: 0, 1 the manifest, 2 the definition, 3 the rows
  verifiers,  \* the runtimes audits were made under: the audit is on disk
  prepReceipt, prepMarker,  \* the stored receipt, and the one the marker cites
  evidence500,  \* the receipt's copy in the working tree
  prepHead, committed500,   \* HEAD, and the copy it holds
  calls,      \* the call each process is in
  prepTold,   \* what its last call returned
  prepEvents  \* events so far

machine == <<installed, replaced>>
images == <<blobs, spoiled, entryOf>>
set500 == <<stage, verifiers, prepReceipt, prepMarker>>
tree500 == <<evidence500, prepHead, committed500>>
procs == <<calls, prepTold>>
prepVars == <<machine, images, set500, tree500, procs, prepEvents>>

NoReceipt == [by |-> <<0, 0>>, stamp |-> 0]
TornCopy  == [by |-> <<0, 0>>, stamp |-> -1]

Idle == [at |-> "idle", image |-> 1, made |-> FALSE,
         commit |-> 0, runtime |-> 0, library |-> 0]

PrepInit ==
  /\ installed = 1 /\ replaced = FALSE
  /\ blobs = {} /\ spoiled = {} /\ entryOf = [i \in Promised |-> 0]
  /\ stage = 0 /\ verifiers = {} /\ prepReceipt = NoReceipt /\ prepMarker = NoReceipt
  /\ evidence500 = NoReceipt /\ prepHead = 0 /\ committed500 = NoReceipt
  /\ calls = [p \in Preparers |-> Idle]
  /\ prepTold = [p \in Preparers |-> "none"]
  /\ prepEvents = 0

-----------------------------------------------------------------------------
(* What a call looks at.                                                     *)

\* git status: an evidence copy nobody committed makes the tree dirty.
TreeIsClean == evidence500 = committed500

\* verify_entry, and the file of every entry.
IntactImage(i) == <<i, entryOf[i]>> \in blobs \ spoiled
AllRecorded == \A i \in Promised : entryOf[i] # 0
AllIntact == AllRecorded /\ \A i \in Promised : IntactImage(i)

\* _check_source: the transform run again on every source.
Rederives(v) == AllIntact /\ \A i \in Promised : entryOf[i] = v

\* What a finalizer that audits under runtime r at commit c would publish.
ReceiptOf(p, c, r) == [by |-> <<c, r>>, stamp |-> p]

\* inspect_preparation, by a process whose resampler is v.  Until a set names the
\* definition its status (UNFINISHED here) counts the entries.
PrepStatus(v) ==
  CASE stage < 2 -> "UNFINISHED"
    [] stage = 2 -> "INVALID"
    [] stage = 3 ->
         IF \/ ~Rederives(v)
            \/ prepReceipt # NoReceipt /\ prepReceipt.by \notin verifiers
            \/ prepMarker # NoReceipt /\ prepMarker # prepReceipt
           THEN "INVALID"
           ELSE IF NoReceipt \in {prepReceipt, prepMarker} THEN "VERIFIED"
                ELSE "PREPARATION_READY"

-----------------------------------------------------------------------------
Proceed(p, step) == calls' = [calls EXCEPT ![p].at = step] /\ UNCHANGED prepTold

Return(p, answer) ==
  /\ calls' = [calls EXCEPT ![p] = Idle]
  /\ prepTold' = [prepTold EXCEPT ![p] = answer]

At(p, step) == calls[p].at = step

Unpublished == UNCHANGED <<machine, images, set500, tree500, prepEvents>>

-----------------------------------------------------------------------------
(* materialize.                                                              *)

\* _load_prepared: a clean tree, at the commit of the definition.
BeginMaterializing(p) ==
  /\ At(p, "idle") /\ prepTold[p] # "ready" /\ ~AllRecorded
  /\ IF TreeIsClean /\ prepHead = 0
       THEN Proceed(p, "before") ELSE Return(p, "failed")
  /\ Unpublished

\* The files of the resampler are hashed before it is first used.
CaptureBefore(p) ==
  /\ At(p, "before")
  /\ IF installed = 1 THEN Proceed(p, "import") ELSE Return(p, "failed")
  /\ Unpublished

ImportPillow(p) ==
  /\ At(p, "import")
  /\ calls' = [calls EXCEPT ![p].at = "walk", ![p].library = installed]
  /\ UNCHANGED prepTold /\ Unpublished

NextImage(p, made) ==
  /\ calls' = [calls EXCEPT ![p].at = "walk", ![p].image = @ + 1, ![p].made = made]
  /\ UNCHANGED prepTold

\* An entry that exists is verified and never repaired.
ReuseEntry(p) ==
  LET i == calls[p].image IN
  /\ At(p, "walk") /\ i <= NImages /\ entryOf[i] # 0
  /\ IF IntactImage(i) THEN NextImage(p, calls[p].made) ELSE Return(p, "failed")
  /\ Unpublished

\* The budget, of one image or more, may end the walk.
StopWalk(p) ==
  /\ At(p, "walk")
  /\ \/ calls[p].image > NImages
     \/ calls[p].made /\ calls[p].image <= NImages /\ entryOf[calls[p].image] = 0
  /\ calls' = [calls EXCEPT ![p] = [Idle EXCEPT !.at = "after"]]
  /\ UNCHANGED prepTold /\ Unpublished

\* ensure_image: filed under the digest of its bytes, or found there intact.
PlaceImage(p) ==
  LET o == <<calls[p].image, calls[p].library>> IN
  /\ At(p, "walk") /\ calls[p].image <= NImages /\ entryOf[calls[p].image] = 0
  /\ IF o \in spoiled
       THEN Return(p, "failed") /\ UNCHANGED blobs
       ELSE Proceed(p, "entry") /\ blobs' = blobs \cup {o}
  /\ UNCHANGED <<machine, spoiled, entryOf, set500, tree500, prepEvents>>

\* The file is read back, then ensure_entry: created, or the same.
RecordImage(p) ==
  LET i == calls[p].image
      v == calls[p].library
  IN
  /\ At(p, "entry")
  /\ IF <<i, v>> \in spoiled \/ entryOf[i] \notin {0, v}
       THEN Return(p, "failed") /\ UNCHANGED entryOf
       ELSE NextImage(p, TRUE) /\ entryOf' = [entryOf EXCEPT ![i] = v]
  /\ UNCHANGED <<machine, blobs, spoiled, set500, tree500, prepEvents>>

\* Under another resampler "this preparation set is void" is the message, and
\* nothing on disk says it.
CaptureAfter(p) ==
  /\ At(p, "after")
  /\ Return(p, IF installed = 1 /\ TreeIsClean /\ prepHead = 0
                 THEN "made" ELSE "failed")
  /\ Unpublished

-----------------------------------------------------------------------------
(* finalize, from whatever commit and under whatever resampler.              *)

\* The operator finalizes what is complete; a first call may come too early.
BeginFinalizing(p) ==
  /\ At(p, "idle") /\ prepTold[p] # "ready" /\ (AllRecorded \/ prepTold[p] = "none")
  /\ IF TreeIsClean
       THEN /\ calls' = [calls EXCEPT ![p].at = "collect", ![p].commit = prepHead]
            /\ UNCHANGED prepTold
       ELSE Return(p, "failed")
  /\ Unpublished

CollectEntries(p) ==
  /\ At(p, "collect")
  /\ IF AllIntact
       THEN /\ calls' = [calls EXCEPT ![p].at = "publish", ![p].library = installed]
            /\ UNCHANGED prepTold
       ELSE Return(p, "failed")
  /\ Unpublished

\* publish_set: every file is created if it is absent, in this order, and the
\* whole set is verified at its end.
PublishSetFile(p) ==
  /\ At(p, "publish") /\ stage < 3
  /\ stage' = stage + 1
  /\ UNCHANGED <<procs, machine, images, verifiers, prepReceipt, prepMarker, tree500, prepEvents>>

VerifySet(p) ==
  /\ At(p, "publish") /\ stage = 3
  /\ IF AllIntact THEN Proceed(p, "audit") ELSE Return(p, "failed")
  /\ Unpublished

BeginAudit(p) ==
  /\ At(p, "audit")
  /\ IF TreeIsClean /\ prepHead = calls[p].commit
       THEN /\ calls' = [calls EXCEPT ![p].at = "rederive", ![p].runtime = installed]
            /\ UNCHANGED prepTold
       ELSE Return(p, "failed")
  /\ Unpublished

\* The audit trusts the digests in the entries.
BugAuditImages(p) ==
  /\ At(p, "rederive")
  /\ IF AllIntact THEN Proceed(p, "papers") ELSE Return(p, "failed")
  /\ Unpublished

AuditImages(p) ==
  /\ At(p, "rederive")
  /\ IF Rederives(calls[p].library) THEN Proceed(p, "papers") ELSE Return(p, "failed")
  /\ Unpublished

\* Captured again, and the same; then the audit, its runtime and the summary.
EndAudit(p) ==
  /\ At(p, "papers")
  /\ IF TreeIsClean /\ prepHead = calls[p].commit /\ installed = calls[p].runtime
       THEN /\ Proceed(p, "receipt")
            /\ verifiers' = verifiers \cup {<<calls[p].commit, calls[p].runtime>>}
       ELSE Return(p, "failed") /\ UNCHANGED verifiers
  /\ UNCHANGED <<machine, images, stage, prepReceipt, prepMarker, tree500, prepEvents>>

\* Two receipts are the same unless their verifiers differ; the first one stays.
PublishReceipt(p) ==
  LET mine == ReceiptOf(p, calls[p].commit, calls[p].runtime) IN
  /\ At(p, "receipt")
  /\ prepReceipt' = IF prepReceipt = NoReceipt THEN mine ELSE prepReceipt
  /\ IF prepReceipt'.by = mine.by THEN Proceed(p, "marker") ELSE Return(p, "failed")
  /\ UNCHANGED <<machine, images, stage, verifiers, prepMarker, tree500, prepEvents>>

\* The marker cites the receipt that was read back, to the byte.
PublishMarker(p) ==
  /\ At(p, "marker")
  /\ prepMarker' = IF prepMarker = NoReceipt THEN prepReceipt ELSE prepMarker
  /\ IF prepMarker' = prepReceipt THEN Proceed(p, "inspect") ELSE Return(p, "failed")
  /\ UNCHANGED <<machine, images, stage, verifiers, prepReceipt, tree500, prepEvents>>

InspectPreparation(p) ==
  /\ At(p, "inspect")
  /\ IF PrepStatus(calls[p].library) = "PREPARATION_READY"
       THEN Proceed(p, "copy") ELSE Return(p, "failed")
  /\ Unpublished

\* The copy is opened for creation, then written.
OpenCopy(p) ==
  /\ At(p, "copy") /\ evidence500 = NoReceipt
  /\ evidence500' = TornCopy
  /\ Proceed(p, "write")
  /\ UNCHANGED <<machine, images, set500, prepHead, committed500, prepEvents>>

WriteCopy(p) ==
  /\ At(p, "write")
  /\ evidence500' = prepReceipt
  /\ Return(p, "ready")
  /\ UNCHANGED <<machine, images, set500, prepHead, committed500, prepEvents>>

FindCopy(p) ==
  /\ At(p, "copy") /\ evidence500 # NoReceipt
  /\ Return(p, IF evidence500 = prepReceipt THEN "ready" ELSE "failed")
  /\ Unpublished

-----------------------------------------------------------------------------
(* What happens around the calls.                                            *)

PrepEvent == prepEvents < PrepMaxEvents /\ prepEvents' = prepEvents + 1

ReplacePillow ==
  /\ PrepEvent
  /\ installed' = 3 - installed /\ replaced' = TRUE
  /\ UNCHANGED <<images, set500, tree500, procs>>

CommitTree ==
  /\ PrepEvent
  /\ prepHead' = prepHead + 1 /\ committed500' \in {committed500, evidence500}
  /\ UNCHANGED <<machine, images, set500, evidence500, procs>>

SpoilImage ==
  /\ PrepEvent
  /\ \E o \in blobs : spoiled' = spoiled \cup {o}
  /\ UNCHANGED <<machine, blobs, entryOf, set500, tree500, procs>>

PreparerDies(p) ==
  /\ ~At(p, "idle") /\ PrepEvent
  /\ Return(p, "failed")
  /\ UNCHANGED <<machine, images, set500, tree500>>

-----------------------------------------------------------------------------
Prepare(p) ==
  \/ BeginMaterializing(p) \/ CaptureBefore(p) \/ ImportPillow(p) \/ ReuseEntry(p)
  \/ StopWalk(p) \/ PlaceImage(p) \/ RecordImage(p) \/ CaptureAfter(p)
  \/ BeginFinalizing(p) \/ CollectEntries(p) \/ PublishSetFile(p) \/ VerifySet(p)
  \/ BeginAudit(p) \/ AuditImages(p) \/ EndAudit(p) \/ PublishReceipt(p)
  \/ PublishMarker(p) \/ InspectPreparation(p) \/ OpenCopy(p) \/ WriteCopy(p)
  \/ FindCopy(p)

PrepNext ==
  \/ \E p \in Preparers : Prepare(p) \/ PreparerDies(p)
  \/ ReplacePillow \/ CommitTree \/ SpoilImage

\* A process gets on with its call, and a call that failed is made again.
PrepSpec == PrepInit /\ [][PrepNext]_prepVars
PrepFairness == \A p \in Preparers : WF_prepVars(Prepare(p))

-----------------------------------------------------------------------------
(* Properties.                                                               *)

PrepTypeOK ==
  /\ installed \in {1, 2} /\ stage \in 0..3
  /\ spoiled \subseteq blobs /\ blobs \subseteq Promised \X {1, 2}
  /\ entryOf \in [Promised -> 0..2]
  /\ \A p \in Preparers : calls[p].image \in 1..(NImages + 1)

\* A set with a marker was made by one resampler, though the processes that made
\* it took whichever was installed when they first needed it, and recorded what
\* was installed when they asked.
OneResampler ==
  prepMarker # NoReceipt => \E v \in {1, 2} : \A i \in Promised : entryOf[i] = v

\* The marker cites the receipt that is on disk, over the rows that are on disk
\* and an audit whose runtime is on disk, whoever raced for which of them.
MarkerCitesItsChain ==
  prepMarker # NoReceipt =>
    stage = 3 /\ prepMarker = prepReceipt /\ prepReceipt.by \in verifiers

\* A preparation that was ever finished is ready for whoever has its resampler,
\* unless an image was damaged; one whose publication was cut short is not
\* mistaken for it.
FinishedIsReady ==
  /\ prepMarker # NoReceipt =>
       \E v \in {1, 2} : PrepStatus(v) = "PREPARATION_READY" \/ spoiled # {}
  /\ \A p \in Preparers : prepTold[p] = "ready" => prepMarker # NoReceipt

\* The set is finished in the end, by whichever process, if Pillow and HEAD stay
\* as they are and no image is damaged: a process that died anywhere is no
\* obstacle to those that ask again.
PreparationEnds ==
  PrepStatus(1) = "PREPARATION_READY" \/ replaced \/ prepHead > 0 \/ spoiled # {}
=============================================================================
