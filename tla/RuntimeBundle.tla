---------------------------- MODULE RuntimeBundle ----------------------------
(* Before a research run starts, the files it will execute are copied once   *)
(* into a directory named by their digests                                   *)
(* (storage/runtime_bundle_store.py).  A bundle is the tuple of the versions *)
(* of its files; the sources are build output, which a build may replace at  *)
(* any moment, also between the digests and the copies.  One publication is  *)
(* one step (CreateIfAbsent).                                                *)
EXTENDS Integers, Sequences

CONSTANTS
  Materializers,    \* calls of materialize, each repeated until it succeeds
  NRoles,           \* files of a bundle, in the order they are copied
  MaxBuilds,        \* bound: how often each source is replaced
  BundleMaxFaults   \* bound: crashes, and stored files damaged or lost

ASSUME BundleAssumption ==
  /\ NRoles \in Nat \ {0}
  /\ MaxBuilds \in Nat /\ BundleMaxFaults \in Nat

Roles == 1..NRoles

VARIABLES
  source,      \* the version of each source file
  moments,     \* history: every state the sources were in together
  placed,      \* the files of the bundles: <<bundle, role>> to content and mode
  manifests,   \* the bundles that have a manifest
  matAt,       \* "idle", "digest", "look", "copy", "mode", "publish"
  matRole,     \* the file in hand
  digests,     \* the versions digested so far; once whole, the bundle
  told,        \* what the last call returned or raised
  known,       \* history: the files that were damaged when the call began
  spoilt,      \* history: the files that were damaged or lost
  buFaults     \* crashes and damage so far

disk == <<placed, manifests>>
caller == <<matAt, matRole, digests, told, known>>
world == <<source, moments, spoilt, buFaults>>
bundleVars == <<disk, caller, world>>

Bundle(w) == digests[w]
File(w) == <<Bundle(w), matRole[w]>>
Rotten == {f \in DOMAIN placed : placed[f].content # f[1][f[2]]}
Intact(b) == \A r \in Roles : <<b, r>> \in DOMAIN placed /\ <<b, r>> \notin Rotten

BundleInit ==
  /\ source = [r \in Roles |-> 1] /\ moments = {source}
  /\ placed = <<>> /\ manifests = {} /\ spoilt = {} /\ buFaults = 0
  /\ matAt = [w \in Materializers |-> "idle"]
  /\ matRole = [w \in Materializers |-> 1]
  /\ digests = [w \in Materializers |-> <<>>]
  /\ told = [w \in Materializers |-> "none"]
  /\ known = [w \in Materializers |-> {}]

-----------------------------------------------------------------------------
(* One call of materialize.                                                 *)

Goto(w, step) == matAt' = [matAt EXCEPT ![w] = step]

Tell(w, answer) ==
  /\ Goto(w, "idle")
  /\ told' = [told EXCEPT ![w] = answer]
  /\ UNCHANGED <<matRole, digests, known>>

\* A caller that has its bundle does not ask again.
BeginMaterialize(w) ==
  /\ matAt[w] = "idle" /\ told[w] \notin {"written", "stored"}
  /\ Goto(w, "digest")
  /\ matRole' = [matRole EXCEPT ![w] = 1]
  /\ digests' = [digests EXCEPT ![w] = <<>>]
  /\ told' = [told EXCEPT ![w] = "none"]
  /\ known' = [known EXCEPT ![w] = Rotten]
  /\ UNCHANGED <<disk, world>>

DigestSource(w) ==
  /\ matAt[w] = "digest"
  /\ digests' = [digests EXCEPT ![w] = Append(@, source[Len(@) + 1])]
  /\ Goto(w, IF Len(digests'[w]) = NRoles THEN "look" ELSE "digest")
  /\ UNCHANGED <<disk, matRole, told, known, world>>

\* has_bundle, read_bundle, verify_bundle: the bytes are read again, the modes
\* are not looked at, and damage is told, never mended.
FindBundle(w) ==
  /\ matAt[w] = "look" /\ Bundle(w) \in manifests
  /\ Tell(w, IF Intact(Bundle(w)) THEN "stored" ELSE "conflict")
  /\ UNCHANGED <<disk, world>>

NoBundleYet(w) ==
  /\ matAt[w] = "look" /\ Bundle(w) \notin manifests
  /\ Goto(w, "copy")
  /\ UNCHANGED <<disk, matRole, digests, told, known, world>>

\* What the file in hand leaves to do.
NextAsset(w) ==
  /\ IF matRole[w] = NRoles
       THEN Goto(w, "publish") /\ UNCHANGED matRole
       ELSE Goto(w, "copy") /\ matRole' = [matRole EXCEPT ![w] = @ + 1]
  /\ UNCHANGED <<digests, told, known>>

\* publish_file: created, or the bytes that are there are the same.
Place(w) ==
  IF File(w) \in DOMAIN placed
    THEN File(w) \notin Rotten /\ UNCHANGED placed
    ELSE placed' = [f \in DOMAIN placed \cup {File(w)} |->
           IF f \in DOMAIN placed THEN placed[f]
           ELSE [content |-> source[matRole[w]], launchable |-> FALSE]]

\* _copy_verified: what is copied is what was digested, or nothing is.
SourceChanged(w) ==
  /\ matAt[w] = "copy" /\ source[matRole[w]] # Bundle(w)[matRole[w]]
  /\ Tell(w, "failed")
  /\ UNCHANGED <<disk, world>>

\* An asset that is already there is left as it is.
BugCopyAsset(w) ==
  /\ matAt[w] = "copy" /\ source[matRole[w]] = Bundle(w)[matRole[w]]
  /\ Place(w)
  /\ IF File(w) \in DOMAIN placed
       THEN NextAsset(w)
       ELSE Goto(w, "mode") /\ UNCHANGED <<matRole, digests, told, known>>
  /\ UNCHANGED <<manifests, world>>

CopyAsset(w) ==
  /\ matAt[w] = "copy" /\ source[matRole[w]] = Bundle(w)[matRole[w]]
  /\ Place(w)
  /\ Goto(w, "mode")
  /\ UNCHANGED <<manifests, matRole, digests, told, known, world>>

AssetConflicts(w) ==
  /\ matAt[w] = "copy" /\ source[matRole[w]] = Bundle(w)[matRole[w]]
  /\ File(w) \in Rotten
  /\ Tell(w, "failed")
  /\ UNCHANGED <<disk, world>>

\* _preserve_executable_bits, after the publication; nobody takes the bits away,
\* so its reading and its writing of the mode are one step.
PreserveMode(w) ==
  /\ matAt[w] = "mode"
  /\ IF File(w) \in DOMAIN placed
       THEN /\ placed' = [placed EXCEPT ![File(w)].launchable = TRUE]
            /\ NextAsset(w)
       ELSE Tell(w, "failed") /\ UNCHANGED placed
  /\ UNCHANGED <<manifests, world>>

PublishManifest(w) ==
  /\ matAt[w] = "publish" /\ Bundle(w) \notin manifests
  /\ manifests' = manifests \cup {Bundle(w)}
  /\ Tell(w, "written")
  /\ UNCHANGED <<placed, world>>

\* The manifest says when it was built: two writers of one bundle agree only if
\* they stamped the same microsecond.
ManifestExists(w) ==
  /\ matAt[w] = "publish" /\ Bundle(w) \in manifests
  /\ \E answer \in {"written", "conflict"} : Tell(w, answer)
  /\ UNCHANGED <<disk, world>>

-----------------------------------------------------------------------------
(* What happens around the calls.                                           *)

\* A build that replaces one file; versions are never used again.
BuildSource ==
  /\ \E r \in Roles :
       /\ source[r] <= MaxBuilds
       /\ source' = [source EXCEPT ![r] = @ + 1]
  /\ moments' = moments \cup {source'}
  /\ UNCHANGED <<disk, caller, spoilt, buFaults>>

BundleFault == buFaults < BundleMaxFaults /\ buFaults' = buFaults + 1

\* A stored file is altered, or lost.
SpoilAsset ==
  /\ BundleFault
  /\ \E f \in DOMAIN placed :
       /\ spoilt' = spoilt \cup {f}
       /\ \/ /\ placed' = [placed EXCEPT ![f].content = 0]
             /\ UNCHANGED known
          \/ /\ placed' = [g \in DOMAIN placed \ {f} |-> placed[g]]
             /\ known' = [w \in Materializers |-> known[w] \ {f}]
  /\ UNCHANGED <<manifests, matAt, matRole, digests, told, source, moments>>

BundleProcessDies(w) ==
  /\ matAt[w] # "idle" /\ BundleFault
  /\ Goto(w, "idle")
  /\ UNCHANGED <<disk, matRole, digests, told, known, source, moments, spoilt>>

-----------------------------------------------------------------------------
Materialize(w) ==
  \/ BeginMaterialize(w) \/ DigestSource(w) \/ FindBundle(w) \/ NoBundleYet(w)
  \/ SourceChanged(w) \/ CopyAsset(w) \/ AssetConflicts(w) \/ PreserveMode(w)
  \/ PublishManifest(w) \/ ManifestExists(w)

BundleNext ==
  \/ \E w \in Materializers : Materialize(w) \/ BundleProcessDies(w)
  \/ BuildSource \/ SpoilAsset

\* A process gets on with its call, and who has no bundle asks again.
BundleSpec == BundleInit /\ [][BundleNext]_bundleVars
BundleFairness == \A w \in Materializers : WF_bundleVars(Materialize(w))

-----------------------------------------------------------------------------
(* Properties.                                                              *)

BundleTypeOK ==
  /\ source \in [Roles -> 1..(MaxBuilds + 1)]
  /\ \A f \in DOMAIN placed :
       f[2] \in Roles /\ placed[f].content \in Nat /\ placed[f].launchable \in BOOLEAN
  /\ \A w \in Materializers : matRole[w] \in Roles /\ Len(digests[w]) <= NRoles
  /\ \A b \in manifests : Len(b) = NRoles

\* A bundle with a manifest holds every file, each can be launched, and together
\* they are what the sources were at one moment, although they were digested and
\* copied one by one while builds went on: the digests are all taken before the
\* first copy, and a copy must still have its digest.
BundlesAreWhole ==
  \A b \in manifests :
    /\ b \in moments
    /\ \A r \in Roles : <<b, r>> \notin spoilt =>
         /\ <<b, r>> \in DOMAIN placed \ Rotten
         /\ placed[<<b, r>>].launchable

\* Nobody who begins while a file of the bundle is damaged is given that bundle
\* as long as the damaged file is there, and nobody mends it.
DamageIsReported ==
  \A w \in Materializers : told[w] \in {"written", "stored"} =>
    \A r \in Roles : <<Bundle(w), r>> \notin known[w]

\* Every caller has its bundle, or something was damaged; a conflict over the
\* manifest and a source that changed only cost another call.
EveryoneIsServed ==
  spoilt # {} \/ \A w \in Materializers : told[w] \in {"written", "stored"}
=============================================================================
