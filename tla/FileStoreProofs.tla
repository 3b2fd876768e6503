--------------------------- MODULE FileStoreProofs ---------------------------
(***************************************************************************)
(* Proofs about the two parts that place files under names of their own:   *)
(* RuntimeBundle, for every number of callers, files and builds, and       *)
(* ImagePreparation, for every number of processes and images.             *)
(***************************************************************************)
EXTENDS RuntimeBundle, ImagePreparation, SequenceTheorems, TLAPS

-----------------------------------------------------------------------------
(* Runtime bundles.                                                        *)

\* A bundle as the function it is: the version of each of its files.
Versions == 1..(MaxBuilds + 1)
BundleIds == [Roles -> Versions]
BundleFiles == BundleIds \X Roles

BundleSteps == {"idle", "digest", "look", "copy", "mode", "publish"}
Whole == {"look", "copy", "mode", "publish"}   \* the steps after the last digest

DiskFits ==
  /\ source \in BundleIds /\ moments \subseteq BundleIds /\ source \in moments
  /\ DOMAIN placed \subseteq BundleFiles
  /\ placed \in [DOMAIN placed -> [content : Nat, launchable : BOOLEAN]]
  /\ manifests \subseteq BundleIds

CallersFit ==
  /\ matAt \in [Materializers -> BundleSteps]
  /\ matRole \in [Materializers -> Roles]
  /\ digests \in [Materializers -> Seq(Versions)]
  /\ told \in [Materializers -> {"none", "written", "stored", "conflict", "failed"}]
  /\ DOMAIN known = Materializers

\* The roles whose file a call has found or placed, and those it has launched.
Copied(w) ==
  {r \in Roles : \/ matAt[w] = "publish"
                 \/ matAt[w] = "mode" /\ r <= matRole[w]
                 \/ matAt[w] = "copy" /\ r < matRole[w]}
Launched(w) == {r \in Copied(w) : matAt[w] = "publish" \/ r < matRole[w]}

\* A moment the sources were in since the last digest was taken; a copy that
\* has its digest pins it down for its role, because no version comes back.
Witnessed(w, m) ==
  \A r \in Roles :
    /\ digests[w][r] <= m[r] /\ m[r] <= source[r]
    /\ r \in Copied(w) => m[r] = digests[w][r]

\* What a call has under its hands.
CallIsSound(w) ==
  /\ matAt[w] # "idle" => told[w] = "none"
  /\ matAt[w] = "digest" =>
       Len(digests[w]) < NRoles /\ \A i \in DOMAIN digests[w] : digests[w][i] <= source[i]
  /\ matAt[w] \in {"digest", "look"} => matRole[w] = 1
  /\ Len(digests[w]) <= NRoles
  /\ matAt[w] \in Whole =>
       digests[w] \in BundleIds /\ \E m \in moments : Witnessed(w, m)

FilesAreSound(w) ==
  /\ \A r \in Copied(w) :
       <<Bundle(w), r>> \notin known[w] /\ <<Bundle(w), r>> \in DOMAIN placed \cup spoilt
  /\ \A r \in Launched(w) :
       <<Bundle(w), r>> \notin spoilt => placed[<<Bundle(w), r>>].launchable

\* What was damaged stays damaged, or goes.
DamageStays == Rotten \subseteq spoilt /\ \A w \in Materializers : known[w] \subseteq Rotten

BundleInv ==
  /\ DiskFits /\ CallersFit
  /\ \A w \in Materializers : CallIsSound(w) /\ FilesAreSound(w)
  /\ DamageStays
  /\ BundlesAreWhole /\ DamageIsReported

-----------------------------------------------------------------------------
(* The effect of the control operators on one call.                        *)

Untouched(v) ==
  /\ matAt'[v] = matAt[v] /\ matRole'[v] = matRole[v] /\ digests'[v] = digests[v]
  /\ told'[v] = told[v] /\ known'[v] = known[v]

Others(w) == \A v \in Materializers \ {w} : Untouched(v)

\* A step of the program takes no file away, alters none, and takes no bit of
\* its mode away; no source goes back.
DiskGrows ==
  /\ DOMAIN placed \subseteq DOMAIN placed'
  /\ \A f \in DOMAIN placed :
       /\ placed'[f].content = placed[f].content
       /\ placed[f].launchable => placed'[f].launchable
  /\ moments \subseteq moments' /\ \A r \in Roles : source[r] <= source'[r]
  /\ spoilt' = spoilt

LEMMA OtherStaysSound ==
  ASSUME BundleInv, DiskFits', DiskGrows, NEW v \in Materializers, Untouched(v)
  PROVE  (CallIsSound(v) /\ FilesAreSound(v))'
<1>1. /\ matAt'[v] = matAt[v] /\ matRole'[v] = matRole[v] /\ digests'[v] = digests[v]
      /\ told'[v] = told[v] /\ known'[v] = known[v]
  BY DEF Untouched
<1>2. Copied(v)' = Copied(v) /\ Launched(v)' = Launched(v)
  BY <1>1 DEF Copied, Launched
<1>3. CallIsSound(v) /\ FilesAreSound(v)
  BY DEF BundleInv
<1>4. source \in BundleIds /\ source' \in BundleIds
  BY DEF BundleInv, DiskFits
<1>5. ASSUME matAt[v] = "digest", NEW i \in DOMAIN digests[v]
      PROVE  digests[v][i] <= source'[i]
  <2>1. digests[v] \in Seq(Versions) /\ Len(digests[v]) < NRoles
    BY <1>3, <1>5 DEF CallIsSound, BundleInv, CallersFit
  <2>2. i \in Roles /\ digests[v][i] \in Versions /\ digests[v][i] <= source[i]
    BY <2>1, <1>3, <1>5, BundleAssumption DEF CallIsSound, Roles
  <2>3. source[i] \in Nat /\ source'[i] \in Nat /\ source[i] <= source'[i]
    BY <2>2, <1>4, BundleAssumption DEF BundleIds, Versions, DiskGrows
  <2> QED
    BY <2>2, <2>3, BundleAssumption DEF Versions
<1>6. ASSUME NEW m \in moments, Witnessed(v, m), digests[v] \in BundleIds
      PROVE  m \in moments' /\ Witnessed(v, m)'
  <2>1. m \in moments' /\ m \in BundleIds
    BY DEF DiskGrows, BundleInv, DiskFits
  <2>2. \A r \in Roles : m[r] <= source'[r]
    BY <1>4, <1>6, <2>1, BundleAssumption DEF Witnessed, DiskGrows, BundleIds, Versions
  <2> QED
    BY <1>1, <1>2, <1>6, <2>1, <2>2 DEF Witnessed
<1>7. CallIsSound(v)'
  BY <1>1, <1>3, <1>5, <1>6 DEF CallIsSound
<1>8. FilesAreSound(v)'
  <2>1. \A r \in Roles : <<Bundle(v), r>>' = <<Bundle(v), r>>
    BY <1>1 DEF Bundle
  <2>2. Copied(v) \subseteq Roles /\ Launched(v) \subseteq Copied(v)
    BY DEF Copied, Launched
  <2>3. \A r \in Copied(v) :
          /\ <<Bundle(v), r>> \notin known[v]'
          /\ <<Bundle(v), r>> \in (DOMAIN placed \cup spoilt)'
    BY <1>1, <1>3 DEF FilesAreSound, DiskGrows
  <2>4. ASSUME NEW r \in Launched(v), <<Bundle(v), r>> \notin spoilt
        PROVE  placed'[<<Bundle(v), r>>].launchable
    BY <1>3, <2>2, <2>4 DEF FilesAreSound, DiskGrows
  <2> QED
    BY <1>1, <1>2, <2>1, <2>2, <2>3, <2>4 DEF FilesAreSound, DiskGrows, Bundle
<1> QED
  BY <1>7, <1>8

\* Nor does a step of the program make damage, or mend what was known to be.
LEMMA DamageIsKept ==
  ASSUME BundleInv, DiskFits', CallersFit', DiskGrows, NEW w \in Materializers, Others(w),
         known'[w] \subseteq Rotten,
         \A f \in DOMAIN placed' \ DOMAIN placed : placed'[f].content = f[1][f[2]]
  PROVE  DamageStays' /\ Rotten' = Rotten
<1>1. Rotten' = Rotten
  BY DEF Rotten, DiskGrows
<1>2. DamageStays
  BY DEF BundleInv
<1>3. \A v \in Materializers : known'[v] \subseteq Rotten'
  BY <1>1, <1>2 DEF Others, Untouched, DamageStays
<1> QED
  BY <1>1, <1>2, <1>3 DEF DamageStays, DiskGrows

\* What a bundle with a manifest has, it keeps.
LEMMA BundlesStayWhole ==
  ASSUME BundleInv, DiskGrows, Rotten' = Rotten,
         NEW b \in manifests
  PROVE  /\ b \in moments'
         /\ \A r \in Roles : <<b, r>> \notin spoilt' =>
              /\ <<b, r>> \in DOMAIN placed' \ Rotten'
              /\ placed'[<<b, r>>].launchable
<1>1. /\ b \in moments
      /\ \A r \in Roles : <<b, r>> \notin spoilt =>
           /\ <<b, r>> \in DOMAIN placed \ Rotten
           /\ placed[<<b, r>>].launchable
  BY DEF BundleInv, BundlesAreWhole
<1> QED
  BY <1>1 DEF DiskGrows

\* The bundle of a call that was told of success is one it was not to be told of.
ToldTruly(w) ==
  told[w] \in {"written", "stored"} => \A r \in Roles : <<Bundle(w), r>> \notin known[w]

LEMMA StepOfCall ==
  ASSUME BundleInv, DiskFits', CallersFit', DiskGrows, NEW w \in Materializers, Others(w),
         known'[w] \subseteq Rotten,
         \A f \in DOMAIN placed' \ DOMAIN placed : placed'[f].content = f[1][f[2]],
         (CallIsSound(w) /\ FilesAreSound(w) /\ ToldTruly(w))',
         \A b \in manifests' \ manifests :
           /\ b \in moments'
           /\ \A r \in Roles : <<b, r>> \notin spoilt' =>
                /\ <<b, r>> \in DOMAIN placed' \ Rotten'
                /\ placed'[<<b, r>>].launchable
  PROVE  BundleInv'
<1>1. \A v \in Materializers : (CallIsSound(v) /\ FilesAreSound(v))'
  BY OtherStaysSound DEF Others
<1>2. DamageStays' /\ Rotten' = Rotten
  BY DamageIsKept
<1>3. BundlesAreWhole'
  BY <1>2, BundlesStayWhole DEF BundlesAreWhole
<1>4. \A v \in Materializers : ToldTruly(v)'
  BY DEF ToldTruly, Others, Untouched, BundleInv, DamageIsReported, Bundle
<1> QED
  BY <1>1, <1>2, <1>3, <1>4 DEF BundleInv, DamageIsReported, ToldTruly

\* A step that leaves the disk and the sources alone.
DiskIsQuiet == UNCHANGED <<placed, manifests, source, moments, spoilt>>

LEMMA QuietDisk ==
  ASSUME BundleInv, DiskIsQuiet
  PROVE  /\ DiskFits' /\ DiskGrows /\ Rotten' = Rotten
         /\ manifests' \ manifests = {} /\ DOMAIN placed' \ DOMAIN placed = {}
<1>1. DiskFits /\ source \in BundleIds
  BY DEF BundleInv, DiskFits
<1>2. DiskFits'
  BY <1>1 DEF DiskIsQuiet, DiskFits
<1>3. \A r \in Roles : source[r] \in Nat
  BY <1>1, BundleAssumption DEF BundleIds, Versions
<1>4. DiskGrows
  BY <1>3 DEF DiskIsQuiet, DiskGrows
<1> QED
  BY <1>2, <1>4 DEF DiskIsQuiet, Rotten

LEMMA QuietCall ==
  ASSUME BundleInv, DiskIsQuiet, CallersFit', NEW w \in Materializers, Others(w),
         known'[w] \subseteq Rotten,
         (CallIsSound(w) /\ FilesAreSound(w) /\ ToldTruly(w))'
  PROVE  BundleInv'
BY QuietDisk, StepOfCall

\* Goto and Tell, with the functions they leave to the caller.
LEMMA GotoStep ==
  ASSUME CallersFit, NEW w \in Materializers, NEW step \in BundleSteps, Goto(w, step)
  PROVE  /\ matAt' \in [Materializers -> BundleSteps] /\ matAt'[w] = step
         /\ \A v \in Materializers \ {w} : matAt'[v] = matAt[v]
BY DEF CallersFit, Goto

LEMMA TellStep ==
  ASSUME BundleInv, NEW w \in Materializers,
         NEW answer \in {"written", "stored", "conflict", "failed"}, Tell(w, answer)
  PROVE  /\ CallersFit' /\ Others(w) /\ known' = known /\ digests' = digests
         /\ matAt'[w] = "idle" /\ told'[w] = answer
         /\ (CallIsSound(w) /\ FilesAreSound(w))'
<1>1. CallersFit /\ "idle" \in BundleSteps
  BY DEF BundleInv, BundleSteps
<1>2. Goto(w, "idle") /\ UNCHANGED <<matRole, digests, known>>
  BY DEF Tell
<1>3. /\ matAt' \in [Materializers -> BundleSteps] /\ matAt'[w] = "idle"
      /\ \A v \in Materializers \ {w} : matAt'[v] = matAt[v]
  BY <1>1, <1>2, GotoStep
<1>4. CallersFit' /\ Others(w) /\ told'[w] = answer
  BY <1>1, <1>2, <1>3 DEF CallersFit, Others, Untouched, Tell
<1>5. CallIsSound(w)'
  BY <1>2, <1>3 DEF CallIsSound, BundleInv, Whole
<1>6. FilesAreSound(w)'
  BY <1>3 DEF FilesAreSound, Copied, Launched
<1> QED
  BY <1>2, <1>3, <1>4, <1>5, <1>6

-----------------------------------------------------------------------------
(* The steps of a call.                                                    *)

LEMMA Refused ==
  ASSUME BundleInv, NEW w \in Materializers, DiskIsQuiet,
         NEW answer \in {"written", "stored", "conflict", "failed"}, Tell(w, answer),
         answer \in {"written", "stored"} => \A r \in Roles : <<Bundle(w), r>> \notin known[w]
  PROVE  BundleInv'
<1>1. /\ CallersFit' /\ Others(w) /\ known' = known /\ digests' = digests
      /\ told'[w] = answer /\ (CallIsSound(w) /\ FilesAreSound(w))'
  BY TellStep
<1>2. known'[w] \subseteq Rotten
  BY <1>1 DEF BundleInv, DamageStays
<1>3. ToldTruly(w)'
  BY <1>1 DEF ToldTruly, Bundle
<1> QED
  BY <1>1, <1>2, <1>3, QuietCall

LEMMA BeginStep ==
  ASSUME BundleInv, NEW w \in Materializers, BeginMaterialize(w) PROVE BundleInv'
<1>1. CallersFit /\ DiskIsQuiet /\ Goto(w, "digest") /\ "digest" \in BundleSteps
  BY DEF BeginMaterialize, BundleInv, DiskIsQuiet, disk, world, BundleSteps
<1>2. /\ matAt' \in [Materializers -> BundleSteps] /\ matAt'[w] = "digest"
      /\ \A v \in Materializers \ {w} : matAt'[v] = matAt[v]
  BY <1>1, GotoStep
<1>3. <<>> \in Seq(Versions) /\ 1 \in Roles
  BY BundleAssumption DEF Roles
<1>4. /\ matRole'[w] = 1 /\ digests'[w] = <<>> /\ told'[w] = "none" /\ known'[w] = Rotten
      /\ CallersFit' /\ Others(w)
  BY <1>1, <1>2, <1>3 DEF BeginMaterialize, CallersFit, Others, Untouched
<1>5. CallIsSound(w)'
  BY <1>2, <1>4, BundleAssumption DEF CallIsSound, Whole
<1>6. FilesAreSound(w)' /\ ToldTruly(w)'
  BY <1>2, <1>4 DEF FilesAreSound, Copied, Launched, ToldTruly
<1> QED
  BY <1>1, <1>4, <1>5, <1>6, QuietCall

LEMMA DigestStep ==
  ASSUME BundleInv, NEW w \in Materializers, DigestSource(w) PROVE BundleInv'
<1> DEFINE old == digests[w]
           new == Append(old, source[Len(old) + 1])
           step == IF Len(new) = NRoles THEN "look" ELSE "digest"
<1>1. /\ CallersFit /\ CallIsSound(w) /\ DiskFits /\ DiskIsQuiet /\ matAt[w] = "digest"
      /\ UNCHANGED <<matRole, told, known>> /\ known[w] \subseteq Rotten
  BY DEF DigestSource, BundleInv, DiskIsQuiet, disk, world, DamageStays
<1>2. /\ old \in Seq(Versions) /\ Len(old) < NRoles
      /\ \A i \in DOMAIN old : old[i] <= source[i]
      /\ matRole[w] = 1 /\ told[w] = "none"
  BY <1>1 DEF CallIsSound, CallersFit
<1>3. source \in BundleIds /\ source \in moments /\ Len(old) + 1 \in Roles
  BY <1>1, <1>2, BundleAssumption DEF DiskFits, Roles
<1>4. source[Len(old) + 1] \in Versions
  BY <1>3 DEF BundleIds
<1>5. /\ new \in Seq(Versions) /\ Len(new) = Len(old) + 1
      /\ \A i \in DOMAIN new : new[i] = IF i <= Len(old) THEN old[i] ELSE source[i]
  BY <1>2, <1>4
<1>6. \A i \in DOMAIN new : new[i] <= source[i]
  <2> TAKE i \in DOMAIN new
  <2>1. i \in Roles /\ i \in 1 .. Len(old) + 1
    BY <1>2, <1>5, BundleAssumption DEF Roles
  <2>2. source[i] \in Nat
    BY <2>1, <1>3, BundleAssumption DEF BundleIds, Versions
  <2> QED
    BY <1>2, <1>5, <2>1, <2>2
<1>7. digests' = [digests EXCEPT ![w] = new] /\ digests'[w] = new
  BY <1>1 DEF DigestSource, CallersFit
<1>8. Goto(w, step) /\ step \in BundleSteps
  BY <1>7 DEF DigestSource, BundleSteps
<1> HIDE DEF new, step
<1>9. /\ matAt' \in [Materializers -> BundleSteps] /\ matAt'[w] = step
      /\ \A v \in Materializers \ {w} : matAt'[v] = matAt[v]
  BY <1>1, <1>8, GotoStep
<1>10. CallersFit' /\ Others(w)
  BY <1>1, <1>5, <1>7, <1>9 DEF CallersFit, Others, Untouched
<1>11. matRole'[w] = 1 /\ told'[w] = "none" /\ known'[w] = known[w]
  BY <1>1, <1>2
<1>12. step # "idle" /\ (step = "digest" \/ step = "look") /\ Copied(w)' = {}
  BY <1>9 DEF step, Copied
<1>13. FilesAreSound(w)' /\ ToldTruly(w)'
  BY <1>11, <1>12 DEF FilesAreSound, Launched, ToldTruly
<1>14. CASE step = "digest"
  <2>1. Len(new) < NRoles
    BY <1>2, <1>5, <1>14, BundleAssumption DEF step
  <2>2. CallIsSound(w)'
    BY <1>1, <1>6, <1>7, <1>9, <1>11, <1>14, <2>1, <1>2, <1>5, BundleAssumption
    DEF CallIsSound, Whole, DiskIsQuiet
  <2> QED
    BY <1>1, <1>10, <1>11, <1>13, <2>2, QuietCall
<1>15. CASE step = "look"
  <2>1. Len(new) = NRoles
    BY <1>15 DEF step
  <2>2. new \in BundleIds
    BY <1>5, <2>1 DEF BundleIds, Roles
  <2>3. source \in moments' /\ source' = source /\ moments' = moments
    BY <1>1, <1>3 DEF DiskIsQuiet
  <2>4. \A r \in Roles : new[r] <= source[r] /\ source[r] <= source[r]
    BY <1>3, <1>6, <2>1, <2>2, BundleAssumption DEF BundleIds, Versions
  <2>5. Witnessed(w, source)'
    BY <1>7, <1>12, <2>3, <2>4 DEF Witnessed
  <2>6. CallIsSound(w)'
    BY <1>5, <1>7, <1>9, <1>11, <1>15, <2>1, <2>2, <2>3, <2>5, BundleAssumption
    DEF CallIsSound, Witnessed
  <2> QED
    BY <1>1, <1>10, <1>11, <1>13, <2>6, QuietCall
<1> QED
  BY <1>12, <1>14, <1>15

LEMMA FindStep ==
  ASSUME BundleInv, NEW w \in Materializers, FindBundle(w) PROVE BundleInv'
<1> DEFINE answer == IF Intact(Bundle(w)) THEN "stored" ELSE "conflict"
<1>1. Tell(w, answer) /\ DiskIsQuiet /\ known[w] \subseteq Rotten
  BY DEF FindBundle, DiskIsQuiet, disk, world, BundleInv, DamageStays
<1>2. answer = "stored" => \A r \in Roles : <<Bundle(w), r>> \notin known[w]
  BY <1>1 DEF Intact
<1>3. answer \in {"stored", "conflict"}
  OBVIOUS
<1> HIDE DEF answer
<1> QED
  BY <1>1, <1>2, <1>3, Refused

LEMMA LookStep ==
  ASSUME BundleInv, NEW w \in Materializers, NoBundleYet(w) PROVE BundleInv'
<1>1. /\ CallersFit /\ CallIsSound(w) /\ DiskIsQuiet /\ matAt[w] = "look" /\ Goto(w, "copy")
      /\ "copy" \in BundleSteps /\ UNCHANGED <<matRole, digests, told, known>>
      /\ known[w] \subseteq Rotten
  BY DEF NoBundleYet, BundleInv, DiskIsQuiet, disk, world, DamageStays, BundleSteps
<1>2. /\ matAt' \in [Materializers -> BundleSteps] /\ matAt'[w] = "copy"
      /\ \A v \in Materializers \ {w} : matAt'[v] = matAt[v]
  BY <1>1, GotoStep
<1>3. CallersFit' /\ Others(w) /\ told[w] = "none" /\ matRole[w] = 1
  BY <1>1, <1>2 DEF CallersFit, Others, Untouched, CallIsSound
<1>4. Copied(w) = {} /\ Copied(w)' = {}
  BY <1>1, <1>2, <1>3, BundleAssumption DEF Copied, Roles
<1>5. \A m \in moments : Witnessed(w, m) => Witnessed(w, m)'
  BY <1>1, <1>4 DEF Witnessed, DiskIsQuiet
<1>6. CallIsSound(w)'
  BY <1>1, <1>2, <1>5 DEF CallIsSound, Whole, DiskIsQuiet
<1>7. FilesAreSound(w)' /\ ToldTruly(w)'
  BY <1>1, <1>3, <1>4 DEF FilesAreSound, Launched, ToldTruly
<1> QED
  BY <1>1, <1>3, <1>6, <1>7, QuietCall

\* The file in hand, and a moment that has it as it was digested.
LEMMA InHand ==
  ASSUME BundleInv, NEW w \in Materializers, matAt[w] \in {"copy", "mode", "publish"}
  PROVE  /\ Bundle(w) \in BundleIds /\ File(w) \in BundleFiles
         /\ \A r \in Roles : <<Bundle(w), r>> \in BundleFiles
         /\ told[w] = "none" /\ matRole[w] \in Roles
BY DEF BundleInv, CallersFit, CallIsSound, Whole, Bundle, File, BundleFiles

LEMMA CopyStep ==
  ASSUME BundleInv, NEW w \in Materializers, CopyAsset(w) PROVE BundleInv'
<1> DEFINE fresh == [content |-> source[matRole[w]], launchable |-> FALSE]
<1>1. /\ CallersFit /\ CallIsSound(w) /\ FilesAreSound(w) /\ DiskFits
      /\ matAt[w] = "copy" /\ Goto(w, "mode") /\ "mode" \in BundleSteps
      /\ UNCHANGED <<matRole, digests, told, known, manifests, source, moments, spoilt>>
      /\ known[w] \subseteq Rotten /\ Rotten \subseteq spoilt
      /\ source[matRole[w]] = Bundle(w)[matRole[w]]
  BY DEF CopyAsset, BundleInv, world, DamageStays, BundleSteps
<1>2. /\ Bundle(w) \in BundleIds /\ File(w) \in BundleFiles
      /\ told[w] = "none" /\ matRole[w] \in Roles
  BY <1>1, InHand
<1>3. /\ matAt' \in [Materializers -> BundleSteps] /\ matAt'[w] = "mode"
      /\ \A v \in Materializers \ {w} : matAt'[v] = matAt[v]
  BY <1>1, GotoStep
<1>4. CallersFit' /\ Others(w)
  BY <1>1, <1>3 DEF CallersFit, Others, Untouched
<1>5. source \in BundleIds /\ source[matRole[w]] \in Nat /\ \A r \in Roles : source[r] \in Nat
  BY <1>1, <1>2, BundleAssumption DEF DiskFits, BundleIds, Versions
<1>6. /\ DOMAIN placed' = DOMAIN placed \cup {File(w)}
      /\ \A f \in DOMAIN placed : placed'[f] = placed[f]
      /\ placed' \in [DOMAIN placed' -> [content : Nat, launchable : BOOLEAN]]
      /\ File(w) \notin DOMAIN placed =>
           placed'[File(w)].content = source[matRole[w]]
  <2>1. fresh \in [content : Nat, launchable : BOOLEAN] /\ fresh.content = source[matRole[w]]
    BY <1>5
  <2>2. placed \in [DOMAIN placed -> [content : Nat, launchable : BOOLEAN]]
    BY <1>1 DEF DiskFits
  <2>3. CASE File(w) \in DOMAIN placed
    <3>1. placed' = placed
      BY <2>3 DEF CopyAsset, Place
    <3> QED
      BY <2>2, <2>3, <3>1
  <2>4. CASE File(w) \notin DOMAIN placed
    <3>1. placed' = [f \in DOMAIN placed \cup {File(w)} |->
                       IF f \in DOMAIN placed THEN placed[f] ELSE fresh]
      BY <2>4 DEF CopyAsset, Place
    <3> HIDE DEF fresh
    <3> QED
      BY <2>1, <2>2, <2>4, <3>1
  <2> QED
    BY <2>3, <2>4
<1>7. DiskFits'
  BY <1>1, <1>2, <1>6 DEF DiskFits
<1>8. DiskGrows
  BY <1>1, <1>5, <1>6 DEF DiskGrows
<1>9. \A f \in DOMAIN placed' \ DOMAIN placed : placed'[f].content = f[1][f[2]]
  BY <1>1, <1>6 DEF File
<1>10. File(w) \notin Rotten
  BY DEF CopyAsset, Place, Rotten
<1>11. \A r \in Copied(w)' : r \in Copied(w) \/ r = matRole[w]
  BY <1>1, <1>2, <1>3, BundleAssumption DEF Copied, Roles
<1>12. Launched(w)' \subseteq Launched(w)
  BY <1>1, <1>2, <1>3, BundleAssumption DEF Copied, Launched, Roles
<1>13. ASSUME NEW m \in moments, Witnessed(w, m) PROVE Witnessed(w, m)'
  <2>1. m \in BundleIds
    BY <1>1 DEF DiskFits
  <2>2. m[matRole[w]] = digests[w][matRole[w]]
    BY <1>1, <1>2, <1>5, <1>13, <2>1, BundleAssumption
    DEF Witnessed, Bundle, BundleIds, Versions
  <2> QED
    BY <1>1, <1>11, <1>13, <2>2 DEF Witnessed
<1>14. CallIsSound(w)'
  BY <1>1, <1>2, <1>3, <1>13 DEF CallIsSound, Whole
<1>15. FilesAreSound(w)'
  <2>1. ASSUME NEW r \in Copied(w)'
        PROVE  /\ <<Bundle(w), r>> \notin known[w]
               /\ <<Bundle(w), r>> \in DOMAIN placed' \cup spoilt
    BY <1>1, <1>6, <1>10, <1>11, <2>1 DEF FilesAreSound, File
  <2>2. ASSUME NEW r \in Launched(w)', <<Bundle(w), r>> \notin spoilt
        PROVE  placed'[<<Bundle(w), r>>].launchable
    <3>1. r \in Launched(w) /\ r \in Copied(w)
      BY <1>12, <2>2 DEF Launched
    <3>2. <<Bundle(w), r>> \in DOMAIN placed /\ placed[<<Bundle(w), r>>].launchable
      BY <1>1, <2>2, <3>1 DEF FilesAreSound
    <3> QED
      BY <1>6, <3>2
  <2> QED
    BY <1>1, <2>1, <2>2 DEF FilesAreSound, Bundle
<1>16. ToldTruly(w)' /\ manifests' \ manifests = {} /\ known'[w] \subseteq Rotten
  BY <1>1, <1>2 DEF ToldTruly
<1> QED
  BY <1>4, <1>7, <1>8, <1>9, <1>14, <1>15, <1>16, StepOfCall

\* What is left after the file in hand, when it counts as copied and launched:
\* the next one, or the manifest.
LEMMA NextAssetStep ==
  ASSUME BundleInv, NEW w \in Materializers, matAt[w] = "mode", NextAsset(w)
  PROVE  /\ CallersFit' /\ Others(w)
         /\ UNCHANGED <<digests, told, known>>
         /\ matAt'[w] \in {"copy", "publish"}
         /\ Copied(w)' = Copied(w)
         /\ Launched(w)' \subseteq Launched(w) \cup {matRole[w]}
<1> DEFINE step == IF matRole[w] = NRoles THEN "publish" ELSE "copy"
<1>1. /\ CallersFit /\ matRole \in [Materializers -> Roles] /\ matRole[w] \in 1..NRoles
      /\ UNCHANGED <<digests, told, known>>
  BY DEF NextAsset, BundleInv, CallersFit, Roles
<1>2. Goto(w, step) /\ step \in BundleSteps
  BY DEF NextAsset, BundleSteps
<1>3. /\ matAt' \in [Materializers -> BundleSteps] /\ matAt'[w] = step
      /\ \A v \in Materializers \ {w} : matAt'[v] = matAt[v]
  <2> HIDE DEF step
  <2> QED
    BY <1>1, <1>2, GotoStep
<1>4. /\ matRole' \in [Materializers -> Roles]
      /\ matRole'[w] = IF matRole[w] = NRoles THEN matRole[w] ELSE matRole[w] + 1
      /\ \A v \in Materializers \ {w} : matRole'[v] = matRole[v]
  <2>1. CASE matRole[w] = NRoles
    BY <1>1, <2>1 DEF NextAsset
  <2>2. CASE matRole[w] # NRoles
    <3>1. matRole' = [matRole EXCEPT ![w] = @ + 1]
      BY <2>2 DEF NextAsset
    <3>2. matRole[w] + 1 \in Roles
      BY <1>1, <2>2, BundleAssumption DEF Roles
    <3> QED
      BY <1>1, <2>2, <3>1, <3>2
  <2> QED
    BY <2>1, <2>2
<1>5. CallersFit' /\ Others(w)
  BY <1>1, <1>3, <1>4 DEF CallersFit, Others, Untouched
<1>6. Copied(w)' = Copied(w)
  BY <1>1, <1>3, <1>4, BundleAssumption DEF Copied, Roles
<1>7. Launched(w)' \subseteq Launched(w) \cup {matRole[w]}
  BY <1>1, <1>3, <1>4, <1>6, BundleAssumption DEF Launched, Copied, Roles
<1> QED
  BY <1>1, <1>3, <1>5, <1>6, <1>7

LEMMA ModeStep ==
  ASSUME BundleInv, NEW w \in Materializers, PreserveMode(w) PROVE BundleInv'
<1>1. /\ CallIsSound(w) /\ FilesAreSound(w) /\ DiskFits /\ matAt[w] = "mode"
      /\ UNCHANGED <<manifests, source, moments, spoilt>>
      /\ known[w] \subseteq Rotten
  BY DEF PreserveMode, BundleInv, world, DamageStays
<1>2. CASE File(w) \notin DOMAIN placed
  <2>1. Tell(w, "failed") /\ DiskIsQuiet
    BY <1>1, <1>2 DEF PreserveMode, DiskIsQuiet
  <2> QED
    BY <2>1, Refused
<1>3. CASE File(w) \in DOMAIN placed
  <2>1. /\ placed' = [placed EXCEPT ![File(w)].launchable = TRUE] /\ NextAsset(w)
        /\ placed \in [DOMAIN placed -> [content : Nat, launchable : BOOLEAN]]
    BY <1>1, <1>3 DEF PreserveMode, DiskFits
  <2>2. /\ CallersFit' /\ Others(w)
        /\ UNCHANGED <<digests, told, known>>
        /\ matAt'[w] \in {"copy", "publish"}
        /\ Copied(w)' = Copied(w)
        /\ Launched(w)' \subseteq Launched(w) \cup {matRole[w]}
    BY <1>1, <2>1, NextAssetStep
  <2>3. /\ DOMAIN placed' = DOMAIN placed
        /\ placed' \in [DOMAIN placed -> [content : Nat, launchable : BOOLEAN]]
        /\ \A f \in DOMAIN placed : /\ placed'[f].content = placed[f].content
                                    /\ placed[f].launchable => placed'[f].launchable
        /\ placed'[File(w)].launchable
    BY <1>3, <2>1
  <2>4. DiskFits'
    BY <1>1, <2>3 DEF DiskFits
  <2>5. \A r \in Roles : source[r] \in Nat
    BY <1>1, BundleAssumption DEF DiskFits, BundleIds, Versions
  <2>6. DiskGrows
    BY <1>1, <2>3, <2>5 DEF DiskGrows
  <2>7. \A m \in moments : Witnessed(w, m) => Witnessed(w, m)'
    BY <1>1, <2>2 DEF Witnessed
  <2>8. told[w] = "none"
    BY <1>1, InHand
  <2>9. CallIsSound(w)'
    BY <1>1, <2>2, <2>7, <2>8 DEF CallIsSound, Whole
  <2>10. FilesAreSound(w)'
    <3>1. \A r \in Launched(w) : <<Bundle(w), r>> \notin spoilt =>
            /\ <<Bundle(w), r>> \in DOMAIN placed /\ placed[<<Bundle(w), r>>].launchable
      BY <1>1 DEF FilesAreSound, Launched
    <3>2. ASSUME NEW r \in Launched(w)', <<Bundle(w), r>> \notin spoilt
          PROVE  placed'[<<Bundle(w), r>>].launchable
      <4>1. CASE r \in Launched(w)
        BY <2>3, <3>1, <3>2, <4>1
      <4>2. CASE r = matRole[w]
        BY <2>3, <4>2 DEF File
      <4> QED
        BY <2>2, <4>1, <4>2
    <3> QED
      BY <1>1, <2>2, <2>3, <3>2 DEF FilesAreSound, Bundle
  <2>11. ToldTruly(w)' /\ known'[w] \subseteq Rotten /\ manifests' \ manifests = {}
         /\ DOMAIN placed' \ DOMAIN placed = {}
    BY <1>1, <2>2, <2>3, <2>8 DEF ToldTruly
  <2> QED
    BY <2>2, <2>4, <2>6, <2>9, <2>10, <2>11, StepOfCall
<1> QED
  BY <1>2, <1>3

\* When every file was copied, the moment of the last digest is the bundle.
LEMMA AtPublication ==
  ASSUME BundleInv, NEW w \in Materializers, matAt[w] = "publish"
  PROVE  /\ Bundle(w) \in moments
         /\ \A r \in Roles :
              /\ <<Bundle(w), r>> \notin known[w]
              /\ <<Bundle(w), r>> \notin spoilt =>
                   /\ <<Bundle(w), r>> \in DOMAIN placed \ Rotten
                   /\ placed[<<Bundle(w), r>>].launchable
<1>1. /\ CallIsSound(w) /\ FilesAreSound(w) /\ Copied(w) = Roles /\ Launched(w) = Roles
      /\ Rotten \subseteq spoilt /\ moments \subseteq BundleIds
  BY DEF BundleInv, Copied, Launched, DamageStays, DiskFits
<1>2. PICK m \in moments : Witnessed(w, m)
  BY <1>1 DEF CallIsSound, Whole
<1>3. m \in BundleIds /\ digests[w] \in BundleIds
  BY <1>1 DEF CallIsSound, Whole
<1>4. \A r \in Roles : m[r] = digests[w][r]
  BY <1>1, <1>2 DEF Witnessed
<1>5. m = digests[w]
  BY <1>3, <1>4 DEF BundleIds
<1> QED
  BY <1>1, <1>2, <1>5 DEF Bundle, FilesAreSound

LEMMA ManifestStep ==
  ASSUME BundleInv, NEW w \in Materializers, PublishManifest(w) PROVE BundleInv'
<1>1. /\ matAt[w] = "publish" /\ Tell(w, "written")
      /\ manifests' = manifests \cup {Bundle(w)}
      /\ UNCHANGED <<placed, source, moments, spoilt>>
      /\ known[w] \subseteq Rotten /\ DiskFits /\ Bundle(w) \in BundleIds
  BY InHand DEF PublishManifest, BundleInv, world, DamageStays
<1>2. /\ Bundle(w) \in moments
      /\ \A r \in Roles :
           /\ <<Bundle(w), r>> \notin known[w]
           /\ <<Bundle(w), r>> \notin spoilt =>
                /\ <<Bundle(w), r>> \in DOMAIN placed \ Rotten
                /\ placed[<<Bundle(w), r>>].launchable
  BY <1>1, AtPublication
<1>3. /\ CallersFit' /\ Others(w) /\ known' = known /\ digests' = digests
      /\ (CallIsSound(w) /\ FilesAreSound(w))'
  BY <1>1, TellStep
<1>4. ToldTruly(w)'
  BY <1>2, <1>3 DEF ToldTruly, Bundle
<1>5. DiskFits' /\ Rotten' = Rotten
  BY <1>1 DEF DiskFits, Rotten
<1>6. \A r \in Roles : source[r] \in Nat
  BY <1>1, BundleAssumption DEF DiskFits, BundleIds, Versions
<1>7. DiskGrows
  BY <1>1, <1>6 DEF DiskGrows
<1>8. \A b \in manifests' \ manifests : b = Bundle(w)
  BY <1>1
<1> QED
  BY <1>1, <1>2, <1>3, <1>4, <1>5, <1>7, <1>8, StepOfCall

LEMMA ManifestExistsStep ==
  ASSUME BundleInv, NEW w \in Materializers, ManifestExists(w) PROVE BundleInv'
<1>1. matAt[w] = "publish" /\ DiskIsQuiet
  BY DEF ManifestExists, DiskIsQuiet, disk, world
<1>2. PICK answer \in {"written", "conflict"} : Tell(w, answer)
  BY DEF ManifestExists
<1>3. \A r \in Roles : <<Bundle(w), r>> \notin known[w]
  BY <1>1, AtPublication
<1> QED
  BY <1>1, <1>2, <1>3, Refused

-----------------------------------------------------------------------------
(* What happens around the calls.                                          *)

LEMMA BuildStep ==
  ASSUME BundleInv, BuildSource PROVE BundleInv'
<1>1. /\ DiskFits /\ CallersFit /\ DamageStays /\ BundlesAreWhole /\ DamageIsReported
      /\ source \in BundleIds
      /\ UNCHANGED <<placed, manifests, matAt, matRole, digests, told, known, spoilt>>
  BY DEF BundleInv, BuildSource, disk, caller, DiskFits
<1>2. PICK r \in Roles : source[r] <= MaxBuilds /\ source' = [source EXCEPT ![r] = @ + 1]
  BY DEF BuildSource
<1>3. source' \in BundleIds
  BY <1>1, <1>2, BundleAssumption DEF BundleIds, Versions
<1>4. moments' = moments \cup {source'}
  BY DEF BuildSource
<1>5. DiskFits'
  BY <1>1, <1>3, <1>4 DEF DiskFits
<1>6. \A q \in Roles : source[q] <= source'[q]
  BY <1>1, <1>2, BundleAssumption DEF BundleIds, Versions
<1>7. DiskGrows /\ \A v \in Materializers : Untouched(v)
  BY <1>1, <1>4, <1>6 DEF DiskGrows, Untouched
<1>8. \A v \in Materializers : (CallIsSound(v) /\ FilesAreSound(v))'
  BY <1>5, <1>7, OtherStaysSound
<1>9. CallersFit' /\ DamageStays' /\ DamageIsReported'
  BY <1>1 DEF CallersFit, DamageStays, DamageIsReported, Rotten, Bundle
<1>10. BundlesAreWhole'
  BY <1>1, <1>4 DEF BundlesAreWhole, Rotten
<1> QED
  BY <1>5, <1>8, <1>9, <1>10 DEF BundleInv

LEMMA SpoilStep ==
  ASSUME BundleInv, SpoilAsset PROVE BundleInv'
<1>1. /\ DiskFits /\ CallersFit /\ DamageStays /\ BundlesAreWhole /\ DamageIsReported
      /\ UNCHANGED <<manifests, matAt, matRole, digests, told, source, moments>>
      /\ DOMAIN known = Materializers
  BY DEF BundleInv, SpoilAsset, CallersFit
<1>2. PICK f \in DOMAIN placed :
        /\ spoilt' = spoilt \cup {f}
        /\ \/ /\ placed' = [placed EXCEPT ![f].content = 0]
              /\ UNCHANGED known
           \/ /\ placed' = [g \in DOMAIN placed \ {f} |-> placed[g]]
              /\ known' = [w \in Materializers |-> known[w] \ {f}]
  BY DEF SpoilAsset
<1>3. placed \in [DOMAIN placed -> [content : Nat, launchable : BOOLEAN]]
  BY <1>1 DEF DiskFits
<1>4. f \in BundleFiles /\ f[1][f[2]] # 0
  BY <1>1, <1>2, BundleAssumption DEF DiskFits, BundleFiles, BundleIds, Versions
\* Every other file is as it was, and nothing is known that was not.
<1>5. /\ DOMAIN placed' \subseteq DOMAIN placed /\ DOMAIN placed \ {f} \subseteq DOMAIN placed'
      /\ placed' \in [DOMAIN placed' -> [content : Nat, launchable : BOOLEAN]]
      /\ \A g \in DOMAIN placed \ {f} : placed'[g] = placed[g]
      /\ f \in DOMAIN placed' => placed'[f].content = 0
  BY <1>2, <1>3
<1>6. /\ DOMAIN known' = Materializers
      /\ \A w \in Materializers :
           /\ known'[w] \subseteq known[w]
           /\ f \in known'[w] => f \in DOMAIN placed'
  <2>1. \A w \in Materializers : known[w] \subseteq DOMAIN placed
    BY <1>1 DEF DamageStays, Rotten
  <2> QED
    BY <1>1, <1>2, <2>1
<1>7. Rotten \ {f} \subseteq Rotten' /\ Rotten' \subseteq Rotten \cup {f}
      /\ (f \in DOMAIN placed' => f \in Rotten')
  BY <1>4, <1>5 DEF Rotten
<1>8. DiskFits' /\ CallersFit'
  BY <1>1, <1>5, <1>6 DEF DiskFits, CallersFit
<1>9. DamageStays'
  BY <1>1, <1>2, <1>6, <1>7 DEF DamageStays
<1>10. BundlesAreWhole'
  BY <1>1, <1>2, <1>5, <1>7 DEF BundlesAreWhole
<1>11. DamageIsReported'
  BY <1>1, <1>6 DEF DamageIsReported, Bundle
<1>12. ASSUME NEW w \in Materializers PROVE (CallIsSound(w) /\ FilesAreSound(w))'
  <2>1. CallIsSound(w) /\ FilesAreSound(w)
    BY DEF BundleInv
  <2>2. Copied(w)' = Copied(w) /\ Launched(w)' = Launched(w) /\ Bundle(w)' = Bundle(w)
        /\ Launched(w) \subseteq Copied(w)
    BY <1>1 DEF Copied, Launched, Bundle
  <2>3. CallIsSound(w)'
    BY <1>1, <2>1, <2>2 DEF CallIsSound, Witnessed
  <2>4. \A r \in Copied(w) :
          /\ <<Bundle(w), r>> \notin known'[w]
          /\ <<Bundle(w), r>> \in DOMAIN placed' \cup spoilt'
    BY <1>2, <1>5, <1>6, <2>1 DEF FilesAreSound
  <2>5. ASSUME NEW r \in Launched(w), <<Bundle(w), r>> \notin spoilt'
        PROVE  placed'[<<Bundle(w), r>>].launchable
    <3>1. <<Bundle(w), r>> # f /\ <<Bundle(w), r>> \in DOMAIN placed
          /\ placed[<<Bundle(w), r>>].launchable
      BY <1>2, <2>1, <2>2, <2>5 DEF FilesAreSound
    <3> QED
      BY <1>5, <3>1
  <2>6. FilesAreSound(w)'
    BY <2>2, <2>4, <2>5 DEF FilesAreSound
  <2> QED
    BY <2>3, <2>6
<1> QED
  BY <1>8, <1>9, <1>10, <1>11, <1>12 DEF BundleInv

LEMMA DeathStep ==
  ASSUME BundleInv, NEW w \in Materializers, BundleProcessDies(w) PROVE BundleInv'
<1>1. /\ CallersFit /\ CallIsSound(w) /\ DiskIsQuiet /\ matAt[w] # "idle" /\ Goto(w, "idle")
      /\ "idle" \in BundleSteps /\ UNCHANGED <<matRole, digests, told, known>>
      /\ known[w] \subseteq Rotten
  BY DEF BundleProcessDies, BundleInv, DiskIsQuiet, disk, DamageStays, BundleSteps
<1>2. /\ matAt' \in [Materializers -> BundleSteps] /\ matAt'[w] = "idle"
      /\ \A v \in Materializers \ {w} : matAt'[v] = matAt[v]
  BY <1>1, GotoStep
<1>3. CallersFit' /\ Others(w) /\ told[w] = "none"
  BY <1>1, <1>2 DEF CallersFit, Others, Untouched, CallIsSound
<1>4. CallIsSound(w)' /\ FilesAreSound(w)' /\ ToldTruly(w)'
  BY <1>1, <1>2, <1>3 DEF CallIsSound, Whole, FilesAreSound, Copied, Launched, ToldTruly
<1> QED
  BY <1>1, <1>3, <1>4, QuietCall

LEMMA BundleInitially == BundleInit => BundleInv
<1> SUFFICES ASSUME BundleInit PROVE BundleInv
  OBVIOUS
<1>1. 1 \in Versions /\ 1 \in Roles /\ <<>> \in Seq(Versions) /\ "idle" \in BundleSteps
  BY BundleAssumption DEF Versions, Roles, BundleSteps
<1>2. DOMAIN placed = {} /\ Rotten = {}
  BY DEF BundleInit, Rotten
<1>3. DiskFits
  <2>1. source \in BundleIds /\ moments \subseteq BundleIds /\ source \in moments
        /\ manifests \subseteq BundleIds
    BY <1>1 DEF BundleInit, BundleIds
  <2>2. placed \in [DOMAIN placed -> [content : Nat, launchable : BOOLEAN]]
    BY <1>2 DEF BundleInit
  <2> QED
    BY <1>2, <2>1, <2>2 DEF DiskFits
<1>4. CallersFit
  BY <1>1 DEF BundleInit, CallersFit
<1>5. ASSUME NEW w \in Materializers PROVE CallIsSound(w) /\ FilesAreSound(w)
  BY BundleAssumption DEF BundleInit, CallIsSound, FilesAreSound, Copied, Launched, Whole
<1>6. DamageStays /\ BundlesAreWhole /\ DamageIsReported
  BY <1>2 DEF BundleInit, DamageStays, BundlesAreWhole, DamageIsReported
<1> QED
  BY <1>3, <1>4, <1>5, <1>6 DEF BundleInv

LEMMA BundleStep == BundleInv /\ [BundleNext]_bundleVars => BundleInv'
<1> SUFFICES ASSUME BundleInv, [BundleNext]_bundleVars PROVE BundleInv'
  OBVIOUS
<1>1. ASSUME NEW w \in Materializers, Materialize(w) PROVE BundleInv'
  <2>1. CASE BeginMaterialize(w) \/ DigestSource(w) \/ FindBundle(w) \/ NoBundleYet(w)
    BY <2>1, BeginStep, DigestStep, FindStep, LookStep
  <2>2. CASE SourceChanged(w) \/ AssetConflicts(w)
    <3>1. Tell(w, "failed") /\ DiskIsQuiet
      BY <2>2 DEF SourceChanged, AssetConflicts, DiskIsQuiet, disk, world
    <3> QED
      BY <3>1, Refused
  <2>3. CASE CopyAsset(w) \/ PreserveMode(w) \/ PublishManifest(w) \/ ManifestExists(w)
    BY <2>3, CopyStep, ModeStep, ManifestStep, ManifestExistsStep
  <2> QED
    BY <1>1, <2>1, <2>2, <2>3 DEF Materialize
<1>2. ASSUME NEW w \in Materializers, BundleProcessDies(w) PROVE BundleInv'
  BY <1>2, DeathStep
<1>3. CASE BuildSource \/ SpoilAsset
  BY <1>3, BuildStep, SpoilStep
<1>4. CASE UNCHANGED bundleVars
  <2>1. /\ UNCHANGED <<placed, manifests, source, moments, spoilt>>
        /\ UNCHANGED <<matAt, matRole, digests, told, known>>
    BY <1>4 DEF bundleVars, disk, caller, world
  <2>2. DiskFits' /\ CallersFit' /\ DamageStays' /\ BundlesAreWhole' /\ DamageIsReported'
    BY <2>1 DEF BundleInv, DiskFits, CallersFit, DamageStays, BundlesAreWhole,
       DamageIsReported, Rotten, Bundle
  <2>3. \A w \in Materializers : (CallIsSound(w) /\ FilesAreSound(w))'
    <3> SUFFICES ASSUME NEW w \in Materializers PROVE (CallIsSound(w) /\ FilesAreSound(w))'
      OBVIOUS
    <3>1. CallIsSound(w) /\ FilesAreSound(w)
      BY DEF BundleInv
    <3>2. Copied(w)' = Copied(w) /\ Launched(w)' = Launched(w) /\ Bundle(w)' = Bundle(w)
      BY <2>1 DEF Copied, Launched, Bundle
    <3> QED
      BY <2>1, <3>1, <3>2 DEF CallIsSound, FilesAreSound, Witnessed
  <2> QED
    BY <2>2, <2>3 DEF BundleInv
<1> QED
  BY <1>1, <1>2, <1>3, <1>4 DEF BundleNext

LEMMA BundleInvariant == BundleSpec => []BundleInv
BY BundleInitially, BundleStep, PTL DEF BundleSpec

\* What materialize copies for a run is a runtime, however many builds replace
\* the sources between its digests and its copies: a bundle with a manifest is
\* whole, launchable and of one moment, and nobody is told of one with a file
\* that was damaged when the call began.
THEOREM BundlesAreRuntimes ==
  BundleSpec => [](BundleTypeOK /\ BundlesAreWhole /\ DamageIsReported)
<1>1. BundleInv => BundleTypeOK
  <2> SUFFICES ASSUME BundleInv PROVE BundleTypeOK
    OBVIOUS
  <2>1. DiskFits /\ CallersFit /\ \A w \in Materializers : CallIsSound(w)
    BY DEF BundleInv
  <2>2. ASSUME NEW f \in DOMAIN placed
        PROVE  f[2] \in Roles /\ placed[f].content \in Nat /\ placed[f].launchable \in BOOLEAN
    BY <2>1 DEF DiskFits, BundleFiles
  <2>3. ASSUME NEW b \in manifests PROVE Len(b) = NRoles
    BY <2>1, BundleAssumption DEF DiskFits, BundleIds, Roles
  <2> QED
    BY <2>1, <2>2, <2>3
    DEF BundleTypeOK, DiskFits, BundleIds, Versions, CallersFit, CallIsSound
<1>2. BundleInv => BundlesAreWhole /\ DamageIsReported
  BY DEF BundleInv
<1> QED
  BY <1>1, <1>2, BundleInvariant, PTL

-----------------------------------------------------------------------------
(* Prepared images.                                                        *)

Published == {"inspect", "copy", "write"}          \* the marker is on disk
Receipted == {"marker"} \cup Published             \* the receipt is
Attested  == {"receipt"} \cup Receipted            \* the audit is
Audited   == {"papers"} \cup Attested              \* every image was re-derived
Auditing  == {"rederive"} \cup Audited             \* the runtime is recorded
Verified  == {"audit"} \cup Auditing               \* the set was verified
Resampling == {"walk", "entry", "publish"} \cup Verified   \* a resampler is held
PrepSteps == {"idle", "before", "import", "after", "collect"} \cup Resampling

CallType == [at : PrepSteps, image : 1..(NImages + 1), made : BOOLEAN,
             commit : Nat, runtime : 0..2, library : 0..2]

PrepFits ==
  /\ installed \in {1, 2} /\ stage \in 0..3 /\ prepHead \in Nat
  /\ blobs \subseteq Promised \X {1, 2} /\ spoiled \subseteq blobs
  /\ entryOf \in [Promised -> 0..2]
  /\ calls \in [Preparers -> CallType]
  /\ prepTold \in [Preparers -> {"none", "failed", "made", "ready"}]

MadeBy(v) == \A i \in Promised : entryOf[i] = v

\* What a call that has come this far can rely on, whatever the others do.
CallHolds(p) ==
  /\ calls[p].at \in Resampling => calls[p].library \in {1, 2}
  /\ calls[p].at = "entry" =>
       calls[p].image <= NImages /\ <<calls[p].image, calls[p].library>> \in blobs
  /\ calls[p].at \in Verified => stage = 3
  /\ calls[p].at \in Auditing => calls[p].runtime \in {1, 2}
  /\ calls[p].at \in Audited => MadeBy(calls[p].library)
  /\ calls[p].at \in Attested => <<calls[p].commit, calls[p].runtime>> \in verifiers
  /\ calls[p].at \in Receipted => prepReceipt # NoReceipt
  /\ calls[p].at \in Published => prepMarker # NoReceipt
  /\ prepTold[p] = "ready" => prepMarker # NoReceipt

\* An entry has its file; a receipt has its rows, its audit and one resampler;
\* a marker has its receipt.
FilesHold ==
  /\ \A i \in Promised : entryOf[i] # 0 => <<i, entryOf[i]>> \in blobs
  /\ prepReceipt # NoReceipt =>
       stage = 3 /\ prepReceipt.by \in verifiers /\ \E v \in {1, 2} : MadeBy(v)
  /\ prepMarker # NoReceipt => prepMarker = prepReceipt

PrepInv == PrepFits /\ FilesHold /\ \A p \in Preparers : CallHolds(p)

-----------------------------------------------------------------------------
(* The effect of the control operators.                                    *)

PrepAnswers == {"none", "failed", "made", "ready"}

\* No step takes an image file, an entry, a file of the set or an audit away,
\* and the first receipt and the first marker stay.
FilesGrow ==
  /\ blobs \subseteq blobs' /\ verifiers \subseteq verifiers'
  /\ \A i \in Promised : entryOf[i] # 0 => entryOf'[i] = entryOf[i]
  /\ stage = 3 => stage' = 3
  /\ prepReceipt # NoReceipt => prepReceipt' = prepReceipt
  /\ prepMarker # NoReceipt => prepMarker' = prepMarker

LEMMA MadeByStays ==
  ASSUME FilesGrow, NEW v \in {1, 2}, MadeBy(v) PROVE MadeBy(v)'
BY DEF FilesGrow, MadeBy

LEMMA CallStillHolds ==
  ASSUME PrepInv, FilesGrow, NEW q \in Preparers,
         calls'[q] = calls[q], prepTold'[q] = prepTold[q]
  PROVE  CallHolds(q)'
<1>1. CallHolds(q)
  BY DEF PrepInv
<1>2. calls[q].at \in Audited => MadeBy(calls[q].library)'
  BY <1>1, MadeByStays
  DEF CallHolds, Resampling, Verified, Auditing
<1> QED
  BY <1>1, <1>2 DEF CallHolds, FilesGrow

\* One process moves.
OthersWait(p) ==
  \A q \in Preparers \ {p} : calls'[q] = calls[q] /\ prepTold'[q] = prepTold[q]

LEMMA StepOfPreparer ==
  ASSUME PrepInv, FilesGrow, PrepFits', FilesHold', NEW p \in Preparers, OthersWait(p),
         CallHolds(p)'
  PROVE  PrepInv'
BY CallStillHolds DEF PrepInv, OthersWait

LEMMA ProceedEffect ==
  ASSUME PrepFits, NEW p \in Preparers, NEW step \in PrepSteps, Proceed(p, step)
  PROVE  /\ calls' \in [Preparers -> CallType] /\ prepTold' = prepTold
         /\ calls'[p] = [calls[p] EXCEPT !.at = step]
         /\ OthersWait(p)
<1>1. calls \in [Preparers -> CallType] /\ calls' = [calls EXCEPT ![p].at = step]
      /\ prepTold' = prepTold
  BY DEF PrepFits, Proceed
<1>2. [calls[p] EXCEPT !.at = step] \in CallType
  BY <1>1 DEF CallType
<1> QED
  BY <1>1, <1>2 DEF OthersWait

LEMMA IdleIsACall == Idle \in CallType
BY PrepAssumption DEF Idle, CallType, PrepSteps

LEMMA ReturnEffect ==
  ASSUME PrepInv, NEW p \in Preparers, NEW answer \in PrepAnswers, Return(p, answer),
         answer = "ready" => prepMarker' # NoReceipt
  PROVE  /\ calls' \in [Preparers -> CallType] /\ prepTold' \in [Preparers -> PrepAnswers]
         /\ OthersWait(p) /\ CallHolds(p)'
<1>1. /\ calls \in [Preparers -> CallType] /\ prepTold \in [Preparers -> PrepAnswers]
      /\ calls' = [calls EXCEPT ![p] = Idle]
      /\ prepTold' = [prepTold EXCEPT ![p] = answer]
  BY DEF PrepInv, PrepFits, Return, PrepAnswers
<1>2. calls'[p].at = "idle" /\ prepTold'[p] = answer
  BY <1>1 DEF Idle
<1>3. CallHolds(p)'
  BY <1>2
  DEF CallHolds, Resampling, Verified, Auditing, Audited, Attested, Receipted, Published
<1> QED
  BY <1>1, <1>3, IdleIsACall DEF OthersWait

\* A step that writes nothing.
LEMMA NothingWritten ==
  ASSUME PrepInv, Unpublished, calls' \in [Preparers -> CallType],
         prepTold' \in [Preparers -> PrepAnswers]
  PROVE  PrepFits' /\ FilesHold' /\ FilesGrow
<1>1. UNCHANGED <<installed, blobs, spoiled, entryOf, stage, verifiers, prepReceipt,
                  prepMarker, prepHead>>
  BY DEF Unpublished, machine, images, set500, tree500
<1>2. PrepFits /\ FilesHold
  BY DEF PrepInv
<1>3. PrepFits'
  BY <1>1, <1>2 DEF PrepFits, PrepAnswers
<1>4. FilesHold' /\ FilesGrow
  BY <1>1, <1>2 DEF FilesHold, FilesGrow, MadeBy
<1> QED
  BY <1>3, <1>4

LEMMA ReturnQuietly ==
  ASSUME PrepInv, Unpublished, NEW p \in Preparers, NEW answer \in PrepAnswers,
         Return(p, answer), answer = "ready" => prepMarker # NoReceipt
  PROVE  PrepInv'
<1>1. prepMarker' = prepMarker
  BY DEF Unpublished, set500
<1>2. /\ calls' \in [Preparers -> CallType] /\ prepTold' \in [Preparers -> PrepAnswers]
      /\ OthersWait(p) /\ CallHolds(p)'
  BY <1>1, ReturnEffect
<1> QED
  BY <1>2, NothingWritten, StepOfPreparer

LEMMA FailQuietly ==
  ASSUME PrepInv, Unpublished, NEW p \in Preparers, Return(p, "failed") PROVE PrepInv'
BY ReturnQuietly DEF PrepAnswers

LEMMA MoveQuietly ==
  ASSUME PrepInv, Unpublished, NEW p \in Preparers,
         calls' \in [Preparers -> CallType], prepTold' = prepTold, OthersWait(p),
         CallHolds(p)'
  PROVE  PrepInv'
<1>1. prepTold' \in [Preparers -> PrepAnswers]
  BY DEF PrepInv, PrepFits, PrepAnswers
<1> QED
  BY <1>1, NothingWritten, StepOfPreparer

\* Proceeding to `step` keeps the facts of the call; what it has to add are those
\* that hold from that step on.
LEMMA ProceedQuietly ==
  ASSUME PrepInv, Unpublished, NEW p \in Preparers, NEW step \in PrepSteps,
         Proceed(p, step),
         step \in Resampling => calls[p].library \in {1, 2},
         step # "entry",
         step \in Verified => stage = 3,
         step \in Auditing => calls[p].runtime \in {1, 2},
         step \in Audited => MadeBy(calls[p].library),
         step \in Attested => <<calls[p].commit, calls[p].runtime>> \in verifiers,
         step \in Receipted => prepReceipt # NoReceipt,
         step \in Published => prepMarker # NoReceipt
  PROVE  PrepInv'
<1>1. PrepFits /\ CallHolds(p) /\ calls[p] \in CallType
  BY DEF PrepInv, PrepFits
<1>2. /\ calls' \in [Preparers -> CallType] /\ prepTold' = prepTold
      /\ calls'[p] = [calls[p] EXCEPT !.at = step]
      /\ OthersWait(p)
  BY <1>1, ProceedEffect
<1>3. /\ calls'[p].at = step /\ calls'[p].library = calls[p].library
      /\ calls'[p].runtime = calls[p].runtime /\ calls'[p].commit = calls[p].commit
  BY <1>1, <1>2 DEF CallType
<1>4. UNCHANGED <<entryOf, stage, verifiers, prepReceipt, prepMarker, blobs>>
  BY DEF Unpublished, images, set500
<1>5. step \in Audited => MadeBy(calls[p].library)'
  BY <1>3, <1>4 DEF MadeBy
<1>6. CallHolds(p)'
  BY <1>1, <1>2, <1>3, <1>4, <1>5 DEF CallHolds
<1> QED
  BY <1>2, <1>6, MoveQuietly

-----------------------------------------------------------------------------
(* The steps of a call.                                                    *)

LEMMA HoldsNow ==
  ASSUME PrepInv, NEW p \in Preparers
  PROVE  /\ CallHolds(p) /\ PrepFits /\ FilesHold
         /\ calls \in [Preparers -> CallType] /\ calls[p] \in CallType
BY DEF PrepInv, PrepFits

\* Steps that look, and go on or fail.
LEMMA LookingSteps ==
  ASSUME PrepInv, NEW p \in Preparers,
         \/ BeginMaterializing(p) \/ CaptureBefore(p) \/ VerifySet(p)
         \/ AuditImages(p) \/ InspectPreparation(p)
  PROVE  PrepInv'
<1> USE DEF At, Resampling, Verified, Auditing, Audited, Attested, Receipted, Published,
            PrepSteps
<1>0. CallHolds(p) /\ FilesHold /\ calls[p] \in CallType
  BY HoldsNow
<1>1. CASE BeginMaterializing(p)
  <2>1. Unpublished /\ (Proceed(p, "before") \/ Return(p, "failed"))
    BY <1>1 DEF BeginMaterializing
  <2>2. CASE Proceed(p, "before")
    BY <2>1, <2>2, ProceedQuietly
  <2> QED
    BY <2>1, <2>2, FailQuietly
<1>2. CASE CaptureBefore(p)
  <2>1. Unpublished /\ (Proceed(p, "import") \/ Return(p, "failed"))
    BY <1>2 DEF CaptureBefore
  <2>2. CASE Proceed(p, "import")
    BY <2>1, <2>2, ProceedQuietly
  <2> QED
    BY <2>1, <2>2, FailQuietly
<1>3. CASE VerifySet(p)
  <2>1. /\ Unpublished /\ (Proceed(p, "audit") \/ Return(p, "failed"))
        /\ calls[p].at = "publish" /\ stage = 3
    BY <1>3 DEF VerifySet
  <2>2. calls[p].library \in {1, 2}
    BY <1>0, <2>1 DEF CallHolds
  <2>3. CASE Proceed(p, "audit")
    BY <2>1, <2>2, <2>3, ProceedQuietly
  <2> QED
    BY <2>1, <2>3, FailQuietly
<1>4. CASE AuditImages(p)
  <2>1. /\ Unpublished /\ calls[p].at = "rederive"
        /\ \/ Proceed(p, "papers") /\ MadeBy(calls[p].library)
           \/ Return(p, "failed")
    BY <1>4 DEF AuditImages, Rederives, MadeBy
  <2>2. calls[p].library \in {1, 2} /\ stage = 3 /\ calls[p].runtime \in {1, 2}
    BY <1>0, <2>1 DEF CallHolds
  <2>3. CASE Proceed(p, "papers") /\ MadeBy(calls[p].library)
    BY <2>1, <2>2, <2>3, ProceedQuietly
  <2> QED
    BY <2>1, <2>3, FailQuietly
<1>5. CASE InspectPreparation(p)
  <2>1. /\ Unpublished /\ calls[p].at = "inspect"
        /\ Proceed(p, "copy") \/ Return(p, "failed")
    BY <1>5 DEF InspectPreparation
  <2>2. /\ calls[p].library \in {1, 2} /\ stage = 3 /\ calls[p].runtime \in {1, 2}
        /\ MadeBy(calls[p].library) /\ <<calls[p].commit, calls[p].runtime>> \in verifiers
        /\ prepReceipt # NoReceipt /\ prepMarker # NoReceipt
    BY <1>0, <2>1 DEF CallHolds
  <2>3. CASE Proceed(p, "copy")
    BY <2>1, <2>2, <2>3, ProceedQuietly
  <2> QED
    BY <2>1, <2>3, FailQuietly
<1> QED
  BY <1>1, <1>2, <1>3, <1>4, <1>5

\* Steps that end a call, and report what they saw.
LEMMA EndingSteps ==
  ASSUME PrepInv, NEW p \in Preparers, CaptureAfter(p) \/ FindCopy(p)
  PROVE  PrepInv'
<1>1. CASE CaptureAfter(p)
  <2>1. /\ Unpublished
        /\ \E answer \in {"made", "failed"} : Return(p, answer)
    BY <1>1 DEF CaptureAfter
  <2> QED
    BY <2>1, ReturnQuietly DEF PrepAnswers
<1>2. CASE FindCopy(p)
  <2>1. /\ Unpublished /\ calls[p].at = "copy"
        /\ \E answer \in {"ready", "failed"} : Return(p, answer)
    BY <1>2 DEF FindCopy, At
  <2>2. prepMarker # NoReceipt
    BY <2>1, HoldsNow DEF CallHolds, Published
  <2> QED
    BY <2>1, <2>2, ReturnQuietly DEF PrepAnswers
<1> QED
  BY <1>1, <1>2

\* Steps that take something into the call: the resampler, the commit, the runtime.
LEMMA TakingSteps ==
  ASSUME PrepInv, NEW p \in Preparers,
         ImportPillow(p) \/ BeginFinalizing(p) \/ CollectEntries(p) \/ BeginAudit(p)
  PROVE  PrepInv'
<1> USE DEF At, Resampling, Verified, Auditing, Audited, Attested, Receipted, Published,
            PrepSteps
<1>0. /\ CallHolds(p) /\ calls \in [Preparers -> CallType] /\ calls[p] \in CallType
      /\ installed \in {1, 2} /\ prepHead \in Nat
  BY HoldsNow DEF PrepFits
<1>00. installed \in 0..2
  BY <1>0
<1>1. CASE Return(p, "failed")
  <2>1. Unpublished
    BY DEF ImportPillow, BeginFinalizing, CollectEntries, BeginAudit
  <2> QED
    BY <1>1, <2>1, FailQuietly
\* What the call holds afterwards, with what it takes.
<1>2. ASSUME Unpublished, prepTold' = prepTold, OthersWait(p),
             calls' \in [Preparers -> CallType],
             calls'[p].at \in {"walk", "collect", "publish", "rederive"},
             calls'[p].at # "collect" => calls'[p].library \in {1, 2},
             calls'[p].at = "rederive" => stage = 3 /\ calls'[p].runtime \in {1, 2}
      PROVE  PrepInv'
  <2>1. stage' = stage /\ prepMarker' = prepMarker
    BY <1>2 DEF Unpublished, set500
  <2>2. CallHolds(p)'
    BY <1>0, <1>2, <2>1 DEF CallHolds
  <2> QED
    BY <1>2, <2>2, MoveQuietly
<1>3. CASE ImportPillow(p) /\ ~Return(p, "failed")
  <2>1. /\ calls' = [calls EXCEPT ![p].at = "walk", ![p].library = installed]
        /\ prepTold' = prepTold /\ Unpublished
    BY <1>3 DEF ImportPillow
  <2>2. [[calls[p] EXCEPT !.at = "walk"] EXCEPT !.library = installed] \in CallType
    BY <1>0, <1>00 DEF CallType
  <2>3. calls' \in [Preparers -> CallType] /\ OthersWait(p)
    BY <1>0, <2>1, <2>2 DEF OthersWait
  <2>4. /\ calls'[p].at = "walk" /\ calls'[p].library = installed
        /\ calls'[p].library = installed
    BY <1>0, <2>1 DEF CallType
  <2> QED
    BY <1>0, <1>2, <2>1, <2>3, <2>4
<1>4. CASE BeginFinalizing(p) /\ ~Return(p, "failed")
  <2>1. /\ calls' = [calls EXCEPT ![p].at = "collect", ![p].commit = prepHead]
        /\ prepTold' = prepTold /\ Unpublished
    BY <1>4 DEF BeginFinalizing
  <2>2. [[calls[p] EXCEPT !.at = "collect"] EXCEPT !.commit = prepHead] \in CallType
    BY <1>0, <1>00 DEF CallType
  <2>3. calls' \in [Preparers -> CallType] /\ OthersWait(p)
    BY <1>0, <2>1, <2>2 DEF OthersWait
  <2>4. /\ calls'[p].at = "collect" /\ calls'[p].commit = prepHead
        /\ calls'[p].library = calls[p].library
    BY <1>0, <2>1 DEF CallType
  <2> QED
    BY <1>0, <1>2, <2>1, <2>3, <2>4
<1>5. CASE CollectEntries(p) /\ ~Return(p, "failed")
  <2>1. /\ calls' = [calls EXCEPT ![p].at = "publish", ![p].library = installed]
        /\ prepTold' = prepTold /\ Unpublished
    BY <1>5 DEF CollectEntries
  <2>2. [[calls[p] EXCEPT !.at = "publish"] EXCEPT !.library = installed] \in CallType
    BY <1>0, <1>00 DEF CallType
  <2>3. calls' \in [Preparers -> CallType] /\ OthersWait(p)
    BY <1>0, <2>1, <2>2 DEF OthersWait
  <2>4. /\ calls'[p].at = "publish" /\ calls'[p].library = installed
        /\ calls'[p].library = installed
    BY <1>0, <2>1 DEF CallType
  <2> QED
    BY <1>0, <1>2, <2>1, <2>3, <2>4
<1>6. CASE BeginAudit(p) /\ ~Return(p, "failed")
  <2>1. /\ calls' = [calls EXCEPT ![p].at = "rederive", ![p].runtime = installed]
        /\ prepTold' = prepTold /\ Unpublished
    BY <1>6 DEF BeginAudit
  <2>2. [[calls[p] EXCEPT !.at = "rederive"] EXCEPT !.runtime = installed] \in CallType
    BY <1>0, <1>00 DEF CallType
  <2>3. calls' \in [Preparers -> CallType] /\ OthersWait(p)
    BY <1>0, <2>1, <2>2 DEF OthersWait
  <2>4. /\ calls'[p].at = "rederive" /\ calls'[p].runtime = installed
        /\ calls'[p].library = calls[p].library
    BY <1>0, <2>1 DEF CallType
  <2>5. calls[p].library \in {1, 2} /\ stage = 3
    BY <1>0, <1>6 DEF BeginAudit, CallHolds
  <2> QED
    BY <1>0, <1>2, <2>1, <2>3, <2>4, <2>5
<1> QED
  BY <1>1, <1>3, <1>4, <1>5, <1>6

\* The walk over the images.
LEMMA WalkingSteps ==
  ASSUME PrepInv, NEW p \in Preparers,
         ReuseEntry(p) \/ StopWalk(p) \/ PlaceImage(p) \/ RecordImage(p)
  PROVE  PrepInv'
<1> USE DEF At, Resampling, Verified, Auditing, Audited, Attested, Receipted, Published,
            PrepSteps
<1>0. /\ CallHolds(p) /\ FilesHold /\ PrepFits
      /\ calls \in [Preparers -> CallType] /\ calls[p] \in CallType
  BY HoldsNow
<1>1. /\ calls[p].image \in 1..(NImages + 1) /\ calls[p].made \in BOOLEAN
      /\ calls[p].library \in 0..2
  BY <1>0 DEF CallType
\* One image further.
<1>2. ASSUME NEW made \in BOOLEAN, NextImage(p, made), calls[p].image <= NImages
      PROVE  /\ calls' \in [Preparers -> CallType] /\ prepTold' = prepTold /\ OthersWait(p)
             /\ calls'[p].at = "walk" /\ calls'[p].library = calls[p].library
  <2>1. /\ calls' = [calls EXCEPT ![p].at = "walk", ![p].image = @ + 1, ![p].made = made]
        /\ prepTold' = prepTold
    BY <1>2 DEF NextImage
  <2>2. calls[p].image + 1 \in 1..(NImages + 1)
    BY <1>1, <1>2, PrepAssumption
  <2>3. [[[calls[p] EXCEPT !.at = "walk"] EXCEPT !.image = @ + 1] EXCEPT !.made = made]
          \in CallType
    BY <1>0, <1>2, <2>2 DEF CallType
  <2>4. calls' \in [Preparers -> CallType] /\ OthersWait(p)
    BY <1>0, <2>1, <2>3 DEF OthersWait
  <2>5. calls'[p].at = "walk" /\ calls'[p].library = calls[p].library
    BY <1>0, <2>1 DEF CallType
  <2> QED
    BY <2>1, <2>4, <2>5
<1>3. CASE ReuseEntry(p)
  <2>1. /\ Unpublished /\ calls[p].at = "walk" /\ calls[p].image <= NImages
        /\ NextImage(p, calls[p].made) \/ Return(p, "failed")
    BY <1>3 DEF ReuseEntry
  <2>2. CASE NextImage(p, calls[p].made)
    <3>1. /\ calls' \in [Preparers -> CallType] /\ prepTold' = prepTold /\ OthersWait(p)
          /\ calls'[p].at = "walk" /\ calls'[p].library = calls[p].library
      BY <1>1, <1>2, <2>1, <2>2
    <3>2. CallHolds(p)'
      BY <1>0, <2>1, <3>1 DEF CallHolds, Unpublished, set500
    <3> QED
      BY <2>1, <3>1, <3>2, MoveQuietly
  <2> QED
    BY <2>1, <2>2, FailQuietly
<1>4. CASE StopWalk(p)
  <2>1. /\ Unpublished /\ prepTold' = prepTold
        /\ calls' = [calls EXCEPT ![p] = [Idle EXCEPT !.at = "after"]]
    BY <1>4 DEF StopWalk
  <2>2. [Idle EXCEPT !.at = "after"] \in CallType /\ [Idle EXCEPT !.at = "after"].at = "after"
    BY IdleIsACall DEF CallType
  <2>3. calls' \in [Preparers -> CallType] /\ OthersWait(p) /\ calls'[p].at = "after"
    BY <1>0, <2>1, <2>2 DEF OthersWait
  <2>4. CallHolds(p)'
    BY <1>0, <2>1, <2>3 DEF CallHolds, Unpublished, set500
  <2> QED
    BY <2>1, <2>3, <2>4, MoveQuietly
<1>5. CASE PlaceImage(p)
  <2> DEFINE o == <<calls[p].image, calls[p].library>>
  <2>1. /\ calls[p].at = "walk" /\ calls[p].image <= NImages
        /\ UNCHANGED <<installed, spoiled, entryOf, stage, verifiers, prepReceipt,
                       prepMarker, prepHead>>
        /\ \/ Return(p, "failed") /\ UNCHANGED blobs
           \/ Proceed(p, "entry") /\ blobs' = blobs \cup {o}
    BY <1>5 DEF PlaceImage, machine, set500, tree500
  <2>2. o \in Promised \X {1, 2}
    BY <1>0, <1>1, <2>1, PrepAssumption DEF CallHolds, Promised
  <2>3. FilesGrow /\ FilesHold'
    BY <1>0, <2>1 DEF FilesGrow, FilesHold, MadeBy
  <2>4. CASE Return(p, "failed") /\ UNCHANGED blobs
    <3>1. /\ calls' \in [Preparers -> CallType] /\ prepTold' \in [Preparers -> PrepAnswers]
          /\ OthersWait(p) /\ CallHolds(p)'
      BY <2>4, ReturnEffect DEF PrepAnswers
    <3>2. PrepFits'
      BY <1>0, <2>1, <2>4, <3>1 DEF PrepFits, PrepAnswers
    <3> QED
      BY <2>3, <3>1, <3>2, StepOfPreparer
  <2>5. CASE Proceed(p, "entry") /\ blobs' = blobs \cup {o}
    <3>1. /\ calls' \in [Preparers -> CallType] /\ prepTold' = prepTold
          /\ calls'[p] = [calls[p] EXCEPT !.at = "entry"]
          /\ OthersWait(p)
      BY <1>0, <2>5, ProceedEffect
    <3>2. /\ calls'[p].at = "entry" /\ calls'[p].library = calls[p].library
          /\ calls'[p].image = calls[p].image
      BY <1>0, <3>1 DEF CallType
    <3>3. PrepFits'
      BY <1>0, <2>1, <2>2, <2>5, <3>1 DEF PrepFits
    <3>4. CallHolds(p)'
      BY <1>0, <2>1, <2>5, <3>1, <3>2 DEF CallHolds
    <3> QED
      BY <2>3, <3>1, <3>3, <3>4, StepOfPreparer
  <2> QED
    BY <2>1, <2>4, <2>5
<1>6. CASE RecordImage(p)
  <2> DEFINE i == calls[p].image
             v == calls[p].library
  <2>1. /\ calls[p].at = "entry"
        /\ UNCHANGED <<installed, blobs, spoiled, stage, verifiers, prepReceipt,
                       prepMarker, prepHead>>
        /\ \/ Return(p, "failed") /\ UNCHANGED entryOf
           \/ /\ NextImage(p, TRUE) /\ entryOf[i] \in {0, v}
              /\ entryOf' = [entryOf EXCEPT ![i] = v]
    BY <1>6 DEF RecordImage, machine, set500, tree500
  <2>2. i \in Promised /\ v \in {1, 2} /\ <<i, v>> \in blobs /\ i <= NImages
    BY <1>0, <1>1, <2>1, PrepAssumption DEF CallHolds, Promised
  <2>3. CASE Return(p, "failed") /\ UNCHANGED entryOf
    <3>1. /\ calls' \in [Preparers -> CallType] /\ prepTold' \in [Preparers -> PrepAnswers]
          /\ OthersWait(p) /\ CallHolds(p)'
      BY <2>3, ReturnEffect DEF PrepAnswers
    <3>2. PrepFits'
      BY <1>0, <2>1, <2>3, <3>1 DEF PrepFits, PrepAnswers
    <3>3. FilesGrow /\ FilesHold'
      BY <1>0, <2>1, <2>3 DEF FilesGrow, FilesHold, MadeBy
    <3> QED
      BY <3>1, <3>2, <3>3, StepOfPreparer
  <2>4. CASE /\ NextImage(p, TRUE) /\ entryOf[i] \in {0, v}
             /\ entryOf' = [entryOf EXCEPT ![i] = v]
    <3>1. /\ calls' \in [Preparers -> CallType] /\ prepTold' = prepTold /\ OthersWait(p)
          /\ calls'[p].at = "walk" /\ calls'[p].library = calls[p].library
      BY <1>2, <2>2, <2>4
    <3>2. /\ entryOf' \in [Promised -> 0..2]
          /\ entryOf'[i] = v /\ \A k \in Promised \ {i} : entryOf'[k] = entryOf[k]
      BY <1>0, <1>1, <2>2, <2>4 DEF PrepFits
    <3>3. PrepFits'
      BY <1>0, <2>1, <3>1, <3>2 DEF PrepFits
    <3>4. FilesGrow
      BY <2>1, <2>2, <2>4, <3>2 DEF FilesGrow
    <3>5. \A u \in {1, 2} : MadeBy(u) => MadeBy(u)'
      BY <3>4, MadeByStays
    <3>6. FilesHold'
      BY <1>0, <2>1, <2>2, <3>2, <3>5 DEF FilesHold
    <3>7. CallHolds(p)'
      BY <1>0, <2>1, <3>1 DEF CallHolds
    <3> QED
      BY <3>1, <3>3, <3>4, <3>6, <3>7, StepOfPreparer
  <2> QED
    BY <2>1, <2>3, <2>4
<1> QED
  BY <1>3, <1>4, <1>5, <1>6

\* A call that writes a file of the set: it goes on with its facts and one more,
\* or it fails.
LEMMA WriterGoesOn ==
  ASSUME PrepInv, FilesGrow, FilesHold', NEW p \in Preparers,
         NEW step \in PrepSteps, NEW from \in PrepSteps, calls[p].at = from,
         Proceed(p, step) \/ Return(p, "failed"),
         UNCHANGED <<installed, blobs, spoiled, entryOf, prepHead>>, stage' \in 0..3,
         from \in Auditing, step \in Audited,
         step \in Audited => from \in Audited,
         step \in Attested => <<calls[p].commit, calls[p].runtime>> \in verifiers',
         step \in Receipted => prepReceipt' # NoReceipt,
         step \in Published => prepMarker' # NoReceipt
  PROVE  PrepInv'
<1> USE DEF Resampling, Verified, Auditing, Audited, Attested, Receipted, Published
<1>0. /\ CallHolds(p) /\ PrepFits
      /\ calls \in [Preparers -> CallType] /\ calls[p] \in CallType
  BY HoldsNow
<1>1. CASE Return(p, "failed")
  <2>1. /\ calls' \in [Preparers -> CallType] /\ prepTold' \in [Preparers -> PrepAnswers]
        /\ OthersWait(p) /\ CallHolds(p)'
    BY <1>1, ReturnEffect DEF PrepAnswers
  <2>2. PrepFits'
    BY <1>0, <2>1 DEF PrepFits, PrepAnswers
  <2> QED
    BY <2>1, <2>2, StepOfPreparer
<1>2. CASE Proceed(p, step)
  <2>1. /\ calls' \in [Preparers -> CallType] /\ prepTold' = prepTold
        /\ calls'[p] = [calls[p] EXCEPT !.at = step]
        /\ OthersWait(p)
    BY <1>0, <1>2, ProceedEffect
  <2>2. /\ calls'[p].at = step /\ calls'[p].library = calls[p].library
        /\ calls'[p].runtime = calls[p].runtime /\ calls'[p].commit = calls[p].commit
    BY <1>0, <2>1 DEF CallType
  <2>3. PrepFits'
    BY <1>0, <2>1 DEF PrepFits
  <2>4. MadeBy(calls[p].library)'
    BY <1>0, <2>2 DEF CallHolds, MadeBy
  <2>5. CallHolds(p)'
    BY <1>0, <2>1, <2>2, <2>4 DEF CallHolds, FilesGrow
  <2> QED
    BY <2>1, <2>3, <2>5, StepOfPreparer
<1> QED
  BY <1>1, <1>2

LEMMA WritingSteps ==
  ASSUME PrepInv, NEW p \in Preparers,
         EndAudit(p) \/ PublishReceipt(p) \/ PublishMarker(p)
  PROVE  PrepInv'
<1> USE DEF At, Resampling, Verified, Auditing, Audited, Attested, Receipted, Published,
            PrepSteps
<1>0. CallHolds(p) /\ PrepFits /\ FilesHold /\ calls[p] \in CallType
  BY HoldsNow
<1>1. UNCHANGED <<installed, blobs, spoiled, entryOf, prepHead, stage>> /\ stage' \in 0..3
  BY <1>0 DEF EndAudit, PublishReceipt, PublishMarker, machine, images, tree500, PrepFits
<1>2. CASE EndAudit(p)
  <2>1. /\ calls[p].at = "papers" /\ UNCHANGED <<prepReceipt, prepMarker>>
        /\ verifiers \subseteq verifiers'
        /\ \/ Proceed(p, "receipt") /\ <<calls[p].commit, calls[p].runtime>> \in verifiers'
           \/ Return(p, "failed") /\ verifiers' = verifiers
    BY <1>2 DEF EndAudit
  <2>2. FilesGrow /\ FilesHold'
    BY <1>0, <1>1, <2>1 DEF FilesGrow, FilesHold, MadeBy
  <2>3. CASE Proceed(p, "receipt") /\ <<calls[p].commit, calls[p].runtime>> \in verifiers'
    BY <1>1, <2>1, <2>2, <2>3, WriterGoesOn
  <2>4. CASE Return(p, "failed")
    BY <1>1, <2>1, <2>2, <2>4, WriterGoesOn
  <2> QED
    BY <2>1, <2>3, <2>4
<1>3. CASE PublishReceipt(p)
  <2> DEFINE mine == ReceiptOf(p, calls[p].commit, calls[p].runtime)
  <2>1. /\ calls[p].at = "receipt" /\ UNCHANGED <<verifiers, prepMarker>>
        /\ prepReceipt' = IF prepReceipt = NoReceipt THEN mine ELSE prepReceipt
        /\ Proceed(p, "marker") \/ Return(p, "failed")
    BY <1>3 DEF PublishReceipt
  <2>2. /\ calls[p].library \in {1, 2} /\ stage = 3 /\ calls[p].runtime \in {1, 2}
        /\ MadeBy(calls[p].library) /\ <<calls[p].commit, calls[p].runtime>> \in verifiers
    BY <1>0, <2>1 DEF CallHolds
  <2>3. mine # NoReceipt /\ mine.by = <<calls[p].commit, calls[p].runtime>>
    BY <2>2 DEF ReceiptOf, NoReceipt
  <2> HIDE DEF mine
  <2>4. prepReceipt' # NoReceipt
    BY <2>1, <2>3
  <2>5. FilesGrow
    BY <1>1, <2>1 DEF FilesGrow
  <2>6. \A v \in {1, 2} : MadeBy(v) => MadeBy(v)'
    BY <2>5, MadeByStays
  <2>7. FilesHold'
    <3>1. prepReceipt'.by \in verifiers
      BY <1>0, <2>1, <2>2, <2>3 DEF FilesHold
    <3>2. \E v \in {1, 2} : MadeBy(v)'
      BY <2>2, <2>6
    <3>3. prepMarker' # NoReceipt => prepMarker' = prepReceipt'
      BY <1>0, <2>1 DEF FilesHold
    <3> QED
      BY <1>0, <1>1, <2>1, <2>2, <3>1, <3>2, <3>3 DEF FilesHold
  <2> QED
    BY <1>1, <2>1, <2>2, <2>4, <2>5, <2>7, WriterGoesOn
<1>4. CASE PublishMarker(p)
  <2>1. /\ calls[p].at = "marker" /\ UNCHANGED <<verifiers, prepReceipt>>
        /\ prepMarker' = IF prepMarker = NoReceipt THEN prepReceipt ELSE prepMarker
        /\ Proceed(p, "inspect") \/ Return(p, "failed")
    BY <1>4 DEF PublishMarker
  <2>2. prepReceipt # NoReceipt /\ <<calls[p].commit, calls[p].runtime>> \in verifiers
    BY <1>0, <2>1 DEF CallHolds
  <2>3. prepMarker' # NoReceipt /\ prepMarker' = prepReceipt
    BY <1>0, <2>1, <2>2 DEF FilesHold
  <2>4. FilesGrow /\ FilesHold'
    BY <1>0, <1>1, <2>1, <2>3 DEF FilesGrow, FilesHold, MadeBy
  <2> QED
    BY <1>1, <2>1, <2>2, <2>3, <2>4, WriterGoesOn
<1> QED
  BY <1>2, <1>3, <1>4

LEMMA SetFileStep ==
  ASSUME PrepInv, NEW p \in Preparers, PublishSetFile(p) PROVE PrepInv'
<1>1. /\ PrepFits /\ FilesHold /\ stage < 3 /\ stage' = stage + 1
      /\ UNCHANGED <<calls, prepTold, installed, blobs, spoiled, entryOf, verifiers,
                     prepReceipt, prepMarker, prepHead>>
  BY DEF PrepInv, PublishSetFile, procs, machine, images, tree500
<1>2. stage \in 0..3 /\ stage # 3
  BY <1>1 DEF PrepFits
<1>3. PrepFits'
  BY <1>1, <1>2 DEF PrepFits
<1>4. FilesGrow /\ FilesHold'
  BY <1>1, <1>2 DEF FilesGrow, FilesHold, MadeBy
<1>5. OthersWait(p) /\ CallHolds(p)'
  BY <1>1, <1>4, CallStillHolds DEF OthersWait
<1> QED
  BY <1>3, <1>4, <1>5, StepOfPreparer

\* The copy of the receipt, which no call reads but to compare it.
LEMMA CopyingSteps ==
  ASSUME PrepInv, NEW p \in Preparers, OpenCopy(p) \/ WriteCopy(p) PROVE PrepInv'
<1> USE DEF At, Resampling, Verified, Auditing, Audited, Attested, Receipted, Published,
            PrepSteps
<1>0. /\ CallHolds(p) /\ PrepFits /\ FilesHold
      /\ calls \in [Preparers -> CallType] /\ calls[p] \in CallType
  BY HoldsNow
<1>1. UNCHANGED <<installed, blobs, spoiled, entryOf, stage, verifiers, prepReceipt,
                  prepMarker, prepHead>>
  BY DEF OpenCopy, WriteCopy, machine, images, set500
<1>2. calls[p].at \in {"copy", "write"} /\ (Proceed(p, "write") \/ Return(p, "ready"))
  BY DEF OpenCopy, WriteCopy
<1>3. FilesGrow /\ FilesHold'
  BY <1>0, <1>1 DEF FilesGrow, FilesHold, MadeBy
<1>4. prepMarker # NoReceipt /\ prepMarker' # NoReceipt
  BY <1>0, <1>1, <1>2 DEF CallHolds
<1>5. CASE Return(p, "ready")
  <2>1. /\ calls' \in [Preparers -> CallType] /\ prepTold' \in [Preparers -> PrepAnswers]
        /\ OthersWait(p) /\ CallHolds(p)'
    BY <1>4, <1>5, ReturnEffect DEF PrepAnswers
  <2>2. PrepFits'
    BY <1>0, <1>1, <2>1 DEF PrepFits, PrepAnswers
  <2> QED
    BY <1>3, <2>1, <2>2, StepOfPreparer
<1>6. CASE Proceed(p, "write")
  <2>1. /\ calls' \in [Preparers -> CallType] /\ prepTold' = prepTold
        /\ calls'[p] = [calls[p] EXCEPT !.at = "write"]
        /\ OthersWait(p)
    BY <1>0, <1>6, ProceedEffect
  <2>2. /\ calls'[p].at = "write" /\ calls'[p].library = calls[p].library
        /\ calls'[p].runtime = calls[p].runtime /\ calls'[p].commit = calls[p].commit
    BY <1>0, <2>1 DEF CallType
  <2>3. PrepFits'
    BY <1>0, <1>1, <2>1 DEF PrepFits
  <2>4. MadeBy(calls[p].library)'
    BY <1>0, <1>1, <1>2, <2>2 DEF CallHolds, MadeBy
  <2>5. CallHolds(p)'
    BY <1>0, <1>1, <1>2, <2>1, <2>2, <2>4 DEF CallHolds
  <2> QED
    BY <1>3, <2>1, <2>3, <2>5, StepOfPreparer
<1> QED
  BY <1>2, <1>5, <1>6

-----------------------------------------------------------------------------
(* What happens around the calls.                                          *)

LEMMA AroundSteps ==
  ASSUME PrepInv, ReplacePillow \/ CommitTree \/ SpoilImage \/ UNCHANGED prepVars
  PROVE  PrepInv'
<1>1. PrepFits /\ FilesHold
  BY DEF PrepInv
<1>2. UNCHANGED <<calls, prepTold, blobs, entryOf, stage, verifiers, prepReceipt, prepMarker>>
  BY DEF ReplacePillow, CommitTree, SpoilImage, prepVars, images, set500, procs
<1>3. FilesGrow /\ FilesHold'
  BY <1>1, <1>2 DEF FilesGrow, FilesHold, MadeBy
<1>4. installed' \in {1, 2} /\ prepHead' \in Nat /\ spoiled' \subseteq blobs
  BY <1>1 DEF ReplacePillow, CommitTree, SpoilImage, prepVars, images, tree500, machine,
     PrepFits
<1>5. PrepFits'
  BY <1>1, <1>2, <1>4 DEF PrepFits
<1>6. \A p \in Preparers : CallHolds(p)'
  BY <1>2, <1>3, CallStillHolds
<1> QED
  BY <1>3, <1>5, <1>6 DEF PrepInv

LEMMA DyingStep ==
  ASSUME PrepInv, NEW p \in Preparers, PreparerDies(p) PROVE PrepInv'
<1>1. PrepFits /\ FilesHold
  BY DEF PrepInv
<1>2. /\ UNCHANGED <<installed, blobs, spoiled, entryOf, stage, verifiers, prepReceipt,
                     prepMarker, prepHead>>
      /\ Return(p, "failed")
  BY DEF PreparerDies, machine, images, set500, tree500
<1>3. /\ calls' \in [Preparers -> CallType] /\ prepTold' \in [Preparers -> PrepAnswers]
      /\ OthersWait(p) /\ CallHolds(p)'
  BY <1>2, ReturnEffect DEF PrepAnswers
<1>4. PrepFits' /\ FilesGrow /\ FilesHold'
  BY <1>1, <1>2, <1>3 DEF PrepFits, PrepAnswers, FilesGrow, FilesHold, MadeBy
<1> QED
  BY <1>3, <1>4, StepOfPreparer

LEMMA PrepInitially == PrepInit => PrepInv
<1> SUFFICES ASSUME PrepInit PROVE PrepInv
  OBVIOUS
<1>1. PrepFits
  BY IdleIsACall DEF PrepInit, PrepFits
<1>2. FilesHold
  BY DEF PrepInit, FilesHold
<1>3. ASSUME NEW p \in Preparers PROVE CallHolds(p)
  <2>1. calls[p].at = "idle" /\ prepTold[p] = "none"
    BY DEF PrepInit, Idle
  <2> QED
    BY <2>1 DEF CallHolds, Resampling, Verified, Auditing, Audited, Attested, Receipted,
       Published
<1> QED
  BY <1>1, <1>2, <1>3 DEF PrepInv

LEMMA PrepStep == PrepInv /\ [PrepNext]_prepVars => PrepInv'
<1> SUFFICES ASSUME PrepInv, [PrepNext]_prepVars PROVE PrepInv'
  OBVIOUS
<1>1. ASSUME NEW p \in Preparers, Prepare(p) PROVE PrepInv'
  BY <1>1, LookingSteps, EndingSteps, TakingSteps, WalkingSteps, WritingSteps, SetFileStep,
     CopyingSteps
  DEF Prepare
<1>2. ASSUME NEW p \in Preparers, PreparerDies(p) PROVE PrepInv'
  BY <1>2, DyingStep
<1> QED
  BY <1>1, <1>2, AroundSteps DEF PrepNext

LEMMA PrepInvariant == PrepSpec => []PrepInv
BY PrepInitially, PrepStep, PTL DEF PrepSpec

\* What the invariant is for: the three properties of a finished set.
LEMMA FinishedSets ==
  ASSUME PrepInv PROVE PrepTypeOK /\ OneResampler /\ MarkerCitesItsChain /\ FinishedIsReady
<1>1. PrepFits /\ FilesHold /\ \A p \in Preparers : CallHolds(p)
  BY DEF PrepInv
<1>2. PrepTypeOK
  BY <1>1 DEF PrepFits, PrepTypeOK, CallType
<1>3. OneResampler /\ MarkerCitesItsChain
  BY <1>1 DEF FilesHold, OneResampler, MarkerCitesItsChain, MadeBy
<1>4. ASSUME prepMarker # NoReceipt, spoiled = {}
      PROVE  \E v \in {1, 2} : PrepStatus(v) = "PREPARATION_READY"
  <2>1. /\ prepReceipt # NoReceipt /\ prepMarker = prepReceipt /\ stage = 3
        /\ prepReceipt.by \in verifiers
    BY <1>1, <1>4 DEF FilesHold
  <2>2. PICK v \in {1, 2} : MadeBy(v)
    BY <1>1, <2>1 DEF FilesHold
  <2>3. \A i \in Promised : entryOf[i] # 0 /\ <<i, entryOf[i]>> \in blobs
    BY <1>1, <2>2 DEF FilesHold, MadeBy
  <2>4. Rederives(v)
    BY <1>4, <2>2, <2>3 DEF Rederives, AllIntact, AllRecorded, IntactImage, MadeBy
  <2>5. PrepStatus(v) = "PREPARATION_READY"
    BY <2>1, <2>4, <1>4 DEF PrepStatus
  <2> QED
    BY <2>5
<1>5. \A p \in Preparers : prepTold[p] = "ready" => prepMarker # NoReceipt
  BY <1>1 DEF CallHolds
<1>6. FinishedIsReady
  BY <1>4, <1>5 DEF FinishedIsReady
<1> QED
  BY <1>2, <1>3, <1>6

\* A set of images that has a marker was made by one resampler, though each
\* process took the one that was installed when it needed it; the marker cites
\* what is on disk; and a set once finished stays ready until an image is damaged.
THEOREM PreparationsEndSound ==
  PrepSpec => [](PrepTypeOK /\ OneResampler /\ MarkerCitesItsChain /\ FinishedIsReady)
BY PrepInvariant, FinishedSets, PTL
=============================================================================
