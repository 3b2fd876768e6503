---------------------- MODULE ResearchFinalizationProofs ----------------------
(***************************************************************************)
(* Proofs about ResearchFinalization for any finalizers, contents, commits *)
(* and changes of what they read.  Two inductive invariants: BaseInv holds *)
(* however finalizers meet, and ChainInv until two of them stand over a    *)
(* marker that is still to be upgraded (beside).                           *)
(***************************************************************************)
EXTENDS ResearchFinalization, TLAPS

-----------------------------------------------------------------------------
(* The first inductive invariant: what a finalizer holds, keeps and reads,  *)
(* whatever the others do.                                                  *)

PastAudit == Steps \ {"idle", "audit"}
PastValidate == PastAudit \ {"validate"}
AfterBuild == PastValidate \ {"build"}
AfterClaim == AfterBuild \ {"claimSet"}
AfterFill == AfterClaim \ {"fillSet"}
AfterCompletion == AfterFill \ {"completion"}
AfterMarker == {"inspect", "copy", "copyBytes"}
AfterCite == {"marker", "archiveMarker", "replaceMarker"} \cup AfterMarker

\* What a finalizer holds, and what it has made sure of on the way.
Held(w) ==
  /\ pc[w] \in PastAudit => audited[w] \in AuditsOf
  /\ pc[w] \in PastValidate => validated[w] \in CountsOf
  /\ pc[w] \in AfterBuild =>
       /\ draft[w] \in Receipts /\ draft[w].schema = 2
       /\ draft[w].totals = audited[w] /\ draft[w].counts = validated[w]
  /\ pc[w] \in AfterClaim => resultSet = draft[w].set
  /\ pc[w] \in AfterFill => rows
  /\ pc[w] \in AfterCompletion => completion = audited[w]
  /\ pc[w] \in AfterCite =>
       /\ cited[w] \in Markers /\ cited[w].schema = 3 /\ cited[w].commit = commit[w]
       /\ SameClaims(cited[w], draft[w]) /\ SameClaims(cited[w].receipt, draft[w])

\* Whoever is about to replace an earlier document has kept it, unless it has
\* been replaced meanwhile.
Keeps(w) ==
  /\ pc[w] \in {"archiveReceipt", "replaceReceipt", "readBack"} => receipt # Absent
  /\ pc[w] \in {"archiveMarker", "replaceMarker"} => marker # Absent
  /\ pc[w] = "replaceReceipt" => receipt.schema = 2 \/ receipt \in history
  /\ pc[w] = "replaceMarker" => marker.schema = 3 \/ marker \in history

IsTrue(r) == r.totals = AuditOf(r.set) /\ r.totals = Totals[r.counts]

\* What it has read is of one content, or of two with one change between them,
\* and then the inspection has found that the totals are the same.
Reads(w) ==
  /\ changes = 0 =>
       /\ pc[w] \in PastAudit => audited[w] = AuditOf(raw)
       /\ pc[w] \in PastValidate => validated[w] = Counts[raw]
       /\ pc[w] \in AfterBuild => draft[w].set = raw
  /\ changes <= 1 /\ pc[w] \in PastValidate =>
       \/ Totals[validated[w]] = audited[w]
       \/ changes = 1 /\ raw \in Evidence /\ validated[w] = Counts[raw]
  /\ changes <= 1 /\ pc[w] \in {"copy", "copyBytes"} => IsTrue(cited[w].receipt)

\* Unless something is changed everything stored is about the one content.
IsOfTheRun(d) == d.set = raw /\ d.totals = AuditOf(raw) /\ d.counts = Counts[raw]

DiskIsOfTheRun ==
  changes = 0 =>
    /\ bundle /\ raw \in Evidence
    /\ resultSet \in {Absent, raw} /\ completion \in {Absent, AuditOf(raw)}
    /\ receipt # Absent => IsOfTheRun(receipt)
    /\ marker # Absent => IsOfTheRun(marker)

CopiesAreTrue ==
  changes <= 1 => (Whole(copy) => IsTrue(copy)) /\ (Whole(committed) => IsTrue(committed))

BaseInv ==
  /\ TypeOK
  /\ \A w \in Finalizers : Held(w) /\ Keeps(w) /\ Reads(w)
  /\ DiskIsOfTheRun
  /\ CopiesAreTrue

-----------------------------------------------------------------------------
(* What the control operators do to one finalizer and leave alone in others. *)

Answers == {"nothing", "died", "error", "ready"}

MemoryOK ==
  /\ pc \in [Finalizers -> Steps]
  /\ commit \in [Finalizers -> 0 .. MaxHead]
  /\ audited \in [Finalizers -> AuditsOf \cup {Absent}]
  /\ validated \in [Finalizers -> CountsOf \cup {Absent}]
  /\ draft \in [Finalizers -> Receipts \cup {Absent}]
  /\ cited \in [Finalizers -> Markers \cup {Absent}]
  /\ told \in [Finalizers -> Answers]

Others(w) ==
  \A v \in Finalizers \ {w} :
    /\ pc'[v] = pc[v] /\ commit'[v] = commit[v] /\ audited'[v] = audited[v]
    /\ validated'[v] = validated[v] /\ draft'[v] = draft[v] /\ cited'[v] = cited[v]
    /\ told'[v] = told[v]

Ended(w) == pc'[w] = "idle"

Moved(w, step) ==
  /\ pc'[w] = step /\ commit' = commit /\ audited' = audited /\ validated' = validated
  /\ draft' = draft /\ cited' = cited /\ told' = told

LEMMA EndEffect ==
  ASSUME TypeOK, NEW w \in Finalizers, NEW what \in Answers, End(w, what)
  PROVE  MemoryOK' /\ Others(w) /\ Ended(w) /\ told'[w] = what
<1>1. 0 \in 0 .. MaxHead
  BY HeadAssumption
<1> QED
  BY <1>1 DEF TypeOK, MemoryOK, Others, Ended, End, Steps, Answers

LEMMA GotoEffect ==
  ASSUME TypeOK, NEW w \in Finalizers, NEW step \in Steps, Goto(w, step), UNCHANGED memory
  PROVE  MemoryOK' /\ Others(w) /\ Moved(w, step)
BY DEF TypeOK, MemoryOK, Others, Moved, Goto, memory, Answers

LEMMA RequireEffect ==
  ASSUME TypeOK, NEW w \in Finalizers, NEW c, NEW step \in Steps, Require(w, c, step)
  PROVE  /\ MemoryOK' /\ Others(w)
         /\ (c /\ Moved(w, step)) \/ (~c /\ Ended(w) /\ told'[w] = "error")
<1>1. CASE c
  BY <1>1, GotoEffect DEF Require
<1>2. CASE ~c
  BY <1>2, EndEffect DEF Require, Answers
<1> QED
  BY <1>1, <1>2

-----------------------------------------------------------------------------
(* Every step keeps the first invariant.                                   *)

\* What no step does to the disk.
Lasting ==
  /\ resultSet # Absent => resultSet' = resultSet
  /\ rows => rows'
  /\ completion # Absent => completion' = completion
  /\ history \subseteq history'
  /\ receipt # Absent => receipt' = receipt \/ (receipt' # Absent /\ receipt'.schema = 2)
  /\ marker # Absent => marker' = marker \/ (marker' # Absent /\ marker'.schema = 3)

Settled(w) == Held(w) /\ Keeps(w) /\ Reads(w)

LEMMA EndedSettles == ASSUME NEW w, pc[w] = "idle" PROVE Settled(w)
BY DEF Settled, Held, Keeps, Reads, PastAudit, PastValidate, AfterBuild, AfterClaim, AfterFill,
   AfterCompletion, AfterMarker, AfterCite

LEMMA OthersSettled ==
  ASSUME BaseInv, NEW w \in Finalizers, Others(w), Lasting, UNCHANGED input,
         NEW v \in Finalizers \ {w}
  PROVE  Settled(v)'
<1>1. Held(v) /\ Keeps(v) /\ Reads(v)
  BY DEF BaseInv
<1>2. pc'[v] = pc[v] /\ commit'[v] = commit[v] /\ audited'[v] = audited[v]
      /\ validated'[v] = validated[v] /\ draft'[v] = draft[v] /\ cited'[v] = cited[v]
  BY DEF Others
<1>3. Absent \notin Evidence /\ Absent \notin AuditsOf
  BY AbsentAssumption
<1>4. /\ pc[v] \in AfterClaim => draft[v].set \in Evidence
      /\ pc[v] \in AfterCompletion => audited[v] \in AuditsOf
  BY <1>1 DEF Held, Receipts, PastAudit, PastValidate, AfterBuild, AfterClaim, AfterFill,
     AfterCompletion
<1>5. Held(v)'
  BY <1>1, <1>2, <1>3, <1>4 DEF Held, Lasting, SameClaims
<1>6. Keeps(v)'
  BY <1>1, <1>2 DEF Keeps, Lasting
<1>7. Reads(v)'
  BY <1>1, <1>2 DEF Reads, IsTrue, AuditOf, input
<1> QED
  BY <1>5, <1>6, <1>7 DEF Settled

\* A step of one finalizer.
LEMMA BaseAssembles ==
  ASSUME BaseInv, NEW w \in Finalizers, UNCHANGED input, TypeOK', Others(w), Lasting,
         Settled(w)', DiskIsOfTheRun', CopiesAreTrue'
  PROVE  BaseInv'
BY OthersSettled DEF BaseInv, Settled

\* A step that writes no file.
LEMMA QuietBase ==
  ASSUME BaseInv, NEW w \in Finalizers, UNCHANGED <<input, chain, tree>>, beside' \in BOOLEAN,
         MemoryOK', Others(w), Settled(w)'
  PROVE  BaseInv'
<1>1. TypeOK' /\ Lasting /\ UNCHANGED input
  BY DEF BaseInv, TypeOK, MemoryOK, Lasting, input, chain, tree, Answers
<1>2. DiskIsOfTheRun' /\ CopiesAreTrue'
  BY DEF BaseInv, DiskIsOfTheRun, CopiesAreTrue, IsOfTheRun, IsTrue, AuditOf, Whole, input, chain,
     tree
<1> QED
  BY <1>1, <1>2, BaseAssembles

LEMMA EndedBase ==
  ASSUME BaseInv, NEW w \in Finalizers, NEW what \in Answers, End(w, what),
         UNCHANGED <<input, chain, tree, beside>>
  PROVE  BaseInv'
<1>1. MemoryOK' /\ Others(w) /\ Ended(w)
  BY EndEffect DEF BaseInv
<1>2. Settled(w)'
  BY <1>1 DEF Ended, Settled, Held, Keeps, Reads, PastAudit, PastValidate, AfterBuild, AfterClaim,
     AfterFill, AfterCompletion, AfterMarker, AfterCite
<1> QED
  BY <1>1, <1>2, QuietBase DEF BaseInv, TypeOK

LEMMA BaseInit == Init => BaseInv
<1> SUFFICES ASSUME Init PROVE BaseInv
  OBVIOUS
<1>1. /\ raw \in Evidence /\ AuditOf(raw) \in AuditsOf /\ Counts[raw] \in CountsOf
      /\ 0 \in 0 .. MaxHead /\ 0 \in 0 .. MaxChanges
  BY HeadAssumption, ChangesAssumption DEF Init, AuditsOf, CountsOf
<1>2. OldReceipt \in Receipts /\ IsOfTheRun(OldReceipt)
  BY <1>1 DEF OldReceipt, Receipt, Receipts, Authors, IsOfTheRun
<1>3. OldMarker \in Markers /\ IsOfTheRun(OldMarker)
  BY <1>1, <1>2 DEF OldMarker, Markers, IsOfTheRun
<1>4. PICK old \in Upgrade :
        /\ resultSet = IF old THEN raw ELSE Absent
        /\ rows = old
        /\ completion = IF old THEN AuditOf(raw) ELSE Absent
        /\ receipt = IF old THEN OldReceipt ELSE Absent
        /\ marker = IF old THEN OldMarker ELSE Absent
  BY DEF Init
<1>5. old \in BOOLEAN
  BY UpgradeAssumption
<1>6. TypeOK
  <2>1. receipt \in Receipts \cup {Absent} /\ marker \in Markers \cup {Absent}
        /\ completion \in AuditsOf \cup {Absent} /\ resultSet \in Evidence \cup {Absent}
        /\ rows \in BOOLEAN
    BY <1>1, <1>2, <1>3, <1>4, <1>5
  <2> QED
    BY <2>1, <1>1 DEF Init, TypeOK, Steps
<1>7. \A w \in Finalizers : Held(w) /\ Keeps(w) /\ Reads(w)
  BY EndedSettles DEF Init, Settled
<1>8. DiskIsOfTheRun
  BY <1>1, <1>2, <1>3, <1>4, <1>5 DEF Init, DiskIsOfTheRun
<1>9. CopiesAreTrue
  <2>1. IsTrue(OldReceipt)
    BY <1>2 DEF IsOfTheRun, IsTrue, AuditOf
  <2>2. copy = receipt /\ committed = copy /\ receipt \in {OldReceipt, Absent}
    BY <1>4, <1>5 DEF Init
  <2> QED
    BY <2>1, <2>2 DEF CopiesAreTrue, Whole
<1> QED
  BY <1>6, <1>7, <1>8, <1>9 DEF BaseInv

LEMMA BaseBegin == ASSUME BaseInv, NEW w \in Finalizers, Begin(w) PROVE BaseInv'
<1>1. /\ pc' = [pc EXCEPT ![w] = "audit"] /\ commit' = [commit EXCEPT ![w] = head]
      /\ UNCHANGED <<input, chain, tree, audited, validated, draft, cited, told>>
  BY DEF Begin, Goto
<1>2. MemoryOK' /\ Others(w) /\ pc'[w] = "audit" /\ beside' \in BOOLEAN
  BY <1>1 DEF BaseInv, TypeOK, MemoryOK, Others, Steps, Answers, Begin
<1>3. Settled(w)'
  BY <1>2 DEF Settled, Held, Keeps, Reads, PastAudit, PastValidate, AfterBuild, AfterClaim,
     AfterFill, AfterCompletion, AfterMarker, AfterCite
<1> QED
  BY <1>1, <1>2, <1>3, QuietBase

\* The three readings.
LEMMA BaseReads ==
  ASSUME BaseInv, NEW w \in Finalizers, Audit(w) \/ Validate(w) \/ Build(w), UNCHANGED beside
  PROVE  BaseInv'
<1>t. TypeOK /\ Held(w) /\ Reads(w) /\ beside' \in BOOLEAN
  BY DEF BaseInv, TypeOK
<1>1. CASE Audit(w) /\ raw \in Evidence /\ Goto(w, "validate")
             /\ audited' = [audited EXCEPT ![w] = AuditOf(raw)]
             /\ UNCHANGED <<commit, validated, draft, cited>>
  <2>1. AuditOf(raw) \in AuditsOf /\ UNCHANGED <<input, chain, tree>>
    BY <1>1 DEF AuditsOf, Audit
  <2>2. MemoryOK' /\ Others(w) /\ pc'[w] = "validate" /\ audited'[w] = AuditOf(raw)
    <3> HIDE DEF AuditOf
    <3> QED
      BY <1>1, <2>1, <1>t DEF Goto, TypeOK, MemoryOK, Others, Steps, Answers
  <2>3. Settled(w)'
    BY <2>1, <2>2 DEF Settled, Held, Keeps, Reads, PastAudit, PastValidate, AfterBuild,
       AfterClaim, AfterFill, AfterCompletion, AfterMarker, AfterCite, input, AuditOf
  <2> QED
    BY <2>1, <2>2, <2>3, <1>t, QuietBase
<1>2. CASE Validate(w) /\ raw \in Evidence /\ Goto(w, "build")
             /\ validated' = [validated EXCEPT ![w] = Counts[raw]]
             /\ UNCHANGED <<commit, audited, draft, cited>>
  <2>1. Counts[raw] \in CountsOf /\ UNCHANGED <<input, chain, tree>> /\ pc[w] = "validate"
    BY <1>2 DEF CountsOf, Validate
  <2>2. MemoryOK' /\ Others(w) /\ pc'[w] = "build" /\ validated'[w] = Counts[raw]
        /\ audited'[w] = audited[w]
    BY <1>2, <2>1, <1>t DEF Goto, TypeOK, MemoryOK, Others, Steps, Answers
  <2>3. changes \in Nat /\ (changes <= 1 => changes = 0 \/ changes = 1)
    BY <1>t, ChangesAssumption DEF TypeOK
  <2>4. /\ audited[w] \in AuditsOf
        /\ changes = 0 => audited[w] = AuditOf(raw)
    BY <2>1, <1>t DEF Held, Reads, PastAudit, Steps
  <2>5. Held(w)' /\ Keeps(w)'
    BY <2>1, <2>2, <2>4 DEF Held, Keeps, PastAudit, PastValidate, AfterBuild,
       AfterClaim, AfterFill, AfterCompletion, AfterMarker, AfterCite
  <2>6. Reads(w)'
    BY <1>2, <2>1, <2>2, <2>3, <2>4 DEF Reads, PastAudit, PastValidate, AfterBuild, input, AuditOf
  <2> QED
    BY <2>1, <2>2, <2>5, <2>6, <1>t, QuietBase DEF Settled
<1>3. CASE Build(w) /\ raw \in Evidence /\ Goto(w, "claimSet")
             /\ draft' = [draft EXCEPT ![w] = Receipt(raw, audited[w], validated[w], w, 2)]
             /\ UNCHANGED <<commit, audited, validated, cited>>
  <2> DEFINE mine == Receipt(raw, audited[w], validated[w], w, 2)
  <2>1. pc[w] = "build" /\ UNCHANGED <<input, chain, tree>>
    BY <1>3 DEF Build
  <2>2. audited[w] \in AuditsOf /\ validated[w] \in CountsOf
    BY <2>1, <1>t DEF Held, PastAudit, PastValidate, Steps
  <2>3. /\ mine \in Receipts /\ mine.schema = 2 /\ mine.set = raw
        /\ mine.totals = audited[w] /\ mine.counts = validated[w]
    BY <1>3, <2>2 DEF Receipt, Receipts, Authors
  <2>4. draft' = [draft EXCEPT ![w] = mine]
    BY <1>3
  <2> HIDE DEF mine
  <2>5. MemoryOK' /\ Others(w) /\ pc'[w] = "claimSet" /\ audited'[w] = audited[w]
        /\ validated'[w] = validated[w] /\ draft'[w] = mine
    BY <1>3, <2>3, <2>4, <1>t DEF Goto, TypeOK, MemoryOK, Others, Steps, Answers
  <2>6. Held(w)' /\ Keeps(w)'
    BY <2>2, <2>3, <2>5 DEF Held, Keeps, PastAudit, PastValidate, AfterBuild,
       AfterClaim, AfterFill, AfterCompletion, AfterMarker, AfterCite
  <2>7. Reads(w)'
    BY <2>1, <2>3, <2>5, <1>t DEF Reads, PastAudit, PastValidate, AfterBuild, input, AuditOf, Steps
  <2> QED
    BY <2>1, <2>5, <2>6, <2>7, <1>t, QuietBase DEF Settled
<1>4. CASE End(w, "error") /\ UNCHANGED <<input, chain, tree>>
  BY <1>4, EndedBase DEF Answers
<1> QED
  BY <1>1, <1>2, <1>3, <1>4 DEF Audit, Validate, Build

\* A finalizer that goes on past the build with what it held.
LEMMA ReadsOn ==
  ASSUME BaseInv, NEW w \in Finalizers, NEW step \in AfterBuild \ {"copy", "copyBytes"},
         pc[w] \in AfterBuild, Moved(w, step), UNCHANGED input
  PROVE  Reads(w)'
<1>1. Reads(w) /\ pc[w] \in PastAudit /\ pc[w] \in PastValidate
  BY DEF BaseInv, AfterBuild, PastValidate
<1>2. pc'[w] = step /\ audited'[w] = audited[w] /\ validated'[w] = validated[w]
      /\ draft'[w] = draft[w] /\ raw' = raw /\ changes' = changes
  BY DEF Moved, input
<1> QED
  BY <1>1, <1>2 DEF Reads, AuditOf

\* The result set: the claim of the manifest, then the rows.
LEMMA BaseResultSet ==
  ASSUME BaseInv, NEW w \in Finalizers, ClaimSet(w) \/ FillSet(w), UNCHANGED beside
  PROVE  BaseInv'
<1>t. TypeOK /\ Held(w) /\ Keeps(w) /\ Reads(w) /\ DiskIsOfTheRun /\ CopiesAreTrue
  BY DEF BaseInv
<1>1. CASE ClaimSet(w) /\ raw = draft[w].set
  <2>1. /\ pc[w] = "claimSet"
        /\ resultSet' = IF resultSet = Absent THEN draft[w].set ELSE resultSet
        /\ Require(w, resultSet' = draft[w].set, "fillSet")
        /\ UNCHANGED <<input, rows, completion, receipt, marker, history, tree>>
    BY <1>1 DEF ClaimSet, Ensure
  <2>2. pc[w] \in AfterBuild /\ draft[w].set \in Evidence
    BY <2>1, <1>t DEF Held, PastAudit, PastValidate, AfterBuild, Steps, Receipts
  <2>3. /\ MemoryOK' /\ Others(w)
        /\ \/ resultSet' = draft[w].set /\ Moved(w, "fillSet")
           \/ Ended(w)
    BY <2>1, <1>t, RequireEffect DEF Steps
  <2>4. TypeOK'
    BY <2>1, <2>2, <2>3, <1>t DEF TypeOK, MemoryOK, input, tree, Answers
  <2>5. Lasting
    BY <2>1 DEF Lasting
  <2>6. Settled(w)'
    <3>1. CASE Ended(w)
      BY <3>1 DEF Ended, Settled, Held, Keeps, Reads, PastAudit, PastValidate, AfterBuild,
         AfterClaim, AfterFill, AfterCompletion, AfterMarker, AfterCite
    <3>2. CASE resultSet' = draft[w].set /\ Moved(w, "fillSet")
      <4>1. Held(w)' /\ Keeps(w)'
        BY <3>2, <2>1, <1>t DEF Moved, Held, Keeps, PastAudit, PastValidate, AfterBuild,
           AfterClaim, AfterFill, AfterCompletion, AfterMarker, AfterCite, Steps
      <4>2. Reads(w)'
        BY <3>2, <2>1, <2>2, ReadsOn DEF AfterBuild, PastValidate, PastAudit, Steps
      <4> QED
        BY <4>1, <4>2 DEF Settled
    <3> QED
      BY <2>3, <3>1, <3>2
  <2>7. DiskIsOfTheRun' /\ CopiesAreTrue'
    BY <1>1, <2>1, <1>t DEF DiskIsOfTheRun, IsOfTheRun, CopiesAreTrue, Whole, IsTrue, AuditOf,
       input, tree
  <2> QED
    BY <2>1, <2>3, <2>4, <2>5, <2>6, <2>7, BaseAssembles
<1>2. CASE FillSet(w)
  <2>1. /\ pc[w] = "fillSet" /\ rows' = TRUE
        /\ Goto(w, "completion") /\ UNCHANGED memory
        /\ UNCHANGED <<input, resultSet, completion, receipt, marker, history, tree>>
    BY <1>2 DEF FillSet
  <2>2. MemoryOK' /\ Others(w) /\ Moved(w, "completion")
    BY <2>1, <1>t, GotoEffect DEF Steps
  <2>3. TypeOK' /\ Lasting
    BY <2>1, <2>2, <1>t DEF TypeOK, MemoryOK, Lasting, input, tree, Answers
  <2>4. Held(w)' /\ Keeps(w)'
    BY <2>1, <2>2, <1>t DEF Moved, Held, Keeps, PastAudit, PastValidate, AfterBuild,
       AfterClaim, AfterFill, AfterCompletion, AfterMarker, AfterCite, Steps
  <2>5. Reads(w)'
    BY <2>1, <2>2, ReadsOn DEF AfterBuild, PastValidate, PastAudit, Steps
  <2>6. DiskIsOfTheRun' /\ CopiesAreTrue'
    BY <2>1, <1>t DEF DiskIsOfTheRun, IsOfTheRun, CopiesAreTrue, Whole, IsTrue, AuditOf,
       input, tree
  <2> QED
    BY <2>1, <2>2, <2>3, <2>4, <2>5, <2>6, BaseAssembles DEF Settled
<1>3. CASE End(w, "error") /\ UNCHANGED <<input, chain, tree>>
  BY <1>3, EndedBase DEF Answers
<1> QED
  BY <1>1, <1>2, <1>3 DEF ClaimSet, chain

LEMMA BaseCompletion ==
  ASSUME BaseInv, NEW w \in Finalizers, EnsureCompletion(w), UNCHANGED beside PROVE BaseInv'
<1>t. TypeOK /\ Held(w) /\ Keeps(w) /\ Reads(w) /\ DiskIsOfTheRun /\ CopiesAreTrue
  BY DEF BaseInv
<1>1. /\ pc[w] = "completion"
      /\ completion' = IF completion = Absent THEN audited[w] ELSE completion
      /\ Require(w, completion' = audited[w], "receipt")
      /\ UNCHANGED <<input, resultSet, rows, receipt, marker, history, tree>>
  BY DEF EnsureCompletion, Ensure
<1>2. pc[w] \in AfterBuild /\ audited[w] \in AuditsOf /\ (changes = 0 => audited[w] = AuditOf(raw))
  BY <1>1, <1>t DEF Held, Reads, PastAudit, PastValidate, AfterBuild, Steps
<1>3. /\ MemoryOK' /\ Others(w)
      /\ \/ completion' = audited[w] /\ Moved(w, "receipt")
         \/ Ended(w)
  BY <1>1, <1>t, RequireEffect DEF Steps
<1>4. TypeOK' /\ Lasting
  BY <1>1, <1>2, <1>3, <1>t DEF TypeOK, MemoryOK, Lasting, input, tree, Answers
<1>5. Settled(w)'
  <2>1. CASE Ended(w)
    BY <2>1 DEF Ended, Settled, Held, Keeps, Reads, PastAudit, PastValidate, AfterBuild,
       AfterClaim, AfterFill, AfterCompletion, AfterMarker, AfterCite
  <2>2. CASE completion' = audited[w] /\ Moved(w, "receipt")
    <3>1. Held(w)' /\ Keeps(w)'
      BY <2>2, <1>1, <1>t DEF Moved, Held, Keeps, PastAudit, PastValidate, AfterBuild,
         AfterClaim, AfterFill, AfterCompletion, AfterMarker, AfterCite, Steps
    <3>2. Reads(w)'
      BY <2>2, <1>1, <1>2, ReadsOn DEF AfterBuild, PastValidate, PastAudit, Steps
    <3> QED
      BY <3>1, <3>2 DEF Settled
  <2> QED
    BY <1>3, <2>1, <2>2
<1>6. DiskIsOfTheRun' /\ CopiesAreTrue'
  BY <1>1, <1>2, <1>t DEF DiskIsOfTheRun, IsOfTheRun, CopiesAreTrue, Whole, IsTrue, AuditOf,
     input, tree
<1> QED
  BY <1>1, <1>3, <1>4, <1>5, <1>6, BaseAssembles

\* What a finalizer holds once the completion is stored.
LEMMA DraftFact ==
  ASSUME BaseInv, NEW w \in Finalizers, pc[w] \in AfterCompletion
  PROVE  /\ pc[w] \in AfterBuild
         /\ audited[w] \in AuditsOf /\ validated[w] \in CountsOf
         /\ draft[w] \in Receipts /\ draft[w].schema = 2 /\ draft[w] # Absent
         /\ draft[w].totals = audited[w] /\ draft[w].counts = validated[w]
         /\ resultSet = draft[w].set /\ rows /\ completion = audited[w]
         /\ changes = 0 => IsOfTheRun(draft[w])
<1>1. Held(w) /\ Reads(w)
  BY DEF BaseInv
<1>2. /\ pc[w] \in PastAudit /\ pc[w] \in PastValidate /\ pc[w] \in AfterBuild
      /\ pc[w] \in AfterClaim /\ pc[w] \in AfterFill
  BY DEF PastAudit, PastValidate, AfterBuild, AfterClaim, AfterFill, AfterCompletion
<1> QED
  BY <1>1, <1>2, AbsentAssumption DEF Held, Reads, IsOfTheRun

\* A finalizer past the completion that goes on, and holds what it held.
LEMMA HeldOn ==
  ASSUME BaseInv, NEW w \in Finalizers, pc[w] \in AfterCompletion,
         NEW step \in AfterCompletion, Moved(w, step), UNCHANGED <<resultSet, rows, completion>>,
         step \in AfterCite => pc[w] \in AfterCite
  PROVE  Held(w)'
<1>1. Held(w)
  BY DEF BaseInv
<1>2. pc'[w] = step /\ commit'[w] = commit[w] /\ audited'[w] = audited[w]
      /\ validated'[w] = validated[w] /\ draft'[w] = draft[w] /\ cited'[w] = cited[w]
  BY DEF Moved
<1> QED
  BY <1>1, <1>2, DraftFact DEF Held, SameClaims

LEMMA BaseReceipt ==
  ASSUME BaseInv, NEW w \in Finalizers, EnsureReceipt(w), UNCHANGED beside PROVE BaseInv'
<1>t. TypeOK /\ DiskIsOfTheRun /\ CopiesAreTrue
  BY DEF BaseInv
<1>1. /\ pc[w] = "receipt" /\ pc[w] \in AfterCompletion
      /\ receipt' = IF receipt = Absent THEN draft[w] ELSE receipt
      /\ UNCHANGED <<input, resultSet, rows, completion, marker, history, tree>>
  BY DEF EnsureReceipt, PastAudit, PastValidate, AfterBuild, AfterClaim, AfterFill,
     AfterCompletion, Steps
<1>2. /\ pc[w] \in AfterBuild /\ draft[w] \in Receipts /\ draft[w] # Absent
      /\ changes = 0 => IsOfTheRun(draft[w])
  BY <1>1, DraftFact
<1>3. PICK step \in {"readBack", "archiveReceipt"} :
        \/ Goto(w, step) /\ UNCHANGED memory
        \/ End(w, "error")
  <2>1. ReceiptUpgrade(receipt', draft[w]) => ~SameReceipt(receipt', draft[w])
    BY DEF SameReceipt, ReceiptUpgrade
  <2>2. \/ Goto(w, "readBack") /\ UNCHANGED memory
        \/ Goto(w, "archiveReceipt") /\ UNCHANGED memory
        \/ End(w, "error")
    BY <2>1, Zenon DEF EnsureReceipt
  <2> QED
    BY <2>2
<1>4. MemoryOK' /\ Others(w) /\ (Moved(w, step) \/ Ended(w))
  BY <1>3, <1>t, GotoEffect, EndEffect DEF Steps, Answers
<1>5. TypeOK' /\ Lasting
  BY <1>1, <1>2, <1>4, <1>t DEF TypeOK, MemoryOK, Lasting, input, tree, Answers
<1>6. Settled(w)'
  <2>1. CASE Ended(w)
    BY <2>1 DEF Ended, Settled, Held, Keeps, Reads, PastAudit, PastValidate, AfterBuild,
       AfterClaim, AfterFill, AfterCompletion, AfterMarker, AfterCite
  <2>2. CASE Moved(w, step)
    <3>1. step \in AfterCompletion /\ step \notin AfterCite /\ step \in AfterBuild
          /\ step \notin {"copy", "copyBytes"}
      BY DEF PastAudit, PastValidate, AfterBuild, AfterClaim, AfterFill,
         AfterCompletion, AfterMarker, AfterCite, Steps
    <3>2. Held(w)' /\ Reads(w)'
      BY <2>2, <3>1, <1>1, <1>2, HeldOn, ReadsOn
    <3>3. Keeps(w)'
      BY <2>2, <1>1, <1>2 DEF Moved, Keeps
    <3> QED
      BY <3>2, <3>3 DEF Settled
  <2> QED
    BY <1>4, <2>1, <2>2
<1>7. DiskIsOfTheRun' /\ CopiesAreTrue'
  BY <1>1, <1>2, <1>t DEF DiskIsOfTheRun, IsOfTheRun, CopiesAreTrue, Whole, IsTrue, AuditOf,
     input, tree
<1> QED
  BY <1>1, <1>4, <1>5, <1>6, <1>7, BaseAssembles

\* An earlier document is kept, then replaced: of a receipt and of a marker.
LEMMA BaseArchive ==
  ASSUME BaseInv, NEW w \in Finalizers, ArchiveReceipt(w) \/ ArchiveMarker(w), UNCHANGED beside
  PROVE  BaseInv'
<1>t. TypeOK /\ Keeps(w) /\ DiskIsOfTheRun /\ CopiesAreTrue
  BY DEF BaseInv
<1>1. PICK step \in {"replaceReceipt", "replaceMarker"}, d \in {receipt, marker} :
        /\ \/ step = "replaceReceipt" /\ pc[w] = "archiveReceipt" /\ d = receipt
           \/ step = "replaceMarker" /\ pc[w] = "archiveMarker" /\ d = marker
        /\ history' = history \cup {d}
        /\ Goto(w, step) /\ UNCHANGED memory
        /\ UNCHANGED <<input, resultSet, rows, completion, receipt, marker, tree>>
  BY DEF ArchiveReceipt, ArchiveMarker
<1>2. MemoryOK' /\ Others(w) /\ Moved(w, step)
  BY <1>1, <1>t, GotoEffect DEF Steps
<1>3. d \in Receipts \cup Markers /\ d # Absent
  BY <1>1, <1>t DEF Keeps, TypeOK
<1>4. TypeOK' /\ Lasting
  BY <1>1, <1>2, <1>3, <1>t DEF TypeOK, MemoryOK, Lasting, input, tree, Answers
<1>5. /\ pc[w] \in AfterCompletion /\ step \in AfterCompletion /\ step \in AfterBuild
      /\ step \notin {"copy", "copyBytes"} /\ (step \in AfterCite => pc[w] \in AfterCite)
  BY <1>1 DEF PastAudit, PastValidate, AfterBuild, AfterClaim, AfterFill,
     AfterCompletion, AfterMarker, AfterCite, Steps
<1>6. Held(w)' /\ Reads(w)'
  BY <1>1, <1>2, <1>5, DraftFact, HeldOn, ReadsOn
<1>7. Keeps(w)'
  BY <1>1, <1>2, <1>3 DEF Moved, Keeps
<1>8. DiskIsOfTheRun' /\ CopiesAreTrue'
  BY <1>1, <1>t DEF DiskIsOfTheRun, IsOfTheRun, CopiesAreTrue, Whole, IsTrue, AuditOf,
     input, tree
<1> QED
  BY <1>1, <1>2, <1>4, <1>6, <1>7, <1>8, BaseAssembles DEF Settled

LEMMA BaseReplaceReceipt ==
  ASSUME BaseInv, NEW w \in Finalizers, ReplaceReceipt(w), UNCHANGED beside PROVE BaseInv'
<1>t. TypeOK /\ DiskIsOfTheRun /\ CopiesAreTrue
  BY DEF BaseInv
<1>1. /\ pc[w] = "replaceReceipt" /\ pc[w] \in AfterCompletion /\ receipt' = draft[w]
      /\ Goto(w, "readBack") /\ UNCHANGED memory
      /\ UNCHANGED <<input, resultSet, rows, completion, marker, history, tree>>
  BY DEF ReplaceReceipt, PastAudit, PastValidate, AfterBuild, AfterClaim, AfterFill,
     AfterCompletion, Steps
<1>2. MemoryOK' /\ Others(w) /\ Moved(w, "readBack")
  BY <1>1, <1>t, GotoEffect DEF Steps
<1>3. /\ pc[w] \in AfterBuild /\ draft[w] \in Receipts /\ draft[w] # Absent
      /\ draft[w].schema = 2
  BY <1>1, DraftFact
<1>4. TypeOK' /\ Lasting
  BY <1>1, <1>2, <1>3, <1>t DEF TypeOK, MemoryOK, Lasting, input, tree, Answers
<1>5. /\ "readBack" \in AfterCompletion /\ "readBack" \notin AfterCite
      /\ "readBack" \in AfterBuild \ {"copy", "copyBytes"}
  BY DEF PastAudit, PastValidate, AfterBuild, AfterClaim, AfterFill,
     AfterCompletion, AfterMarker, AfterCite, Steps
<1>6. Held(w)' /\ Reads(w)'
  BY <1>1, <1>2, <1>3, <1>5, HeldOn, ReadsOn
<1>7. Keeps(w)'
  BY <1>1, <1>2, <1>3 DEF Moved, Keeps
<1>8. DiskIsOfTheRun' /\ CopiesAreTrue'
  <2>1. changes = 0 => IsOfTheRun(draft[w])
    BY <1>1, DraftFact
  <2> QED
    BY <1>1, <1>3, <2>1, <1>t DEF DiskIsOfTheRun, IsOfTheRun, CopiesAreTrue, Whole, IsTrue,
       AuditOf, input, tree
<1> QED
  BY <1>1, <1>2, <1>4, <1>6, <1>7, <1>8, BaseAssembles DEF Settled

LEMMA BaseReadBack ==
  ASSUME BaseInv, NEW w \in Finalizers, ReadBack(w), UNCHANGED beside PROVE BaseInv'
<1>t. TypeOK /\ Held(w) /\ Keeps(w) /\ Reads(w) /\ pc[w] = "readBack"
  BY DEF BaseInv, ReadBack
<1>1. CASE UNCHANGED <<input, chain, tree>> /\ End(w, "error")
  BY <1>1, EndedBase DEF Answers
<1>2. CASE /\ SameClaims(receipt, Receipt(resultSet, audited[w], validated[w], w, 2))
           /\ cited' = [cited EXCEPT ![w] = Cite(w, receipt)] /\ Goto(w, "marker")
           /\ UNCHANGED <<commit, audited, validated, draft, input, chain, tree>>
  <2> DEFINE mine == Cite(w, receipt)
  <2>1. pc[w] \in AfterCompletion
    BY <1>t DEF PastAudit, PastValidate, AfterBuild, AfterClaim, AfterFill, AfterCompletion, Steps
  <2>2. /\ pc[w] \in AfterBuild /\ audited[w] \in AuditsOf /\ validated[w] \in CountsOf
        /\ draft[w] \in Receipts /\ draft[w].schema = 2
        /\ draft[w].totals = audited[w] /\ draft[w].counts = validated[w]
        /\ resultSet = draft[w].set /\ rows /\ completion = audited[w]
    BY <2>1, DraftFact
  <2>3. receipt \in Receipts /\ SameClaims(receipt, draft[w])
    BY <1>2, <1>t, <2>2 DEF Keeps, TypeOK, SameClaims, Receipt
  <2>4. commit[w] \in 0 .. MaxHead /\ resultSet \in Evidence
    BY <2>2, <1>t DEF TypeOK, Receipts
  <2>5. /\ mine \in Markers /\ mine.schema = 3 /\ mine.commit = commit[w]
        /\ SameClaims(mine, draft[w]) /\ mine.receipt = receipt
    BY <2>2, <2>3, <2>4 DEF Cite, Markers, SameClaims
  <2> HIDE DEF mine
  <2>6. cited' = [cited EXCEPT ![w] = mine]
    BY <1>2 DEF mine
  <2>7. MemoryOK' /\ Others(w) /\ pc'[w] = "marker" /\ cited'[w] = mine
        /\ commit'[w] = commit[w] /\ audited'[w] = audited[w] /\ validated'[w] = validated[w]
        /\ draft'[w] = draft[w]
    BY <1>2, <2>5, <2>6, <1>t DEF Goto, TypeOK, MemoryOK, Others, Steps, Answers
  <2>8. Held(w)'
    BY <1>2, <2>2, <2>3, <2>5, <2>7 DEF Held, SameClaims, chain
  <2>9. Keeps(w)'
    BY <2>7 DEF Keeps
  <2>10. Reads(w)'
    BY <1>2, <2>2, <2>7, <1>t DEF Reads, PastAudit, PastValidate, AfterBuild, input, AuditOf
  <2> QED
    BY <1>2, <2>7, <2>8, <2>9, <2>10, <1>t, QuietBase DEF Settled, TypeOK
<1> QED
  BY <1>1, <1>2 DEF ReadBack

\* A marker that is written, over nothing or over an earlier one, or found.
LEMMA MarkerWritten ==
  ASSUME BaseInv, NEW w \in Finalizers, pc[w] \in AfterCite, pc[w] \in AfterCompletion,
         MemoryOK', Others(w), Moved(w, "inspect"), marker' = cited[w],
         UNCHANGED <<input, resultSet, rows, completion, receipt, history, tree, beside>>
  PROVE  BaseInv'
<1>t. TypeOK /\ DiskIsOfTheRun /\ CopiesAreTrue /\ Held(w)
  BY DEF BaseInv
<1>1. pc[w] \in AfterBuild
  BY DraftFact
<1>2. /\ cited[w] \in Markers /\ cited[w] # Absent /\ cited[w].schema = 3
      /\ SameClaims(cited[w], draft[w])
  BY <1>t, AbsentAssumption DEF Held
<1>3. TypeOK' /\ Lasting
  BY <1>2, <1>t DEF TypeOK, MemoryOK, Lasting, input, tree, Answers
<1>4. /\ "inspect" \in AfterCompletion /\ "inspect" \in AfterBuild \ {"copy", "copyBytes"}
  BY DEF PastAudit, PastValidate, AfterBuild, AfterClaim, AfterFill, AfterCompletion, Steps
<1>5. Settled(w)'
  <2>1. Held(w)' /\ Reads(w)'
    BY <1>4, DraftFact, HeldOn, ReadsOn
  <2>2. Keeps(w)'
    BY DEF Moved, Keeps
  <2> QED
    BY <2>1, <2>2 DEF Settled
<1>6. DiskIsOfTheRun' /\ CopiesAreTrue'
  <2>1. changes = 0 => IsOfTheRun(draft[w])
    BY DraftFact
  <2> QED
    BY <1>2, <2>1, <1>t DEF DiskIsOfTheRun, IsOfTheRun, SameClaims, CopiesAreTrue, Whole, IsTrue,
       AuditOf, input, tree
<1> QED
  BY <1>3, <1>5, <1>6, BaseAssembles

LEMMA BaseMarker ==
  ASSUME BaseInv, NEW w \in Finalizers, EnsureMarker(w) \/ ReplaceMarker(w), UNCHANGED beside
  PROVE  BaseInv'
<1>t. TypeOK
  BY DEF BaseInv
<1>1. pc[w] \in {"marker", "replaceMarker"} /\ pc[w] \in AfterCite /\ pc[w] \in AfterCompletion
  BY DEF EnsureMarker, ReplaceMarker, PastAudit, PastValidate, AfterBuild, AfterClaim, AfterFill,
     AfterCompletion, AfterCite, Steps
<1>2. UNCHANGED <<input, resultSet, rows, completion, receipt, history, tree>>
  BY DEF EnsureMarker, ReplaceMarker
<1>3. CASE marker' = cited[w] /\ Goto(w, "inspect") /\ UNCHANGED memory
  <2>1. MemoryOK' /\ Others(w) /\ Moved(w, "inspect")
    BY <1>3, <1>t, GotoEffect DEF Steps
  <2> QED
    BY <1>1, <1>2, <1>3, <2>1, MarkerWritten
<1>4. CASE marker # Absent /\ marker' = marker /\ Goto(w, "archiveMarker") /\ UNCHANGED memory
  <2>1. MemoryOK' /\ Others(w) /\ Moved(w, "archiveMarker")
    BY <1>4, <1>t, GotoEffect DEF Steps
  <2>2. /\ "archiveMarker" \in AfterCompletion
        /\ "archiveMarker" \in AfterBuild \ {"copy", "copyBytes"}
    BY DEF PastAudit, PastValidate, AfterBuild, AfterClaim, AfterFill, AfterCompletion, Steps
  <2>3. Held(w)' /\ Reads(w)'
    BY <1>1, <1>2, <2>1, <2>2, DraftFact, HeldOn, ReadsOn
  <2>4. Keeps(w)'
    BY <1>4, <2>1 DEF Moved, Keeps
  <2> QED
    BY <1>2, <1>4, <2>1, <2>3, <2>4, <1>t, QuietBase DEF Settled, chain, TypeOK
<1>5. CASE marker' = marker /\ End(w, "error")
  BY <1>2, <1>5, EndedBase DEF Answers, chain
<1>6. CASE EnsureMarker(w)
  <2>1. marker' = IF marker = Absent THEN cited[w] ELSE marker
    BY <1>6 DEF EnsureMarker
  <2>2. CASE marker' = cited[w]
    <3>1. Goto(w, "inspect") /\ UNCHANGED memory
      BY <1>6, <2>2 DEF EnsureMarker
    <3> QED
      BY <2>2, <3>1, <1>3
  <2>3. CASE marker' # cited[w]
    <3>1. marker # Absent /\ marker' = marker
      BY <2>1, <2>3
    <3>2. (Goto(w, "archiveMarker") /\ UNCHANGED memory) \/ End(w, "error")
      BY <1>6, <2>3, Zenon DEF EnsureMarker
    <3> QED
      BY <3>1, <3>2, <1>4, <1>5
  <2> QED
    BY <2>2, <2>3
<1>7. CASE ReplaceMarker(w)
  BY <1>3, <1>7 DEF ReplaceMarker
<1> QED
  BY <1>6, <1>7

-----------------------------------------------------------------------------
(* Inspection and export.                                                  *)

LEMMA Invalidity == ASSUME NEW v PROVE StatusGiven(v) = "INVALID" <=> Invalid(v)
<1>1. CASE Invalid(v)
  <2>1. StatusGiven(v) = "INVALID"
    BY <1>1, Zenon DEF StatusGiven
  <2> QED
    BY <1>1, <2>1
<1>2. CASE ~Invalid(v)
  <2>1. StatusGiven(v) \in {"RESULTS_COMPLETE", "CORE_VERIFIED", "RESEARCH_READY"}
    BY <1>2, Zenon DEF StatusGiven
  <2> QED
    BY <1>2, <2>1
<1> QED
  BY <1>1, <1>2

LEMMA Readiness ==
  ASSUME NEW v, StatusGiven(v) = "RESEARCH_READY"
  PROVE  ~Invalid(v) /\ completion # Absent /\ Absent \notin {resultSet, receipt, marker}
<1>1. CASE Invalid(v)
  BY <1>1, Invalidity
<1>2. CASE ~Invalid(v) /\ completion = Absent
  <2>1. StatusGiven(v) = "RESULTS_COMPLETE"
    BY <1>2, Zenon DEF StatusGiven
  <2> QED
    BY <2>1
<1>3. CASE ~Invalid(v) /\ completion # Absent /\ Absent \in {resultSet, receipt, marker}
  <2>1. StatusGiven(v) = "CORE_VERIFIED"
    BY <1>3, Zenon DEF StatusGiven
  <2> QED
    BY <2>1
<1> QED
  BY <1>1, <1>2, <1>3

\* What a finalizer that has cited the chain holds.
LEMMA CitedFact ==
  ASSUME BaseInv, NEW w \in Finalizers, pc[w] \in AfterCite
  PROVE  /\ pc[w] \in AfterCompletion
         /\ cited[w] \in Markers /\ cited[w] # Absent /\ cited[w].schema = 3
         /\ cited[w].commit = commit[w]
         /\ SameClaims(cited[w], draft[w]) /\ SameClaims(cited[w].receipt, draft[w])
         /\ cited[w].receipt \in Receipts
<1>1. Held(w)
  BY DEF BaseInv
<1>2. pc[w] \in AfterCompletion
  BY DEF AfterCite, AfterMarker, AfterCompletion, AfterFill, AfterClaim, AfterBuild,
     PastValidate, PastAudit, Steps
<1> QED
  BY <1>1, <1>2, AbsentAssumption DEF Held, Markers

\* The one step at which the totals are compared with the set they are cited for.
LEMMA BaseInspect ==
  ASSUME BaseInv, NEW w \in Finalizers, Inspect(w), UNCHANGED beside PROVE BaseInv'
<1>t. TypeOK /\ Reads(w)
  BY DEF BaseInv
<1>1. pc[w] = "inspect" /\ pc[w] \in AfterCite /\ UNCHANGED <<input, chain, tree>>
  BY DEF Inspect, AfterCite, AfterMarker
<1>2. /\ MemoryOK' /\ Others(w)
      /\ \/ StatusGiven(validated[w]) = "RESEARCH_READY" /\ Moved(w, "copy")
         \/ Ended(w)
  BY <1>t, RequireEffect DEF Inspect, Steps
<1>3. Settled(w)'
  <2>1. CASE Ended(w)
    BY <2>1 DEF Ended, Settled, Held, Keeps, Reads, PastAudit, PastValidate, AfterBuild,
       AfterClaim, AfterFill, AfterCompletion, AfterMarker, AfterCite
  <2>2. CASE StatusGiven(validated[w]) = "RESEARCH_READY" /\ Moved(w, "copy")
    <3>1. /\ pc[w] \in AfterCompletion /\ pc[w] \in AfterBuild
          /\ resultSet = draft[w].set /\ completion = audited[w]
          /\ draft[w].totals = audited[w] /\ draft[w].counts = validated[w]
          /\ SameClaims(cited[w].receipt, draft[w])
      BY <1>1, CitedFact, DraftFact
    <3>2. SetHolds /\ AuditIs(completion)
      BY <2>2, Readiness DEF Invalid, Issues
    <3>3. raw \in Evidence /\ AuditOf(raw) = audited[w] /\ draft[w].set = raw
      BY <3>1, <3>2 DEF SetHolds, AuditIs
    <3>4. pc[w] \in PastValidate
      BY <3>1 DEF AfterBuild
    <3>5. changes <= 1 => Totals[validated[w]] = audited[w]
      BY <3>3, <3>4, <1>t DEF Reads, AuditOf
    <3>6. changes <= 1 => IsTrue(cited[w].receipt)
      BY <3>1, <3>3, <3>5 DEF IsTrue, SameClaims
    <3>7. "copy" \in AfterCompletion
      BY DEF PastAudit, PastValidate, AfterBuild, AfterClaim, AfterFill, AfterCompletion, Steps
    <3>8. Held(w)'
      BY <2>2, <3>1, <3>7, <1>1, HeldOn DEF chain
    <3>9. Keeps(w)'
      BY <2>2 DEF Moved, Keeps
    <3>10. Reads(w)'
      <4>1. /\ pc[w] \in PastAudit /\ pc'[w] = "copy" /\ audited'[w] = audited[w]
            /\ validated'[w] = validated[w] /\ draft'[w] = draft[w] /\ cited'[w] = cited[w]
            /\ raw' = raw /\ changes' = changes
        BY <3>4, <2>2, <1>1 DEF PastValidate, Moved, input
      <4>2. IsTrue(cited[w].receipt) => IsTrue(cited[w].receipt)'
        BY <4>1 DEF IsTrue, AuditOf
      <4> QED
        BY <4>1, <4>2, <3>1, <3>4, <3>5, <3>6, <1>t DEF Reads, AuditOf
    <3> QED
      BY <3>8, <3>9, <3>10 DEF Settled
  <2> QED
    BY <1>2, <2>1, <2>2
<1> QED
  BY <1>1, <1>2, <1>3, <1>t, QuietBase DEF TypeOK

LEMMA BaseCopy ==
  ASSUME BaseInv, NEW w \in Finalizers, WriteCopy(w) \/ CopyBytes(w), UNCHANGED beside
  PROVE  BaseInv'
<1>t. TypeOK /\ Held(w) /\ Reads(w) /\ DiskIsOfTheRun /\ CopiesAreTrue
  BY DEF BaseInv
<1>1. pc[w] \in {"copy", "copyBytes"} /\ pc[w] \in AfterCite
      /\ UNCHANGED <<input, chain, head, committed>>
  BY DEF WriteCopy, CopyBytes, AfterCite, AfterMarker
<1>2. /\ pc[w] \in AfterCompletion /\ cited[w].receipt \in Receipts
      /\ changes <= 1 => IsTrue(cited[w].receipt)
  BY <1>1, <1>t, CitedFact DEF Reads
<1>3. /\ copy' \in {copy, Truncated, cited[w].receipt}
      /\ \/ Goto(w, "copyBytes") /\ UNCHANGED memory /\ pc[w] = "copy"
         \/ \E what \in Answers : End(w, what)
  BY DEF WriteCopy, CopyBytes, Answers
<1>4. MemoryOK' /\ Others(w) /\ (Moved(w, "copyBytes") \/ Ended(w))
  BY <1>3, <1>t, GotoEffect, EndEffect DEF Steps
<1>5. TypeOK' /\ Lasting /\ UNCHANGED input
  BY <1>1, <1>2, <1>3, <1>4, <1>t DEF TypeOK, MemoryOK, Lasting, input, chain, Answers
<1>6. Settled(w)'
  <2>1. CASE Ended(w)
    BY <2>1 DEF Ended, Settled, Held, Keeps, Reads, PastAudit, PastValidate, AfterBuild,
       AfterClaim, AfterFill, AfterCompletion, AfterMarker, AfterCite
  <2>2. CASE Moved(w, "copyBytes")
    <3>1. "copyBytes" \in AfterCompletion /\ pc[w] \in PastAudit /\ pc[w] \in PastValidate
          /\ pc[w] \in AfterBuild
      BY <1>2 DEF PastAudit, PastValidate, AfterBuild, AfterClaim, AfterFill, AfterCompletion,
         Steps
    <3>2. Held(w)'
      BY <2>2, <3>1, <1>1, <1>2, HeldOn DEF chain
    <3>3. Keeps(w)'
      BY <2>2 DEF Moved, Keeps
    <3>4. Reads(w)'
      <4>1. /\ pc'[w] = "copyBytes" /\ audited'[w] = audited[w]
            /\ validated'[w] = validated[w] /\ draft'[w] = draft[w] /\ cited'[w] = cited[w]
            /\ raw' = raw /\ changes' = changes
        BY <2>2, <1>1 DEF Moved, input
      <4> QED
        BY <4>1, <3>1, <1>2, <1>t DEF Reads, AuditOf, IsTrue
    <3> QED
      BY <3>2, <3>3, <3>4 DEF Settled
  <2> QED
    BY <1>4, <2>1, <2>2
<1>7. DiskIsOfTheRun'
  BY <1>1, <1>t DEF DiskIsOfTheRun, IsOfTheRun, AuditOf, input, chain
<1>8. CopiesAreTrue'
  <2>1. changes' = changes /\ committed' = committed
    BY <1>1 DEF input
  <2> QED
    BY <1>2, <1>3, <2>1, <1>t DEF CopiesAreTrue, Whole, IsTrue, AuditOf
<1> QED
  BY <1>4, <1>5, <1>6, <1>7, <1>8, BaseAssembles

\* The working tree is committed or restored, or what is read is changed.
LEMMA BaseEnvironment ==
  ASSUME BaseInv, Commit \/ Discard \/ Tamper, UNCHANGED beside PROVE BaseInv'
<1>t. TypeOK /\ DiskIsOfTheRun /\ CopiesAreTrue
  BY DEF BaseInv
<1>1. UNCHANGED <<chain, pc, memory, told>>
  BY DEF Commit, Discard, Tamper
<1>2. UNCHANGED <<resultSet, rows, completion, receipt, marker, history, pc, commit, audited,
                  validated, draft, cited>>
  BY <1>1 DEF chain, memory
<1>3. \A w \in Finalizers : Held(w)' /\ Keeps(w)'
  BY <1>2 DEF BaseInv, Held, Keeps, SameClaims
<1>4. CASE Commit \/ Discard
  <2>1. UNCHANGED <<input, raw, bundle, changes>> /\ copy' \in {copy, committed}
        /\ committed' \in {copy, committed} /\ head' \in 0 .. MaxHead
    BY <1>4, <1>t, HeadAssumption DEF Commit, Discard, TypeOK, input
  <2>2. TypeOK'
    BY <1>1, <2>1, <1>t DEF TypeOK, chain, memory
  <2>3. \A w \in Finalizers : Reads(w)'
    BY <1>2, <2>1 DEF BaseInv, Reads, IsTrue, AuditOf
  <2>4. DiskIsOfTheRun'
    BY <1>2, <2>1, <1>t DEF DiskIsOfTheRun, IsOfTheRun, AuditOf
  <2>5. CopiesAreTrue'
    BY <2>1, <1>t DEF CopiesAreTrue, Whole, IsTrue, AuditOf
  <2> QED
    BY <1>3, <2>2, <2>3, <2>4, <2>5 DEF BaseInv
<1>5. CASE Tamper
  <2>1. UNCHANGED tree /\ raw' \in Evidence \cup {Broken} /\ bundle' \in {bundle, FALSE}
        /\ changes' = changes + 1 /\ changes < MaxChanges
    BY <1>5 DEF Tamper
  <2>2. changes \in Nat /\ changes' \in 0 .. MaxChanges /\ changes' # 0
        /\ (changes' <= 1 => changes = 0)
    BY <2>1, <1>t, ChangesAssumption DEF TypeOK
  <2>3. TypeOK'
    BY <1>1, <2>1, <2>2, <1>t DEF TypeOK, tree, chain, memory
  <2>4. \A w \in Finalizers : Reads(w)'
    BY <1>2, <2>2 DEF BaseInv, Reads, IsTrue, AuditOf
  <2>5. DiskIsOfTheRun'
    BY <2>2 DEF DiskIsOfTheRun
  <2>6. CopiesAreTrue'
    BY <2>1, <2>2, <1>t DEF CopiesAreTrue, Whole, IsTrue, AuditOf, tree
  <2> QED
    BY <1>3, <2>3, <2>4, <2>5, <2>6 DEF BaseInv
<1> QED
  BY <1>4, <1>5

LEMMA BaseStep == ASSUME BaseInv, [Next]_vars PROVE BaseInv'
<1>1. CASE UNCHANGED vars
  <2>1. UNCHANGED <<raw, bundle, changes, resultSet, rows, completion, receipt, marker, history,
                    copy, head, committed, pc, commit, audited, validated, draft, cited, told,
                    beside>>
    BY <1>1 DEF vars, input, chain, tree, memory
  <2> QED
    BY <2>1 DEF BaseInv, TypeOK, Held, Keeps, Reads, DiskIsOfTheRun, CopiesAreTrue, IsOfTheRun,
       IsTrue, AuditOf, Whole, SameClaims
<1>2. ASSUME NEW w \in Finalizers, Crash(w), UNCHANGED beside PROVE BaseInv'
  BY <1>2, EndedBase DEF Crash, Answers
<1>3. CASE Next
  BY <1>2, <1>3, BaseBegin, BaseReads, BaseResultSet, BaseCompletion, BaseReceipt, BaseArchive,
     BaseReplaceReceipt, BaseReadBack, BaseMarker, BaseInspect, BaseCopy, BaseEnvironment
  DEF Next, Step
<1> QED
  BY <1>1, <1>3

LEMMA BaseInvariance == Spec => []BaseInv
<1>1. Init => BaseInv
  BY BaseInit
<1>2. BaseInv /\ [Next]_vars => BaseInv'
  BY BaseStep
<1> QED
  BY <1>1, <1>2, PTL DEF Spec

-----------------------------------------------------------------------------
(* The second inductive invariant: what the documents on disk are to each  *)
(* other, and to what a finalizer holds, while nobody upgrades beside       *)
(* another.                                                                 *)

\* What it cites is what is stored, and was stored by this release.
CitedFits(w) ==
  /\ pc[w] = "readBack" => SameReceipt(receipt, draft[w])
  /\ pc[w] \in AfterCite => receipt = cited[w].receipt /\ receipt.schema = 2
  /\ pc[w] \in AfterMarker => marker = cited[w]

\* Whoever replaces a document replaces one of the earlier release.
UpgradeFits(w) ==
  /\ pc[w] \in {"archiveReceipt", "replaceReceipt"} =>
       UpgradePending /\ ReceiptUpgrade(receipt, draft[w])
  /\ pc[w] \in {"archiveMarker", "replaceMarker"} =>
       UpgradePending /\ MarkerUpgrade(marker, cited[w])

Fits(w) == CitedFits(w) /\ UpgradeFits(w)

UpgradeIsAlone ==
  UpgradePending => \A v, w \in Finalizers : pc[v] # "idle" /\ pc[w] # "idle" => v = w

\* The documents on disk agree, but for a receipt that was replaced before its marker.
ChainAgrees ==
  /\ receipt # Absent =>
       rows /\ resultSet = receipt.set /\ completion = receipt.totals
  /\ marker # Absent =>
       /\ rows /\ resultSet = marker.set /\ completion = marker.totals
       /\ receipt # Absent
       /\ marker.schema = 3 => receipt = marker.receipt /\ receipt.schema = 2
       /\ marker.schema = 1 =>
            marker.receipt.schema = 1 /\ (receipt.schema = 1 => receipt = marker.receipt)
  /\ receipt # Absent /\ receipt.schema = 1 => UpgradePending

\* A copy, in the working tree or in HEAD, is the marked receipt.
Faithful(c) ==
  Whole(c) /\ c.schema = 2 => marker # Absent /\ marker.schema = 3 /\ c = marker.receipt

ChainInv ==
  /\ \A w \in Finalizers : Fits(w)
  /\ UpgradeIsAlone
  /\ ChainAgrees
  /\ Faithful(copy) /\ Faithful(committed)

\* The steps at which nothing is cited or replaced.
Early == {"idle", "audit", "validate", "build", "claimSet", "fillSet", "completion", "receipt"}

Sole(w) == \A v \in Finalizers \ {w} : pc[v] = "idle"

\* A receipt and a marker are only added, but by a finalizer that is alone.
Kept(w) ==
  /\ receipt # Absent => receipt' = receipt \/ Sole(w)
  /\ marker # Absent => marker' = marker \/ Sole(w)

LEMMA EarlyFits == ASSUME NEW w, pc[w] \in Early PROVE Fits(w)
BY DEF Early, Fits, CitedFits, UpgradeFits, AfterMarker, AfterCite

LEMMA OthersFit ==
  ASSUME BaseInv, ChainInv, NEW w \in Finalizers, Others(w), Kept(w),
         NEW v \in Finalizers \ {w}
  PROVE  Fits(v)'
<1>1. /\ pc'[v] = pc[v] /\ draft'[v] = draft[v] /\ cited'[v] = cited[v]
  BY DEF Others
<1>2. CASE pc[v] = "idle"
  BY <1>1, <1>2 DEF Fits, CitedFits, UpgradeFits, AfterMarker, AfterCite
<1>3. CASE pc[v] # "idle"
  <2>1. Fits(v) /\ ~Sole(w) /\ Keeps(v)
    BY <1>3 DEF ChainInv, BaseInv, Sole
  <2>2. /\ receipt # Absent => receipt' = receipt
        /\ marker # Absent => marker' = marker
    BY <2>1 DEF Kept
  <2>3. /\ pc[v] \in AfterCite => cited[v].receipt \in Receipts /\ cited[v] # Absent
        /\ pc[v] \in AfterMarker => pc[v] \in AfterCite
    BY CitedFact DEF AfterCite
  <2>4. /\ pc[v] \in AfterCite => receipt # Absent
        /\ pc[v] \in AfterMarker => marker # Absent
        /\ pc[v] \in {"archiveReceipt", "replaceReceipt", "readBack"} => receipt # Absent
        /\ pc[v] \in {"archiveMarker", "replaceMarker"} => marker # Absent
    BY <2>1, <2>3, AbsentAssumption DEF Fits, CitedFits, Keeps
  <2>5. CitedFits(v)'
    BY <1>1, <2>1, <2>2, <2>4 DEF Fits, CitedFits, SameReceipt, SameClaims
  <2>6. UpgradePending /\ marker # Absent => UpgradePending'
    BY <2>2 DEF UpgradePending
  <2>7. UpgradeFits(v)'
    BY <1>1, <2>1, <2>2, <2>4, <2>6 DEF Fits, UpgradeFits, UpgradePending, ReceiptUpgrade,
       MarkerUpgrade, SameClaims
  <2> QED
    BY <2>5, <2>7 DEF Fits
<1> QED
  BY <1>2, <1>3

\* A finalizer that has started does not let another upgrade begin.
LEMMA StepAssembles ==
  ASSUME BaseInv, ChainInv, NEW w \in Finalizers, pc[w] # "idle", Others(w), Kept(w), Fits(w)',
         UpgradePending' => UpgradePending, ChainAgrees', Faithful(copy)', Faithful(committed)'
  PROVE  ChainInv'
<1>1. \A v \in Finalizers : Fits(v)'
  BY OthersFit
<1>2. \A v \in Finalizers : pc'[v] # "idle" => pc[v] # "idle"
  BY DEF Others
<1>3. UpgradeIsAlone'
  BY <1>2 DEF ChainInv, UpgradeIsAlone
<1> QED
  BY <1>1, <1>3 DEF ChainInv

\* A step that neither cites nor replaces.
LEMMA EarlyChain ==
  ASSUME BaseInv, ChainInv, NEW w \in Finalizers, pc[w] # "idle", Others(w), pc'[w] \in Early,
         Lasting, UNCHANGED <<receipt, marker, tree>>
  PROVE  ChainInv'
<1>1. Kept(w) /\ (UpgradePending' => UpgradePending)
  BY DEF Kept, UpgradePending
<1>2. Fits(w)'
  BY DEF Early, Fits, CitedFits, UpgradeFits, AfterMarker, AfterCite
<1>3. ChainAgrees'
  <2>1. /\ receipt # Absent => receipt.set # Absent /\ receipt.totals # Absent
        /\ marker # Absent => marker.set # Absent /\ marker.totals # Absent
    BY AbsentAssumption DEF BaseInv, TypeOK, Receipts, Markers
  <2> QED
    BY <2>1 DEF ChainInv, ChainAgrees, UpgradePending, Lasting
<1>4. Faithful(copy)' /\ Faithful(committed)'
  BY DEF ChainInv, Faithful, Whole, tree
<1> QED
  BY <1>1, <1>2, <1>3, <1>4, StepAssembles

LEMMA EndedChain ==
  ASSUME BaseInv, ChainInv, NEW w \in Finalizers, pc[w] # "idle", NEW what \in Answers,
         End(w, what), UNCHANGED <<chain, tree>>
  PROVE  ChainInv'
<1>1. Others(w) /\ pc'[w] \in Early
  BY EndEffect DEF BaseInv, Ended, Early
<1> QED
  BY <1>1, EarlyChain DEF Lasting, chain

LEMMA ChainInit == Init => ChainInv
<1> SUFFICES ASSUME Init PROVE ChainInv
  OBVIOUS
<1>1. BaseInv /\ raw \in Evidence
  BY BaseInit DEF Init
<1>2. /\ OldReceipt.schema = 1 /\ OldReceipt.set = raw /\ OldReceipt.totals = AuditOf(raw)
      /\ OldMarker.schema = 1 /\ OldMarker.set = raw /\ OldMarker.totals = AuditOf(raw)
      /\ OldMarker.receipt = OldReceipt
  BY DEF OldReceipt, OldMarker, Receipt
<1>3. PICK old \in Upgrade :
        /\ resultSet = IF old THEN raw ELSE Absent
        /\ rows = old
        /\ completion = IF old THEN AuditOf(raw) ELSE Absent
        /\ receipt = IF old THEN OldReceipt ELSE Absent
        /\ marker = IF old THEN OldMarker ELSE Absent
  BY DEF Init
<1>4. old \in BOOLEAN
  BY UpgradeAssumption
<1>5. old => marker # Absent /\ receipt # Absent
  <2>1. old => OldMarker \in Markers /\ OldReceipt \in Receipts
    <3>1. /\ AuditOf(raw) \in AuditsOf /\ Counts[raw] \in CountsOf /\ 0 \in 0 .. MaxHead
      BY <1>1, HeadAssumption DEF AuditsOf, CountsOf
    <3>2. OldReceipt \in Receipts
      BY <1>1, <3>1 DEF OldReceipt, Receipt, Receipts, Authors
    <3> QED
      BY <1>1, <3>1, <3>2 DEF OldMarker, Markers
  <2>2. Absent \notin Receipts /\ Absent \notin Markers
    BY AbsentAssumption
  <2>3. old => marker = OldMarker /\ receipt = OldReceipt
    BY <1>3
  <2> QED
    BY <2>1, <2>2, <2>3
<1>0. \A w \in Finalizers : pc[w] = "idle"
  BY DEF Init
<1>6. \A w \in Finalizers : Fits(w)
  <2> SUFFICES ASSUME NEW w \in Finalizers PROVE Fits(w)
    OBVIOUS
  <2>1. pc[w] \in Early
    BY <1>0 DEF Early
  <2> QED
    BY <2>1, EarlyFits
<1>7. UpgradeIsAlone
  BY <1>0 DEF UpgradeIsAlone
<1>8. ChainAgrees
  BY <1>2, <1>3, <1>4, <1>5 DEF ChainAgrees, UpgradePending
<1>9. Faithful(copy) /\ Faithful(committed)
  BY <1>2, <1>3, <1>4 DEF Init, Faithful, Whole
<1> QED
  BY <1>6, <1>7, <1>8, <1>9 DEF ChainInv

\* Two finalizers over a marker to be upgraded are seen when the second begins.
LEMMA ChainBegin ==
  ASSUME BaseInv, ChainInv, NEW w \in Finalizers, Begin(w), ~beside' PROVE ChainInv'
<1>1. /\ pc[w] = "idle" /\ pc' = [pc EXCEPT ![w] = "audit"]
      /\ UNCHANGED <<input, chain, tree, audited, validated, draft, cited, told>>
      /\ commit' = [commit EXCEPT ![w] = head]
      /\ UpgradePending => \A v \in Finalizers \ {w} : pc[v] = "idle"
  BY DEF Begin, Goto
<1>2. Others(w) /\ Kept(w) /\ pc'[w] = "audit"
  BY <1>1 DEF BaseInv, TypeOK, Others, Kept, chain
<1>3. \A v \in Finalizers : Fits(v)'
  <2>1. Fits(w)'
    BY <1>2 DEF Fits, CitedFits, UpgradeFits, AfterMarker, AfterCite
  <2> QED
    BY <2>1, <1>2, OthersFit
<1>4. UpgradeIsAlone'
  BY <1>1, <1>2 DEF UpgradeIsAlone, UpgradePending, Others, chain
<1>5. ChainAgrees' /\ Faithful(copy)' /\ Faithful(committed)'
  BY <1>1 DEF ChainInv, ChainAgrees, Faithful, Whole, UpgradePending, chain, tree
<1> QED
  BY <1>3, <1>4, <1>5 DEF ChainInv

LEMMA ChainEarly ==
  ASSUME BaseInv, ChainInv, NEW w \in Finalizers,
         Audit(w) \/ Validate(w) \/ Build(w) \/ ClaimSet(w) \/ FillSet(w) \/ EnsureCompletion(w)
  PROVE  ChainInv'
<1>t. TypeOK /\ pc[w] # "idle"
  BY DEF BaseInv, Audit, Validate, Build, ClaimSet, FillSet, EnsureCompletion
<1>1. UNCHANGED <<receipt, marker, tree>> /\ Lasting
  BY DEF Audit, Validate, Build, ClaimSet, FillSet, EnsureCompletion, Ensure, chain, tree, Lasting
<1>2. CASE End(w, "error")
  BY <1>1, <1>2, <1>t, EndEffect, EarlyChain DEF Answers, Ended, Early
<1>3. CASE Audit(w) \/ Validate(w) \/ Build(w)
  <2>1. CASE ~End(w, "error")
    <3>1. PICK step \in {"validate", "build", "claimSet"} : Goto(w, step)
      BY <1>3, <2>1 DEF Audit, Validate, Build
    <3>2. pc'[w] \in Early
      BY <3>1, <1>t DEF Goto, TypeOK, Early
    <3>3. \A v \in Finalizers \ {w} : pc'[v] = pc[v] /\ told'[v] = told[v]
      BY <3>1, <1>t DEF Goto, TypeOK
    <3>4. \A v \in Finalizers \ {w} :
            /\ commit'[v] = commit[v] /\ audited'[v] = audited[v] /\ validated'[v] = validated[v]
            /\ draft'[v] = draft[v] /\ cited'[v] = cited[v]
      BY <1>3, <2>1, <1>t DEF Audit, Validate, Build, TypeOK
    <3> QED
      BY <3>2, <3>3, <3>4, <1>1, <1>t, EarlyChain DEF Others
  <2> QED
    BY <2>1, <1>2
<1>4. CASE ClaimSet(w) \/ EnsureCompletion(w)
  <2>1. CASE ~End(w, "error")
    <3>1. PICK c \in BOOLEAN, step \in {"fillSet", "receipt"} : Require(w, c, step)
      BY <1>4, <2>1 DEF ClaimSet, EnsureCompletion, Ensure
    <3>2. Others(w) /\ pc'[w] \in Early
      BY <3>1, <1>t, RequireEffect DEF Steps, Moved, Ended, Early
    <3> QED
      BY <3>2, <1>1, <1>t, EarlyChain
  <2> QED
    BY <2>1, <1>2
<1>5. CASE FillSet(w)
  <2>1. Others(w) /\ Moved(w, "completion")
    BY <1>5, <1>t, GotoEffect DEF FillSet, Steps
  <2> QED
    BY <2>1, <1>1, <1>t, EarlyChain DEF Moved, Early
<1> QED
  BY <1>3, <1>4, <1>5

LEMMA ChainReceipt ==
  ASSUME BaseInv, ChainInv, NEW w \in Finalizers, EnsureReceipt(w) PROVE ChainInv'
<1>t. TypeOK /\ ChainAgrees /\ Faithful(copy) /\ Faithful(committed)
  BY DEF ChainInv, BaseInv
<1>1. /\ pc[w] = "receipt" /\ pc[w] \in AfterCompletion
      /\ receipt' = IF receipt = Absent THEN draft[w] ELSE receipt
      /\ UNCHANGED <<input, resultSet, rows, completion, marker, history, tree>>
  BY DEF EnsureReceipt, PastAudit, PastValidate, AfterBuild, AfterClaim, AfterFill,
     AfterCompletion, Steps
<1>2. /\ draft[w] \in Receipts /\ draft[w].schema = 2 /\ draft[w].totals = audited[w]
      /\ resultSet = draft[w].set /\ rows /\ completion = audited[w] /\ draft[w] # Absent
  BY <1>1, DraftFact
<1>3. receipt' # Absent /\ Kept(w) /\ (UpgradePending' => UpgradePending) /\ ChainAgrees'
  BY <1>1, <1>2, <1>t DEF Kept, UpgradePending, ChainAgrees
<1>4. Others(w) /\ Fits(w)'
  <2>1. CASE SameReceipt(receipt', draft[w])
    <3>1. ~ReceiptUpgrade(receipt', draft[w])
      BY <2>1 DEF SameReceipt, ReceiptUpgrade
    <3>2. Goto(w, "readBack") /\ UNCHANGED memory
      BY <2>1, <3>1 DEF EnsureReceipt
    <3>3. Others(w) /\ Moved(w, "readBack")
      BY <3>2, <1>t, GotoEffect DEF Steps
    <3> QED
      BY <2>1, <3>3 DEF Moved, Fits, CitedFits, UpgradeFits, AfterMarker, AfterCite, SameReceipt,
         SameClaims
  <2>2. CASE ReceiptUpgrade(receipt', draft[w])
    <3>1. ~SameReceipt(receipt', draft[w])
      BY <2>2 DEF SameReceipt, ReceiptUpgrade
    <3>2. Goto(w, "archiveReceipt") /\ UNCHANGED memory
      BY <2>2, <3>1 DEF EnsureReceipt
    <3>3. Others(w) /\ Moved(w, "archiveReceipt")
      BY <3>2, <1>t, GotoEffect DEF Steps
    <3>4. UpgradePending'
      BY <2>2, <1>3 DEF ReceiptUpgrade, ChainAgrees
    <3> QED
      BY <2>2, <3>3, <3>4 DEF Moved, Fits, CitedFits, UpgradeFits, AfterMarker, AfterCite,
         ReceiptUpgrade, SameClaims
  <2>3. CASE ~SameReceipt(receipt', draft[w]) /\ ~ReceiptUpgrade(receipt', draft[w])
    <3>1. End(w, "error")
      BY <2>3 DEF EnsureReceipt
    <3>2. Others(w) /\ Ended(w)
      BY <3>1, <1>t, EndEffect DEF Answers
    <3> QED
      BY <3>2 DEF Ended, Fits, CitedFits, UpgradeFits, AfterMarker, AfterCite
  <2> QED
    BY <2>1, <2>2, <2>3
<1>5. Faithful(copy)' /\ Faithful(committed)'
  BY <1>1, <1>t DEF Faithful, Whole, tree
<1> QED
  BY <1>1, <1>3, <1>4, <1>5, StepAssembles

\* Nothing changes in the chain but what is kept.
LEMMA ChainArchive ==
  ASSUME BaseInv, ChainInv, NEW w \in Finalizers, ArchiveReceipt(w) \/ ArchiveMarker(w)
  PROVE  ChainInv'
<1>t. TypeOK /\ Fits(w)
  BY DEF ChainInv, BaseInv
<1>1. PICK step \in {"replaceReceipt", "replaceMarker"} :
        /\ \/ step = "replaceReceipt" /\ pc[w] = "archiveReceipt"
           \/ step = "replaceMarker" /\ pc[w] = "archiveMarker"
        /\ Goto(w, step) /\ UNCHANGED memory
        /\ UNCHANGED <<resultSet, rows, completion, receipt, marker, tree>>
  BY DEF ArchiveReceipt, ArchiveMarker
<1>2. Others(w) /\ Moved(w, step)
  BY <1>1, <1>t, GotoEffect DEF Steps
<1>3. Fits(w)'
  BY <1>1, <1>2, <1>t DEF Moved, Fits, CitedFits, UpgradeFits, AfterMarker, AfterCite,
     UpgradePending, ReceiptUpgrade, MarkerUpgrade, SameClaims
<1>4. Kept(w) /\ (UpgradePending' => UpgradePending) /\ ChainAgrees'
      /\ Faithful(copy)' /\ Faithful(committed)'
  BY <1>1 DEF ChainInv, Kept, UpgradePending, ChainAgrees, Faithful, Whole, tree
<1> QED
  BY <1>1, <1>2, <1>3, <1>4, StepAssembles

\* Who upgrades is alone.
LEMMA UpgraderIsSole ==
  ASSUME ChainInv, NEW w \in Finalizers, UpgradePending, pc[w] # "idle" PROVE Sole(w)
BY DEF ChainInv, UpgradeIsAlone, Sole

LEMMA ChainReplaceReceipt ==
  ASSUME BaseInv, ChainInv, NEW w \in Finalizers, ReplaceReceipt(w) PROVE ChainInv'
<1>t. TypeOK /\ Fits(w) /\ ChainAgrees /\ Faithful(copy) /\ Faithful(committed)
  BY DEF ChainInv, BaseInv
<1>1. /\ pc[w] = "replaceReceipt" /\ pc[w] \in AfterCompletion /\ receipt' = draft[w]
      /\ Goto(w, "readBack") /\ UNCHANGED memory
      /\ UNCHANGED <<input, resultSet, rows, completion, marker, history, tree>>
  BY DEF ReplaceReceipt, PastAudit, PastValidate, AfterBuild, AfterClaim, AfterFill,
     AfterCompletion, Steps
<1>2. Others(w) /\ Moved(w, "readBack")
  BY <1>1, <1>t, GotoEffect DEF Steps
<1>3. /\ draft[w] \in Receipts /\ draft[w].schema = 2 /\ draft[w].totals = audited[w]
      /\ resultSet = draft[w].set /\ rows /\ completion = audited[w] /\ draft[w] # Absent
  BY <1>1, DraftFact
<1>4. UpgradePending /\ Sole(w)
  BY <1>1, <1>t, UpgraderIsSole DEF Fits, UpgradeFits
<1>5. Kept(w) /\ (UpgradePending' => UpgradePending) /\ ChainAgrees'
  BY <1>1, <1>3, <1>4, <1>t DEF Kept, ChainAgrees, UpgradePending
<1>6. Fits(w)'
  BY <1>1, <1>2, <1>3 DEF Moved, Fits, CitedFits, UpgradeFits, AfterMarker, AfterCite,
     SameReceipt, SameClaims
<1>7. Faithful(copy)' /\ Faithful(committed)'
  BY <1>1, <1>t DEF Faithful, Whole, tree
<1> QED
  BY <1>1, <1>2, <1>5, <1>6, <1>7, StepAssembles

\* A step that writes no file.
LEMMA QuietChain ==
  ASSUME BaseInv, ChainInv, NEW w \in Finalizers, pc[w] # "idle", Others(w), Fits(w)',
         UNCHANGED <<chain, tree>>
  PROVE  ChainInv'
<1>1. Kept(w) /\ (UpgradePending' => UpgradePending) /\ ChainAgrees'
      /\ Faithful(copy)' /\ Faithful(committed)'
  BY DEF ChainInv, Kept, UpgradePending, ChainAgrees, Faithful, Whole, chain, tree
<1> QED
  BY <1>1, StepAssembles

LEMMA ChainReadBack ==
  ASSUME BaseInv, ChainInv, NEW w \in Finalizers, ReadBack(w) PROVE ChainInv'
<1>t. TypeOK /\ Fits(w) /\ pc[w] = "readBack" /\ UNCHANGED <<chain, tree>>
  BY DEF ChainInv, BaseInv, ReadBack
<1>1. CASE End(w, "error")
  BY <1>1, <1>t, EndedChain DEF Answers
<1>2. CASE /\ cited' = [cited EXCEPT ![w] = Cite(w, receipt)] /\ Goto(w, "marker")
           /\ UNCHANGED <<commit, audited, validated, draft>>
  <2> DEFINE mine == Cite(w, receipt)
  <2>1. mine.receipt = receipt
    BY DEF Cite
  <2>2. cited' = [cited EXCEPT ![w] = mine]
    BY <1>2
  <2> HIDE DEF mine
  <2>3. pc'[w] = "marker" /\ cited'[w] = mine /\ Others(w)
    BY <1>2, <2>2, <1>t DEF Goto, TypeOK, Others
  <2>4. receipt' = receipt /\ receipt.schema = 2
    <3>1. draft[w].schema = 2
      BY <1>t, DraftFact DEF PastAudit, PastValidate, AfterBuild, AfterClaim, AfterFill,
         AfterCompletion, Steps
    <3> QED
      BY <3>1, <1>t DEF Fits, CitedFits, SameReceipt, chain
  <2>5. Fits(w)'
    BY <2>1, <2>3, <2>4 DEF Fits, CitedFits, UpgradeFits, AfterMarker, AfterCite
  <2> QED
    BY <2>3, <2>5, <1>t, QuietChain
<1> QED
  BY <1>1, <1>2 DEF ReadBack

\* A marker that is written, over nothing or over an earlier one, or found.
LEMMA ChainMarkerWritten ==
  ASSUME BaseInv, ChainInv, NEW w \in Finalizers, pc[w] \in AfterCite,
         Others(w), Moved(w, "inspect"),
         marker' = cited[w], marker = Absent \/ UpgradePending \/ marker' = marker,
         UNCHANGED <<resultSet, rows, completion, receipt, history, tree>>
  PROVE  ChainInv'
<1>t. TypeOK /\ Fits(w) /\ ChainAgrees /\ Faithful(copy) /\ Faithful(committed)
  BY DEF ChainInv, BaseInv
<1>1. /\ pc[w] \in AfterCompletion /\ cited[w] # Absent /\ cited[w].schema = 3
      /\ SameClaims(cited[w], draft[w]) /\ SameClaims(cited[w].receipt, draft[w])
      /\ cited[w].receipt \in Receipts
  BY CitedFact
<1>2. /\ resultSet = cited[w].set /\ completion = cited[w].totals /\ rows
      /\ receipt = cited[w].receipt /\ receipt.schema = 2 /\ receipt # Absent
      /\ resultSet = receipt.set /\ completion = receipt.totals
  BY <1>1, <1>t, DraftFact, AbsentAssumption DEF SameClaims, Fits, CitedFits
<1>3. pc[w] # "idle"
  BY DEF AfterCite, AfterMarker
<1>4. Kept(w)
  BY <1>3, UpgraderIsSole DEF Kept
<1>5. ~UpgradePending' /\ ChainAgrees'
  BY <1>1, <1>2 DEF ChainAgrees, UpgradePending
<1>6. Fits(w)'
  BY <1>2 DEF Moved, Fits, CitedFits, UpgradeFits, AfterCite, AfterMarker
<1>7. Faithful(copy)' /\ Faithful(committed)'
  BY <1>t DEF Faithful, Whole, tree, UpgradePending
<1> QED
  BY <1>3, <1>4, <1>5, <1>6, <1>7, StepAssembles

LEMMA ChainMarker ==
  ASSUME BaseInv, ChainInv, NEW w \in Finalizers, EnsureMarker(w) \/ ReplaceMarker(w)
  PROVE  ChainInv'
<1>t. TypeOK /\ Fits(w)
  BY DEF ChainInv, BaseInv
<1>1. CASE ReplaceMarker(w)
  <2>1. /\ pc[w] = "replaceMarker" /\ marker' = cited[w]
        /\ Goto(w, "inspect") /\ UNCHANGED memory
        /\ UNCHANGED <<input, resultSet, rows, completion, receipt, history, tree>>
    BY <1>1 DEF ReplaceMarker
  <2>2. Others(w) /\ Moved(w, "inspect")
    BY <2>1, <1>t, GotoEffect DEF Steps
  <2>3. UpgradePending /\ pc[w] \in AfterCite
    BY <2>1, <1>t DEF Fits, UpgradeFits, AfterCite
  <2> QED
    BY <2>1, <2>2, <2>3, ChainMarkerWritten
<1>2. CASE EnsureMarker(w)
  <2>1. /\ pc[w] = "marker" /\ pc[w] \in AfterCite
        /\ marker' = IF marker = Absent THEN cited[w] ELSE marker
        /\ UNCHANGED <<input, resultSet, rows, completion, receipt, history, tree>>
    BY <1>2 DEF EnsureMarker, AfterCite
  <2>2. CASE marker' = cited[w]
    <3>1. Goto(w, "inspect") /\ UNCHANGED memory
      BY <1>2, <2>2 DEF EnsureMarker
    <3>2. Others(w) /\ Moved(w, "inspect")
      BY <3>1, <1>t, GotoEffect DEF Steps
    <3> QED
      BY <2>1, <2>2, <3>2, ChainMarkerWritten
  <2>3. CASE marker' # cited[w]
    <3>1. marker # Absent /\ marker' = marker /\ UNCHANGED <<chain, tree>>
      BY <2>1, <2>3 DEF chain
    <3>2. CASE MarkerUpgrade(marker', cited[w])
      <4>1. Goto(w, "archiveMarker") /\ UNCHANGED memory
        BY <1>2, <2>3, <3>2 DEF EnsureMarker
      <4>2. Others(w) /\ Moved(w, "archiveMarker")
        BY <4>1, <1>t, GotoEffect DEF Steps
      <4>3. Fits(w)'
        BY <2>1, <3>1, <3>2, <4>2, <1>t DEF Moved, Fits, CitedFits, UpgradeFits, UpgradePending,
           MarkerUpgrade, SameClaims, AfterMarker, AfterCite
      <4> QED
        BY <2>1, <3>1, <4>2, <4>3, QuietChain
    <3>3. CASE ~MarkerUpgrade(marker', cited[w])
      <4>1. End(w, "error")
        BY <1>2, <2>3, <3>3 DEF EnsureMarker
      <4> QED
        BY <2>1, <3>1, <4>1, EndedChain DEF Answers
    <3> QED
      BY <3>2, <3>3
  <2> QED
    BY <2>2, <2>3
<1> QED
  BY <1>1, <1>2

LEMMA ChainInspect ==
  ASSUME BaseInv, ChainInv, NEW w \in Finalizers, Inspect(w) PROVE ChainInv'
<1>t. TypeOK /\ Fits(w) /\ pc[w] = "inspect" /\ UNCHANGED <<chain, tree>>
  BY DEF ChainInv, BaseInv, Inspect
<1>1. Others(w) /\ (Moved(w, "copy") \/ Ended(w))
  BY <1>t, RequireEffect DEF Inspect, Steps
<1>2. Fits(w)'
  BY <1>1, <1>t DEF Moved, Ended, Fits, CitedFits, UpgradeFits, AfterMarker, AfterCite, chain
<1> QED
  BY <1>1, <1>2, <1>t, QuietChain

\* Whatever is written into the evidence copy is the marked receipt.
LEMMA ChainCopy ==
  ASSUME BaseInv, ChainInv, NEW w \in Finalizers, WriteCopy(w) \/ CopyBytes(w) PROVE ChainInv'
<1>t. TypeOK /\ Fits(w) /\ Faithful(copy) /\ Faithful(committed)
  BY DEF ChainInv, BaseInv
<1>1. pc[w] \in {"copy", "copyBytes"} /\ pc[w] \in AfterCite
      /\ UNCHANGED <<chain, head, committed>>
  BY DEF WriteCopy, CopyBytes, AfterCite, AfterMarker
<1>2. cited[w] # Absent /\ cited[w].schema = 3 /\ marker = cited[w]
  BY <1>1, <1>t, CitedFact DEF Fits, CitedFits, AfterMarker
<1>3. /\ copy' \in {copy, Truncated, cited[w].receipt}
      /\ \/ Goto(w, "copyBytes") /\ UNCHANGED memory
         \/ \E what \in Answers : End(w, what)
  BY DEF WriteCopy, CopyBytes, Answers
<1>4. Others(w) /\ (Moved(w, "copyBytes") \/ Ended(w))
  BY <1>3, <1>t, GotoEffect, EndEffect DEF Steps
<1>5. Fits(w)'
  BY <1>1, <1>4, <1>t DEF Moved, Ended, Fits, CitedFits, UpgradeFits, AfterMarker, AfterCite, chain
<1>6. Kept(w) /\ (UpgradePending' => UpgradePending) /\ ChainAgrees'
  BY <1>1 DEF ChainInv, Kept, ChainAgrees, UpgradePending, chain
<1>7. Faithful(copy)' /\ Faithful(committed)'
  BY <1>1, <1>2, <1>3, <1>t DEF Faithful, Whole, chain
<1> QED
  BY <1>1, <1>4, <1>5, <1>6, <1>7, StepAssembles

LEMMA ChainEnvironment == ASSUME ChainInv, Commit \/ Discard \/ Tamper PROVE ChainInv'
<1>1. UNCHANGED <<chain, pc, memory>> /\ {copy', committed'} \subseteq {copy, committed}
  BY DEF Commit, Discard, Tamper, tree
<1>2. \A w \in Finalizers : Fits(w)'
  BY <1>1 DEF ChainInv, Fits, CitedFits, UpgradeFits, SameReceipt, ReceiptUpgrade,
     MarkerUpgrade, SameClaims, UpgradePending, chain, memory
<1>3. UpgradeIsAlone' /\ ChainAgrees'
  BY <1>1 DEF ChainInv, UpgradeIsAlone, ChainAgrees, UpgradePending, chain
<1>4. Faithful(copy)' /\ Faithful(committed)'
  BY <1>1 DEF ChainInv, Faithful, Whole, chain
<1> QED
  BY <1>2, <1>3, <1>4 DEF ChainInv

LEMMA ChainStep == ASSUME BaseInv, ChainInv, [Next]_vars, ~beside' PROVE ChainInv'
<1>1. CASE UNCHANGED vars
  <2>1. UNCHANGED <<resultSet, rows, completion, receipt, marker, copy, committed, pc, draft,
                    cited>>
    BY <1>1 DEF vars, chain, tree, memory
  <2> QED
    BY <2>1 DEF ChainInv, Fits, CitedFits, UpgradeFits, UpgradeIsAlone, ChainAgrees, Faithful,
       Whole, UpgradePending, SameReceipt, ReceiptUpgrade, MarkerUpgrade, SameClaims
<1>2. ASSUME NEW w \in Finalizers, Crash(w) PROVE ChainInv'
  BY <1>2, EndedChain DEF Crash, Answers
<1>3. CASE Next
  BY <1>2, <1>3, ChainBegin, ChainEarly, ChainReceipt, ChainArchive, ChainReplaceReceipt,
     ChainReadBack, ChainMarker, ChainInspect, ChainCopy, ChainEnvironment
  DEF Next, Step
<1> QED
  BY <1>1, <1>3

\* Once two finalizers have met over a marker to be upgraded, they stay so.
LEMMA ChainInvariance == Spec => [](BaseInv /\ (beside \/ ChainInv))
<1>1. Init => BaseInv /\ (beside \/ ChainInv)
  BY BaseInit, ChainInit
<1>2. BaseInv /\ (beside \/ ChainInv) /\ [Next]_vars => BaseInv' /\ (beside \/ ChainInv)'
  <2> SUFFICES ASSUME BaseInv, beside \/ ChainInv, [Next]_vars
               PROVE  BaseInv' /\ (beside' \/ ChainInv')
    OBVIOUS
  <2>1. beside => beside'
    <3>1. ASSUME NEW w \in Finalizers, Begin(w) PROVE beside => beside'
      BY <3>1 DEF Begin
    <3> QED
      BY <3>1 DEF Next, vars
  <2> QED
    BY <2>1, BaseStep, ChainStep
<1> QED
  BY <1>1, <1>2, PTL DEF Spec

-----------------------------------------------------------------------------
(* The theorems.                                                           *)

\* A current marker stands over the result set, completion and receipt that it
\* cites, all of them whole, whatever crashed, raced or was rewritten.
THEOREM MarkerIsAuthoritative == Spec => []MarkerCitesTheChain
<1>1. BaseInv /\ (beside \/ ChainInv) => MarkerCitesTheChain
  BY DEF ChainInv, ChainAgrees, MarkerCitesTheChain
<1> QED
  BY <1>1, ChainInvariance, PTL

\* What finalize copies into the repository is the receipt the marker froze, and
\* its totals are those of the results it names, over three reads of which one
\* may differ.
THEOREM ExportsAreTrue == Spec => []ExportIsTrue
<1>1. BaseInv /\ (beside \/ ChainInv) => ExportIsTrue
  BY DEF BaseInv, CopiesAreTrue, IsTrue, ChainInv, Faithful, ExportIsTrue,
     CopyIsTheMarkedReceipt, CopiedTotalsAreTheSets
<1> QED
  BY <1>1, ChainInvariance, PTL

\* No crash, race or retry of finalizers leaves a run that inspection calls
\* INVALID, but for two publications that are half-way.
THEOREM DamageIsOnlyUnfinished == Spec => []InvalidIsUnfinished
<1>1. BaseInv /\ (beside \/ ChainInv) => InvalidIsUnfinished
  <2> SUFFICES ASSUME BaseInv, ChainInv, changes = 0, Invalid(Validation)
               PROVE  \/ resultSet # Absent /\ ~rows
                      \/ UpgradePending /\ receipt.schema = 2
    BY Invalidity DEF InvalidIsUnfinished, Status
  <2>t. TypeOK /\ ChainAgrees /\ DiskIsOfTheRun
    BY DEF ChainInv, BaseInv
  <2>1. bundle /\ raw \in Evidence /\ raw # Broken /\ Validation = Counts[raw]
        /\ (resultSet # Absent => resultSet = raw)
        /\ (completion # Absent => completion = AuditOf(raw))
    BY <2>t, AbsentAssumption DEF DiskIsOfTheRun, Validation
  <2>2. completion # Absent => AuditIs(completion)
    BY <2>1 DEF AuditIs
  <2>3. receipt # Absent => ReceiptHolds(Validation)
    BY <2>1, <2>t DEF ReceiptHolds, ChainAgrees, DiskIsOfTheRun, IsOfTheRun, AuditIs
  <2>4. CASE marker # Absent /\ ~MarkerHolds(Validation)
    <3>1. marker.schema \in {1, 3}
      BY <2>4, <2>t DEF TypeOK, Markers
    <3>2. receipt # marker.receipt
      BY <2>4, <2>1, <2>t DEF MarkerHolds, ChainAgrees, DiskIsOfTheRun, IsOfTheRun, AuditIs
    <3>3. receipt \in Receipts /\ marker.schema = 1 /\ receipt.schema # 1
      BY <2>4, <2>t, <3>1, <3>2 DEF TypeOK, ChainAgrees
    <3> QED
      BY <2>4, <3>3 DEF UpgradePending, Receipts
  <2> QED
    BY <2>1, <2>2, <2>3, <2>4 DEF Invalid, Issues, SetHolds
<1> QED
  BY <1>1, ChainInvariance, PTL

\* A finalization that returns was run at the commit the stored marker names.
THEOREM VerifierIsNamed == Spec => VerifierIsAttested
<1> DEFINE Attested ==
      \A w \in Finalizers :
        ~beside /\ told'[w] = "ready" /\ told[w] # "ready" => marker.commit = commit[w]
<1>1. BaseInv /\ (beside \/ ChainInv) /\ [Next]_vars => [Attested]_vars
  <2> SUFFICES ASSUME BaseInv, ChainInv, Next, NEW w \in Finalizers,
                      told'[w] = "ready", told[w] # "ready"
               PROVE  marker.commit = commit[w]
    OBVIOUS
  <2>t. TypeOK
    BY DEF BaseInv
  <2>1. WriteCopy(w) \/ CopyBytes(w)
    <3>1. told' # told
      OBVIOUS
    <3>2. PICK v \in Finalizers : Begin(v) \/ Step(v) \/ Crash(v)
      BY <3>1 DEF Next, Commit, Discard, Tamper
    <3>3. ASSUME NEW c, NEW step \in Steps, Require(v, c, step) PROVE FALSE
      BY <3>3, <2>t, RequireEffect DEF Moved, Others
    <3>4. ASSUME NEW step, Goto(v, step) PROVE FALSE
      BY <3>4 DEF Goto
    <3>5. ASSUME NEW what \in Answers, End(v, what) PROVE v = w /\ what = "ready"
      BY <3>5, <2>t, EndEffect DEF Others
    <3>6. ~Begin(v) /\ ~Audit(v) /\ ~Validate(v) /\ ~Build(v) /\ ~ReadBack(v) /\ ~Crash(v)
      BY <3>4, <3>5 DEF Begin, Audit, Validate, Build, ReadBack, Crash, Answers
    <3>7. ~ClaimSet(v) /\ ~FillSet(v) /\ ~EnsureCompletion(v) /\ ~Inspect(v)
      BY <3>3, <3>4, <3>5 DEF ClaimSet, FillSet, EnsureCompletion, Inspect, Ensure, Steps, Answers
    <3>8. ~EnsureReceipt(v) /\ ~EnsureMarker(v)
      BY <3>4, <3>5, Zenon DEF EnsureReceipt, EnsureMarker, Answers
    <3>9. ~ArchiveReceipt(v) /\ ~ReplaceReceipt(v) /\ ~ArchiveMarker(v) /\ ~ReplaceMarker(v)
      BY <3>4 DEF ArchiveReceipt, ReplaceReceipt, ArchiveMarker, ReplaceMarker
    <3>10. WriteCopy(v) \/ CopyBytes(v)
      BY <3>2, <3>6, <3>7, <3>8, <3>9 DEF Step
    <3>11. v = w
      BY <3>4, <3>5, <3>10 DEF WriteCopy, CopyBytes, Answers
    <3> QED
      BY <3>10, <3>11
  <2>2. pc[w] \in AfterMarker /\ pc[w] \in AfterCite
    BY <2>1 DEF WriteCopy, CopyBytes, AfterMarker, AfterCite
  <2>3. marker = cited[w] /\ cited[w].commit = commit[w]
    BY <2>2, CitedFact DEF ChainInv, Fits, CitedFits
  <2> QED
    BY <2>3
<1> QED
  BY <1>1, ChainInvariance, PTL DEF Spec, VerifierIsAttested

\* What an upgrade replaces of an earlier release is in publication-history/ before
\* it is replaced, even when two finalizers upgrade it side by side and the second
\* replaces what the first has written.
THEOREM NothingIsLost == Spec => HistoryIsKept
<1> DEFINE Archived ==
      /\ receipt' # receipt /\ receipt # Absent /\ receipt.schema = 1 => receipt \in history
      /\ marker' # marker /\ marker # Absent /\ marker.schema = 1 => marker \in history
<1>1. BaseInv /\ [Next]_vars => [Archived]_vars
  <2> SUFFICES ASSUME BaseInv, Next PROVE Archived
    OBVIOUS
  <2>1. CASE Commit \/ Discard \/ Tamper
    BY <2>1 DEF Commit, Discard, Tamper, chain
  <2>2. ASSUME NEW w \in Finalizers, Begin(w) \/ Step(w) \/ Crash(w) PROVE Archived
    <3>1. CASE ReplaceReceipt(w)
      BY <3>1 DEF ReplaceReceipt, BaseInv, Keeps
    <3>2. CASE ReplaceMarker(w)
      BY <3>2 DEF ReplaceMarker, BaseInv, Keeps
    <3>3. CASE EnsureReceipt(w) \/ EnsureMarker(w)
      BY <3>3 DEF EnsureReceipt, EnsureMarker
    <3>4. CASE \/ Begin(w) \/ Audit(w) \/ Validate(w) \/ Build(w) \/ ClaimSet(w) \/ FillSet(w)
               \/ EnsureCompletion(w) \/ ArchiveReceipt(w) \/ ReadBack(w) \/ ArchiveMarker(w)
               \/ Inspect(w) \/ WriteCopy(w) \/ CopyBytes(w) \/ Crash(w)
      BY <3>4 DEF Begin, Audit, Validate, Build, ClaimSet, FillSet, EnsureCompletion,
         ArchiveReceipt, ReadBack, ArchiveMarker, Inspect, WriteCopy, CopyBytes, Crash, chain
    <3> QED
      BY <2>2, <3>1, <3>2, <3>3, <3>4 DEF Step
  <2> QED
    BY <2>1, <2>2 DEF Next
<1> QED
  BY <1>1, BaseInvariance, PTL DEF Spec, HistoryIsKept

\* While no two finalizers have met over a marker to be upgraded, nobody replaces
\* the receipt of a current marker, as only an upgrade replaces a receipt and it
\* ends with the marker.  Without that MarkedReceiptIsFrozen fails.
THEOREM ReceiptIsFrozen ==
  Spec => [][~beside /\ marker # Absent /\ marker.schema = 3 => receipt' = receipt]_vars
<1>1. BaseInv /\ (beside \/ ChainInv) /\ [Next]_vars
        => [~beside /\ marker # Absent /\ marker.schema = 3 => receipt' = receipt]_vars
  <2> SUFFICES ASSUME ChainInv, Next, marker # Absent, marker.schema = 3
               PROVE  receipt' = receipt
    OBVIOUS
  <2>1. receipt # Absent /\ ~UpgradePending
    BY DEF ChainInv, ChainAgrees, UpgradePending
  <2>2. CASE Commit \/ Discard \/ Tamper
    BY <2>2 DEF Commit, Discard, Tamper, chain
  <2>3. ASSUME NEW w \in Finalizers, Begin(w) \/ Step(w) \/ Crash(w)
        PROVE  receipt' = receipt
    <3>1. ~ReplaceReceipt(w)
      BY <2>1 DEF ReplaceReceipt, ChainInv, Fits, UpgradeFits
    <3>2. CASE EnsureReceipt(w)
      BY <2>1, <3>2 DEF EnsureReceipt
    <3>3. CASE \/ Begin(w) \/ Audit(w) \/ Validate(w) \/ Build(w) \/ ClaimSet(w) \/ FillSet(w)
               \/ EnsureCompletion(w) \/ ArchiveReceipt(w) \/ ReadBack(w) \/ EnsureMarker(w)
               \/ ArchiveMarker(w) \/ ReplaceMarker(w) \/ Inspect(w) \/ WriteCopy(w)
               \/ CopyBytes(w) \/ Crash(w)
      BY <3>3 DEF Begin, Audit, Validate, Build, ClaimSet, FillSet, EnsureCompletion,
         ArchiveReceipt, ReadBack, EnsureMarker, ArchiveMarker, ReplaceMarker, Inspect, WriteCopy,
         CopyBytes, Crash, chain
    <3> QED
      BY <2>3, <3>1, <3>2, <3>3 DEF Step
  <2> QED
    BY <2>2, <2>3 DEF Next
<1> QED
  BY <1>1, ChainInvariance, PTL DEF Spec
=============================================================================
