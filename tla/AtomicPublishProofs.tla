------------------------- MODULE AtomicPublishProofs ------------------------
(***************************************************************************)
(* Proofs about AtomicPublish for every set of writers, every set of       *)
(* contents and every bound on the claim loop.                             *)
(***************************************************************************)
EXTENDS AtomicPublish, TLAPS

\* publish_file keeps its state well typed: the target is absent or whole,
\* the sentinel is owned by a call, the loop counter stays in its range.
THEOREM TypeCorrect == FileSpec => []FileTypeOK
<1>1. FileInit => FileTypeOK
  BY AttemptsAssumption DEF FileInit, FileTypeOK, FileSteps, Answers
<1>2. FileTypeOK /\ [FileNext]_fileVars => FileTypeOK'
  <2> SUFFICES ASSUME FileTypeOK, [FileNext]_fileVars PROVE FileTypeOK'
    OBVIOUS
  <2> USE AttemptsAssumption DEF FileTypeOK, FileSteps, Answers, FileGoto, Decide, Remember
  <2>1. ASSUME NEW w \in Publishers, Produce(w) \/ ProducerFails(w) \/ Tidy(w) \/ TidyFails(w),
               Remember
        PROVE  FileTypeOK'
    BY <2>1 DEF Produce, ProducerFails, Tidy, TidyFails
  <2>2. ASSUME NEW w \in Publishers,
               LinkCreates(w) \/ LinkFindsTarget(w) \/ LinkUnavailable(w), Remember
        PROVE  FileTypeOK'
    BY <2>2 DEF LinkCreates, LinkFindsTarget, LinkUnavailable
  <2>3. ASSUME NEW w \in Publishers,
               TakeClaim(w) \/ ClaimRefused(w) \/ ClaimsExhausted(w), Remember
        PROVE  FileTypeOK'
    BY <2>3 DEF TakeClaim, ClaimRefused, ClaimsExhausted, BeginRound
  <2>4. ASSUME NEW w \in Publishers,
               AwaitLooksAtTarget(w) \/ AwaitLooksAtClaim(w) \/ AwaitTimesOut(w), Remember
        PROVE  FileTypeOK'
    BY <2>4 DEF AwaitLooksAtTarget, AwaitLooksAtClaim, AwaitTimesOut
  <2>5. ASSUME NEW w \in Publishers,
               LookUnderClaim(w) \/ Swap(w) \/ SwapFails(w) \/ Release(w), Remember
        PROVE  FileTypeOK'
    BY <2>5 DEF LookUnderClaim, Swap, SwapFails, Release
  <2>6. ASSUME NEW w \in Publishers, Compare(w) \/ CompareTimesOut(w), Remember PROVE FileTypeOK'
    BY <2>6 DEF Compare, CompareTimesOut
  <2>9. ASSUME NEW w \in Publishers, Crash(w) PROVE FileTypeOK'
    BY <2>9 DEF Crash
  <2>7. CASE OperatorRemovesClaim
    BY <2>7 DEF OperatorRemovesClaim
  <2>8. CASE UNCHANGED fileVars
    BY <2>8 DEF fileVars
  <2> QED
    BY <2>1, <2>2, <2>3, <2>4, <2>5, <2>6, <2>7, <2>8, <2>9 DEF FileNext, FileStep
<1> QED
  BY <1>1, <1>2, PTL DEF FileSpec

-----------------------------------------------------------------------------
(***************************************************************************)
(* The inductive invariant.  With hard links nobody reaches the sentinel.  *)
(* Without them the sentinel is a lock, and a writer about to rename knows *)
(* the target is still absent because only the lock's holder creates it.   *)
(***************************************************************************)
OneMechanism ==
  \/ linkers = Publishers /\ \A w \in Publishers :
       fileAt[w] \in {"produce", "reserve", "compare", "tidy", "done", "crashed"}
  \/ linkers = {}

\* A holder that gives the name back without an answer saw a target.
ReleaseIsExplained ==
  \A w \in Publishers : fileAt[w] = "release" /\ answer[w] = "none" => target # NoFile

RenameIsSafe == \A w \in Publishers : fileAt[w] = "swap" => target = NoFile

\* A call has an answer only when it has nothing left to decide.
DecidedLate ==
  \A w \in Publishers :
    answer[w] # "none" => fileAt[w] \in {"release", "tidy", "done", "crashed"}

\* Who compared has its answer.
ComparedLate == \A w \in compared : fileAt[w] \in {"tidy", "done", "crashed"}

Inv ==
  /\ FileTypeOK
  /\ OneMechanism
  /\ ClaimIsExclusive
  /\ RenameIsSafe
  /\ ReleaseIsExplained
  /\ DecidedLate
  /\ ComparedLate
  /\ LosersHaveAWinner
  /\ AnswersAgreeWithDisk

LEMMA InitInv == UniformLinks /\ FileInit => Inv
BY AttemptsAssumption DEF UniformLinks, FileInit, Inv, FileTypeOK, FileSteps, Answers,
   OneMechanism, ClaimIsExclusive, Holding, RenameIsSafe, ReleaseIsExplained, DecidedLate,
   ComparedLate, LosersHaveAWinner, AnswersAgreeWithDisk

\* Every step keeps the invariant, writes the target at most once and is a
\* step of the register.
LEMMA StepInv ==
  ASSUME Inv, FileTypeOK', [FileNext]_fileVars
  PROVE  /\ Inv'
         /\ target # NoFile => target' = target
         /\ [FileRegister!Next]_(FileRegister!vars)
<1> DEFINE Goal == /\ Inv'
                   /\ target # NoFile => target' = target
                   /\ [FileRegister!Next]_(FileRegister!vars)
<1> USE NoFileAssumption, NobodyAssumption
    DEF Inv, FileTypeOK, FileSteps, Answers, Holding, OneMechanism, ClaimIsExclusive,
        RenameIsSafe, ReleaseIsExplained, DecidedLate, ComparedLate,
        LosersHaveAWinner, AnswersAgreeWithDisk, Remember, FileGoto, Decide, FileRegister!Next, FileRegister!vars, FileRegister!Create,
        FileRegister!Match, FileRegister!Refuse, FileRegister!GiveUp, FileRegister!Answer,
        FileRegister!Withhold
<1>1. ASSUME NEW w \in Publishers, Produce(w) \/ ProducerFails(w) \/ Tidy(w), Remember PROVE Goal
  BY <1>1 DEF Produce, ProducerFails, Tidy
<1>13. ASSUME NEW w \in Publishers, TidyFails(w), Remember PROVE Goal
  <2>1. FileRegister!Withhold(w) /\ compared' = compared
    BY <1>13 DEF TidyFails
  <2>2. OneMechanism' /\ ClaimIsExclusive' /\ RenameIsSafe' /\ DecidedLate'
        /\ ReleaseIsExplained' /\ ComparedLate'
    BY <2>1, <1>13 DEF TidyFails
  <2>3. LosersHaveAWinner' /\ AnswersAgreeWithDisk' /\ target' = target
    BY <2>1, <1>13 DEF TidyFails
  <2> QED
    BY <2>1, <2>2, <2>3, <1>13
<1>2. ASSUME NEW w \in Publishers,
             LinkCreates(w) \/ LinkFindsTarget(w) \/ LinkUnavailable(w), Remember
      PROVE  Goal
  BY <1>2 DEF LinkCreates, LinkFindsTarget, LinkUnavailable
<1>3. ASSUME NEW w \in Publishers,
             TakeClaim(w) \/ ClaimRefused(w) \/ ClaimsExhausted(w), Remember
      PROVE  Goal
  BY <1>3 DEF TakeClaim, ClaimRefused, ClaimsExhausted, BeginRound
<1>4. ASSUME NEW w \in Publishers,
             AwaitLooksAtTarget(w) \/ AwaitLooksAtClaim(w) \/ AwaitTimesOut(w), Remember
      PROVE  Goal
  BY <1>4 DEF AwaitLooksAtTarget, AwaitLooksAtClaim, AwaitTimesOut
<1>5. ASSUME NEW w \in Publishers, LookUnderClaim(w), Remember PROVE Goal
  BY <1>5 DEF LookUnderClaim
<1>6. ASSUME NEW w \in Publishers, Swap(w), Remember PROVE Goal
  <2>1. /\ target = NoFile
        /\ claim = w
        /\ answer[w] = "none"
    BY <1>6 DEF Swap
  <2>2. /\ target' = mine[w]
        /\ mine[w] # NoFile
        /\ \A v \in Publishers \ {w} :
             /\ answer[v] \notin {"published", "identical"}
             /\ answer[v] = "conflict" => v \notin compared
    BY <2>1, <1>6 DEF Swap
  <2>3. FileRegister!Create(w)
    BY <2>1, <1>6 DEF Swap
  <2>4. \A v \in Publishers \ {w} : fileAt[v] \notin Holding /\ fileAt'[v] = fileAt[v]
    BY <2>1, <1>6 DEF Swap
  <2>5. OneMechanism' /\ ClaimIsExclusive' /\ RenameIsSafe' /\ DecidedLate'
        /\ ReleaseIsExplained' /\ ComparedLate'
    BY <2>1, <2>2, <2>4, <1>6 DEF Swap
  <2>6. LosersHaveAWinner' /\ AnswersAgreeWithDisk'
    BY <2>1, <2>2, <2>4, <1>6 DEF Swap
  <2> QED
    BY <2>1, <2>3, <2>5, <2>6
<1>7. ASSUME NEW w \in Publishers, SwapFails(w), Remember PROVE Goal
  <2>1. FileRegister!GiveUp(w)
    BY <1>7 DEF SwapFails
  <2>2. OneMechanism' /\ ClaimIsExclusive' /\ RenameIsSafe' /\ DecidedLate'
        /\ ReleaseIsExplained' /\ ComparedLate'
    BY <1>7 DEF SwapFails
  <2>3. LosersHaveAWinner' /\ AnswersAgreeWithDisk'
    BY <1>7 DEF SwapFails
  <2> QED
    BY <1>7, <2>1, <2>2, <2>3 DEF SwapFails
<1>8. ASSUME NEW w \in Publishers, Release(w), Remember PROVE Goal
  <2>1. claim = w /\ \A v \in Publishers \ {w} : fileAt[v] \notin Holding /\ fileAt'[v] = fileAt[v]
    BY <1>8 DEF Release
  <2>2. answer[w] = "none" => target # NoFile
    BY <1>8 DEF Release
  <2> QED
    BY <1>8, <2>1, <2>2 DEF Release
<1>9. ASSUME NEW w \in Publishers, Compare(w) \/ CompareTimesOut(w), Remember PROVE Goal
  BY <1>9 DEF Compare, CompareTimesOut
<1>10. ASSUME NEW w \in Publishers, Crash(w) PROVE Goal
  BY <1>10 DEF Crash, Ended
<1>11. CASE OperatorRemovesClaim
  BY <1>11 DEF OperatorRemovesClaim
<1>12. CASE UNCHANGED fileVars
  BY <1>12 DEF fileVars
<1> QED
  BY <1>1, <1>2, <1>3, <1>4, <1>5, <1>6, <1>7, <1>8, <1>9, <1>10, <1>11,
     <1>12, <1>13
  DEF FileNext, FileStep

-----------------------------------------------------------------------------
LEMMA Invariance == ASSUME UniformLinks PROVE FileSpec => []Inv
<1>1. FileInit => Inv
  BY InitInv
<1>2. Inv /\ FileTypeOK' /\ [FileNext]_fileVars => Inv'
  BY StepInv
<1> QED
  BY <1>1, <1>2, TypeCorrect, PTL DEF FileSpec

\* When every caller has hard links, or none has, a published artefact is
\* never replaced by publish_file.
THEOREM NoClobber == ASSUME UniformLinks PROVE FileSpec => NeverClobbered
<1>1. Inv /\ FileTypeOK' /\ [FileNext]_fileVars => [target # NoFile => target' = target]_fileVars
  BY StepInv
<1> QED
  BY <1>1, Invariance, TypeCorrect, PTL DEF FileSpec, NeverClobbered

\* ... a publication and an answer found by comparing agree with the file, and a
\* conflict that nobody compared for comes only where hard links do not work ...
THEOREM TruthfulAnswers ==
  ASSUME UniformLinks
  PROVE  FileSpec => []AnswersAreTrue
<1>1. Inv => AnswersAreTrue
  BY DEF Inv, AnswersAreTrue
<1> QED
  BY <1>1, Invariance, PTL

\* ... and link, sentinel and rename together implement the create-if-absent
\* register that every store of the repository relies on.
THEOREM Refinement == ASSUME UniformLinks PROVE FileSpec => ImplementsFileRegister
<1>1. FileInit => FileRegister!Init
  BY DEF FileInit, FileRegister!Init
<1>2. Inv /\ FileTypeOK' /\ [FileNext]_fileVars => [FileRegister!Next]_(FileRegister!vars)
  BY StepInv
<1> QED
  BY <1>1, <1>2, Invariance, TypeCorrect, PTL
  DEF FileSpec, ImplementsFileRegister, FileRegister!Spec
=============================================================================
