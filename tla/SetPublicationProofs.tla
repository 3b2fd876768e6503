------------------------ MODULE SetPublicationProofs ------------------------
(***************************************************************************)
(* Proofs about SetPublication for any number of writers, sets, bodies and *)
(* contents, and any bodies left in the directory beforehand.              *)
(***************************************************************************)
EXTENDS SetPublication, TLAPS

\* Inspecting finds out, body by body, that what lies under a name nobody has
\* claimed is this caller's; while the name stays unclaimed that stays true.
InspectedBodiesFit ==
  manifest = Absent =>
    \A w \in Writers, i \in Bodies :
      (pc[w] = "inspect" /\ i < at[w]) \/ pc[w] = "claim" =>
        body[i] \in {Absent, Expected(w, i)}

\* Past step 3 the name belongs to this caller's set.
OwnsTheName ==
  \A w \in Writers :
    pc[w] \in {"survey", "verify", "create", "readback", "whole"} =>
      manifest = want[w]

\* A call has its answer exactly when it has ended.
AnsweredMeansEnded == \A w \in Writers : outcome[w] # "none" <=> pc[w] = "ended"

Inv ==
  /\ TypeOK
  /\ InspectedBodiesFit
  /\ OwnsTheName
  /\ AnsweredMeansEnded
  /\ NeverMixed
  /\ SuccessMeansOnDisk

\* Nothing on disk goes away or changes in one step, and no body appears
\* under an unclaimed name.
Preserved ==
  /\ manifest # Absent => manifest' = manifest
  /\ \A i \in Bodies : body[i] # Absent => body'[i] = body[i]
  /\ manifest = Absent => body' = body

-----------------------------------------------------------------------------
LEMMA InitInv == Init => Inv
BY NBodiesAssumption DEF Init, Inv, TypeOK, Steps, Outcomes, Bodies,
   InspectedBodiesFit, OwnsTheName, AnsweredMeansEnded, NeverMixed,
   SuccessMeansOnDisk

(* What the control operators do to one process and leave alone in the     *)
(* others.                                                                 *)

ControlOK ==
  /\ pc \in [Writers -> Steps]
  /\ at \in [Writers -> Bodies]
  /\ outcome \in [Writers -> Outcomes]

Frame(w) ==
  \A v \in Writers \ {w} :
    pc'[v] = pc[v] /\ at'[v] = at[v] /\ outcome'[v] = outcome[v]

LEMMA GotoEffect ==
  ASSUME TypeOK, NEW w \in Writers, NEW step \in Steps, Goto(w, step)
  PROVE  /\ ControlOK'
         /\ Frame(w)
         /\ pc'[w] = step /\ at'[w] = 1 /\ outcome' = outcome
BY NBodiesAssumption DEF Bodies, TypeOK, ControlOK, Frame, Goto

LEMMA ReturnEffect ==
  ASSUME TypeOK, NEW w \in Writers, NEW o \in Outcomes, Return(w, o)
  PROVE  /\ ControlOK'
         /\ Frame(w)
         /\ pc'[w] = "ended" /\ outcome'[w] = o
BY NBodiesAssumption DEF TypeOK, ControlOK, Frame, Return, Steps

LEMMA AdvanceEffect ==
  ASSUME TypeOK, NEW w \in Writers, NEW next \in Steps, at[w] \in Bodies,
         Advance(w, next)
  PROVE  /\ ControlOK'
         /\ Frame(w)
         /\ outcome' = outcome
         /\ \/ pc'[w] = pc[w] /\ at'[w] = at[w] + 1
            \/ pc'[w] = next /\ at[w] = NBodies
<1>1. CASE at[w] < NBodies
  <2>1. at[w] + 1 \in Bodies
    BY <1>1, NBodiesAssumption DEF TypeOK, Bodies
  <2> QED
    BY <1>1, <2>1 DEF TypeOK, ControlOK, Frame, Advance
<1>2. CASE ~(at[w] < NBodies)
  <2>1. at[w] = NBodies /\ Goto(w, next)
    BY <1>2, NBodiesAssumption DEF Advance, Bodies
  <2> QED
    BY <2>1, GotoEffect
<1> QED
  BY <1>1, <1>2

LEMMA VerifyEffect ==
  ASSUME TypeOK, NEW w \in Writers, NEW next \in Steps, at[w] \in Bodies,
         Verify(w, next)
  PROVE  /\ ControlOK'
         /\ Frame(w)
         /\ \/ /\ body[at[w]] = Expected(w, at[w])
               /\ outcome' = outcome
               /\ \/ pc'[w] = pc[w] /\ at'[w] = at[w] + 1
                  \/ pc'[w] = next /\ at[w] = NBodies
            \/ pc'[w] = "ended" /\ outcome'[w] = "failed"
BY AdvanceEffect, ReturnEffect DEF Verify, Outcomes

LEMMA TypeStep == ASSUME TypeOK, [Next]_vars PROVE TypeOK'
<1> DEFINE FilesOK == /\ manifest \in Sets \cup {Absent}
                      /\ body \in [Bodies -> Values \cup {Absent}]
                      /\ want \in [Writers -> Sets]
                      /\ present \in [Writers -> SUBSET Bodies]
<1>0. SUFFICES ControlOK' /\ FilesOK'
  BY DEF TypeOK, ControlOK
<1> USE DEF Steps
<1>1. ASSUME NEW w \in Writers, Arrive(w) \/ ClaimLost(w) PROVE ControlOK' /\ FilesOK'
  BY <1>1, GotoEffect DEF Arrive, ClaimLost, TypeOK
<1>2. ASSUME NEW w \in Writers, Inspect(w) PROVE ControlOK' /\ FilesOK'
  BY <1>2, AdvanceEffect, VerifyEffect DEF Inspect, InLoop, TypeOK
<1>3. ASSUME NEW w \in Writers, Claim(w) PROVE ControlOK' /\ FilesOK'
  BY <1>3, GotoEffect DEF Claim, TypeOK
<1>4. ASSUME NEW w \in Writers, Identify(w) PROVE ControlOK' /\ FilesOK'
  BY <1>4, GotoEffect, ReturnEffect DEF Identify, TypeOK, Outcomes
<1>5. ASSUME NEW w \in Writers, Survey(w) PROVE ControlOK' /\ FilesOK'
  <2>1. ControlOK'
    BY <1>5, AdvanceEffect DEF Survey, InLoop
  <2> QED
    BY <1>5, <2>1 DEF Survey, InLoop, TypeOK
<1>6. ASSUME NEW w \in Writers, VerifyPresent(w) \/ ReadBack(w) PROVE ControlOK' /\ FilesOK'
  BY <1>6, AdvanceEffect, VerifyEffect DEF VerifyPresent, ReadBack, InLoop, TypeOK
<1>7. ASSUME NEW w \in Writers, CreateMissing(w) PROVE ControlOK' /\ FilesOK'
  <2>1. ControlOK'
    BY <1>7, AdvanceEffect DEF CreateMissing, InLoop
  <2>2. Expected(w, at[w]) \in Values
    BY <1>7, ContentAssumption DEF CreateMissing, InLoop, TypeOK, Expected, Bodies
  <2> QED
    BY <1>7, <2>1, <2>2 DEF CreateMissing, InLoop, TypeOK
<1>8. ASSUME NEW w \in Writers, CreateGivesUp(w) PROVE ControlOK' /\ FilesOK'
  BY <1>8, AdvanceEffect DEF CreateGivesUp, InLoop, TypeOK
<1>9. ASSUME NEW w \in Writers, VerifyWholeSet(w) \/ Abort(w) PROVE ControlOK' /\ FilesOK'
  BY <1>9, ReturnEffect DEF VerifyWholeSet, Abort, TypeOK, Outcomes
<1>10. ASSUME NEW w \in Writers, NEW s \in Sets, Retry(w, s) PROVE ControlOK' /\ FilesOK'
  BY <1>10, NBodiesAssumption DEF Retry, TypeOK, ControlOK, Outcomes, Bodies, Steps
<1>11. CASE UNCHANGED vars
  BY <1>11 DEF vars, TypeOK, ControlOK
<1> QED
  BY <1>1, <1>2, <1>3, <1>4, <1>5, <1>6, <1>7, <1>8, <1>9, <1>10, <1>11
  DEF Next, Step

\* publish_set keeps its state well typed.
THEOREM TypeCorrect == Spec => []TypeOK
<1>1. Init => TypeOK
  BY InitInv DEF Inv
<1>2. TypeOK /\ [Next]_vars => TypeOK'
  BY TypeStep
<1> QED
  BY <1>1, <1>2, PTL DEF Spec

-----------------------------------------------------------------------------
(* Steps that only move one process: nothing on disk, no wish changes.     *)

LEMMA QuietStep ==
  ASSUME Inv, NEW w \in Writers, Frame(w), UNCHANGED <<manifest, body, want>>,
         pc'[w] \in {"survey", "verify", "create", "readback", "whole"} =>
           manifest = want[w],
         \A i \in Bodies :
           manifest = Absent
             /\ ((pc'[w] = "inspect" /\ i < at'[w]) \/ pc'[w] = "claim") =>
               body[i] \in {Absent, Expected(w, i)},
         outcome'[w] # "none" <=> pc'[w] = "ended",
         outcome'[w] = "published" => manifest = want[w] /\ WholeSetOnDisk
  PROVE  /\ InspectedBodiesFit' /\ OwnsTheName' /\ AnsweredMeansEnded'
         /\ NeverMixed' /\ SuccessMeansOnDisk' /\ Preserved
<1> USE DEF Inv
<1>1. InspectedBodiesFit'
  BY DEF InspectedBodiesFit, Frame, Expected
<1>2. OwnsTheName' /\ AnsweredMeansEnded'
  BY DEF OwnsTheName, AnsweredMeansEnded, Frame
<1>3. NeverMixed' /\ SuccessMeansOnDisk'
  BY DEF NeverMixed, SuccessMeansOnDisk, WholeSetOnDisk, Frame
<1>4. Preserved
  BY DEF Preserved
<1> QED
  BY <1>1, <1>2, <1>3, <1>4

LEMMA StepInv == ASSUME Inv, [Next]_vars PROVE Inv' /\ Preserved
<1> DEFINE Goal == /\ InspectedBodiesFit' /\ OwnsTheName' /\ AnsweredMeansEnded'
                   /\ NeverMixed' /\ SuccessMeansOnDisk' /\ Preserved
<1>0. SUFFICES Goal
  BY TypeStep DEF Inv
<1>t. TypeOK
  BY DEF Inv
<1> USE DEF Steps
<1>1. ASSUME NEW w \in Writers, Arrive(w) PROVE Goal
  <2>1. /\ Frame(w) /\ at'[w] = 1 /\ outcome' = outcome
        /\ pc'[w] = IF manifest = Absent THEN "inspect" ELSE "claim"
    BY <1>1, <1>t, GotoEffect DEF Arrive
  <2>2. outcome[w] = "none"
    BY <1>1 DEF Inv, AnsweredMeansEnded, Arrive
  <2> QED
    BY <2>1, <2>2, <1>1, QuietStep DEF Arrive, Bodies
<1>2. ASSUME NEW w \in Writers, Inspect(w) PROVE Goal
  <2>1. /\ Frame(w)
        /\ \/ /\ body[at[w]] \in {Absent, Expected(w, at[w])}
              /\ outcome' = outcome
              /\ \/ pc'[w] = pc[w] /\ at'[w] = at[w] + 1
                 \/ pc'[w] = "claim" /\ at[w] = NBodies
           \/ pc'[w] = "ended" /\ outcome'[w] = "failed"
    BY <1>2, <1>t, AdvanceEffect, VerifyEffect DEF Inspect, InLoop
  <2>2. outcome[w] = "none" /\ pc[w] = "inspect" /\ at[w] \in Bodies
    BY <1>2 DEF Inv, AnsweredMeansEnded, Inspect, InLoop
  <2>3. \A i \in Bodies :
          manifest = Absent
            /\ ((pc'[w] = "inspect" /\ i < at'[w]) \/ pc'[w] = "claim") =>
              body[i] \in {Absent, Expected(w, i)}
    BY <2>1, <2>2, NBodiesAssumption DEF Inv, InspectedBodiesFit, Bodies
  <2> QED
    BY <2>1, <2>2, <2>3, <1>2, QuietStep DEF Inspect
<1>3. ASSUME NEW w \in Writers, Claim(w) PROVE Goal
  <2>1. /\ Frame(w) /\ pc'[w] = "survey" /\ outcome' = outcome
        /\ manifest = Absent /\ manifest' = want[w]
        /\ UNCHANGED <<body, want>>
    BY <1>3, <1>t, GotoEffect DEF Claim
  <2>2. want[w] # Absent
    BY <1>t, AbsentAssumption DEF TypeOK
  <2>3. \A i \in Bodies : body[i] \in {Absent, Expected(w, i)}
    BY <1>3 DEF Claim, Inv, InspectedBodiesFit
  <2>4. NeverMixed'
    BY <2>1, <2>3 DEF NeverMixed, Expected
  <2>5. InspectedBodiesFit'
    BY <2>1, <2>2 DEF InspectedBodiesFit
  <2>6. OwnsTheName'
    <3>1. \A v \in Writers :
            pc[v] \notin {"survey", "verify", "create", "readback", "whole"}
      BY <2>1, <1>t, AbsentAssumption DEF Inv, OwnsTheName, TypeOK
    <3> QED
      BY <2>1, <3>1 DEF OwnsTheName, Frame
  <2>7. AnsweredMeansEnded' /\ SuccessMeansOnDisk'
    BY <2>1, <1>3 DEF Inv, AnsweredMeansEnded, SuccessMeansOnDisk,
       WholeSetOnDisk, Frame, Claim
  <2>8. Preserved
    BY <2>1 DEF Preserved
  <2> QED
    BY <2>4, <2>5, <2>6, <2>7, <2>8
<1>4. ASSUME NEW w \in Writers, ClaimLost(w) PROVE Goal
  <2>1. Frame(w) /\ pc'[w] = "identify" /\ outcome' = outcome
    BY <1>4, <1>t, GotoEffect DEF ClaimLost
  <2>2. outcome[w] = "none"
    BY <1>4 DEF Inv, AnsweredMeansEnded, ClaimLost
  <2> QED
    BY <2>1, <2>2, <1>4, QuietStep DEF ClaimLost
<1>5. ASSUME NEW w \in Writers, Identify(w) PROVE Goal
  <2>1. /\ Frame(w)
        /\ \/ manifest = want[w] /\ pc'[w] = "survey" /\ outcome' = outcome
           \/ pc'[w] = "ended" /\ outcome'[w] = "failed"
    BY <1>5, <1>t, GotoEffect, ReturnEffect DEF Identify, Outcomes
  <2>2. outcome[w] = "none"
    BY <1>5 DEF Inv, AnsweredMeansEnded, Identify
  <2> QED
    BY <2>1, <2>2, <1>5, QuietStep DEF Identify
<1>6. ASSUME NEW w \in Writers, Survey(w) \/ VerifyPresent(w) \/ ReadBack(w)
                                \/ CreateGivesUp(w)
      PROVE  Goal
  <2>1. /\ Frame(w)
        /\ \/ /\ outcome' = outcome
              /\ pc'[w] \in {"survey", "verify", "create", "readback", "whole"}
           \/ pc'[w] = "ended" /\ outcome'[w] = "failed"
    BY <1>6, <1>t, AdvanceEffect, VerifyEffect
    DEF Survey, VerifyPresent, ReadBack, CreateGivesUp, InLoop
  <2>2. outcome[w] = "none" /\ manifest = want[w]
    BY <1>6 DEF Inv, AnsweredMeansEnded, OwnsTheName, Survey, VerifyPresent,
                ReadBack, CreateGivesUp, InLoop
  <2>3. UNCHANGED <<manifest, body, want>>
    BY <1>6 DEF Survey, VerifyPresent, ReadBack, CreateGivesUp
  <2> QED
    BY <2>1, <2>2, <2>3, QuietStep
<1>7. ASSUME NEW w \in Writers, CreateMissing(w) PROVE Goal
  <2>1. /\ Frame(w) /\ outcome' = outcome
        /\ pc'[w] \in {"create", "readback"}
        /\ UNCHANGED <<manifest, want>>
    BY <1>7, <1>t, AdvanceEffect DEF CreateMissing, InLoop
  <2>2. /\ outcome[w] = "none" /\ manifest = want[w] /\ manifest # Absent
        /\ at[w] \in Bodies
    BY <1>7, <1>t, AbsentAssumption
    DEF Inv, AnsweredMeansEnded, OwnsTheName, CreateMissing, InLoop, TypeOK
  <2>3. \A i \in Bodies :
          body'[i] = body[i] \/ (body[i] = Absent /\ body'[i] = Content[manifest][i])
    BY <2>2, <1>7, <1>t DEF CreateMissing, TypeOK, Expected
  <2>4. NeverMixed'
    BY <2>1, <2>2, <2>3 DEF Inv, NeverMixed
  <2>5. WholeSetOnDisk => WholeSetOnDisk'
    BY <2>1, <2>3 DEF WholeSetOnDisk
  <2>6. AnsweredMeansEnded' /\ SuccessMeansOnDisk'
    BY <2>1, <2>2, <2>5 DEF Inv, AnsweredMeansEnded, SuccessMeansOnDisk, Frame
  <2>7. InspectedBodiesFit' /\ OwnsTheName'
    BY <2>1, <2>2 DEF Inv, InspectedBodiesFit, OwnsTheName, Frame
  <2>8. Preserved
    BY <2>1, <2>2, <2>3 DEF Preserved
  <2> QED
    BY <2>4, <2>6, <2>7, <2>8
<1>8. ASSUME NEW w \in Writers, VerifyWholeSet(w) \/ Abort(w) PROVE Goal
  <2>1. /\ Frame(w) /\ pc'[w] = "ended"
        /\ \/ outcome'[w] \in {"failed", "died"}
           \/ outcome'[w] = "published" /\ WholeSetOnDisk /\ manifest = want[w]
    BY <1>8, <1>t, ReturnEffect
    DEF VerifyWholeSet, Abort, Outcomes, Inv, OwnsTheName
  <2>2. UNCHANGED <<manifest, body, want>>
    BY <1>8 DEF VerifyWholeSet, Abort
  <2> QED
    BY <2>1, <2>2, QuietStep
<1>9. ASSUME NEW w \in Writers, NEW s \in Sets, Retry(w, s) PROVE Goal
  <2>1. /\ Frame(w) /\ pc'[w] = "arrive" /\ outcome'[w] = "none"
        /\ UNCHANGED <<manifest, body>>
        /\ \A v \in Writers \ {w} : want'[v] = want[v]
    BY <1>9, <1>t DEF Retry, TypeOK, Frame
  <2>2. InspectedBodiesFit'
    BY <2>1 DEF Inv, InspectedBodiesFit, Frame, Expected
  <2>3. OwnsTheName' /\ AnsweredMeansEnded'
    BY <2>1 DEF Inv, OwnsTheName, AnsweredMeansEnded, Frame
  <2>4. NeverMixed' /\ SuccessMeansOnDisk'
    BY <2>1 DEF Inv, NeverMixed, SuccessMeansOnDisk, WholeSetOnDisk, Frame
  <2>5. Preserved
    BY <2>1 DEF Preserved
  <2> QED
    BY <2>2, <2>3, <2>4, <2>5
<1>10. CASE UNCHANGED vars
  BY <1>10 DEF vars, Inv, InspectedBodiesFit, OwnsTheName, AnsweredMeansEnded,
     NeverMixed, SuccessMeansOnDisk, WholeSetOnDisk, Preserved, Expected
<1> QED
  BY <1>1, <1>2, <1>3, <1>4, <1>5, <1>6, <1>7, <1>8, <1>9, <1>10 DEF Next, Step

LEMMA Invariance == Spec => []Inv
<1>1. Inv /\ [Next]_vars => Inv'
  BY StepInv
<1> QED
  BY InitInv, <1>1, PTL DEF Spec

-----------------------------------------------------------------------------
\* No interleaving of publishers, crashes and retries leaves one set's
\* manifest over another set's body, and a publish that returned
\* successfully left exactly its set on the disk.
THEOREM SetIsNeverMixed == Spec => []SetsAreSound
<1>1. Inv => SetsAreSound
  BY DEF Inv, SetsAreSound
<1> QED
  BY <1>1, Invariance, PTL

\* Before a manifest claims the name, publish_set writes no body.
THEOREM ClaimComesFirst == Spec => NoBodyBeforeTheClaim
<1>1. Inv /\ [Next]_vars => [manifest = Absent => body' = body]_vars
  BY StepInv DEF Preserved
<1> QED
  BY <1>1, Invariance, PTL DEF Spec, NoBodyBeforeTheClaim

-----------------------------------------------------------------------------
LEMMA RegisterStep ==
  ASSUME Inv, [Next]_vars
  PROVE  [Register!Next]_(Register!vars)
<1>t. TypeOK
  BY DEF Inv
<1> USE DEF Steps
<1>1. ASSUME NEW w \in Writers, Claim(w) PROVE Register!Next
  <2>1. /\ manifest = Absent /\ manifest' = want[w] /\ UNCHANGED <<want, outcome>>
        /\ want[w] \in Sets
    BY <1>1, <1>t DEF Claim, Goto, TypeOK
  <2>2. WholeSetOnDisk' \in BOOLEAN
    BY DEF WholeSetOnDisk
  <2> QED
    BY <2>1, <2>2 DEF Register!Next, Register!Claim
<1>2. ASSUME NEW w \in Writers, CreateMissing(w)
      PROVE  Register!Next \/ UNCHANGED Register!vars
  <2>1. manifest # Absent /\ UNCHANGED <<manifest, want, outcome>>
    BY <1>2, <1>t, AdvanceEffect, AbsentAssumption
    DEF CreateMissing, InLoop, Inv, OwnsTheName, TypeOK
  <2>2. \A i \in Bodies : body[i] # Absent => body'[i] = body[i]
    BY StepInv DEF Preserved
  <2>3. WholeSetOnDisk => WholeSetOnDisk'
    <3>1. ASSUME NEW i \in Bodies PROVE Content[manifest][i] # Absent
      <4>1. Content[manifest] \in [Bodies -> Values]
        BY <2>1, <1>t, ContentAssumption DEF TypeOK, Bodies
      <4> QED
        BY <4>1, AbsentAssumption
    <3> QED
      BY <2>1, <2>2, <3>1 DEF WholeSetOnDisk
  <2>4. CASE WholeSetOnDisk'
    <3>1. WholeSetOnDisk' = TRUE
      BY <2>4 DEF WholeSetOnDisk
    <3> QED
      BY <2>1, <3>1 DEF Register!Next, Register!Finish
  <2>5. CASE ~WholeSetOnDisk'
    <3>1. WholeSetOnDisk' = WholeSetOnDisk
      BY <2>3, <2>5 DEF WholeSetOnDisk
    <3> QED
      BY <2>1, <3>1 DEF Register!vars
  <2> QED
    BY <2>4, <2>5
<1>3. ASSUME NEW w \in Writers, NEW s \in Sets, Retry(w, s)
      PROVE  Register!Next \/ UNCHANGED Register!vars
  <2>1. WholeSetOnDisk' = WholeSetOnDisk
    BY <1>3 DEF Retry, WholeSetOnDisk
  <2>2. CASE outcome[w] = "none"
    <3>1. FALSE
      BY <2>2, <1>3 DEF Inv, AnsweredMeansEnded, Retry
    <3> QED
      BY <3>1
  <2>3. CASE outcome[w] # "none"
    BY <2>1, <2>3, <1>3 DEF Retry, Register!Next, Register!Ask
  <2> QED
    BY <2>2, <2>3
<1>4. ASSUME NEW w \in Writers, NEW o \in {"failed", "died", "published"},
             Return(w, o), outcome[w] = "none", UNCHANGED <<manifest, body, want>>,
             o = "published" => manifest = want[w] /\ WholeSetOnDisk
      PROVE  Register!Next
  <2>1. WholeSetOnDisk' = WholeSetOnDisk
    BY <1>4 DEF WholeSetOnDisk
  <2> QED
    BY <2>1, <1>4 DEF Return, Register!Next, Register!Tell
<1>5. ASSUME UNCHANGED <<manifest, body, want, outcome>>
      PROVE  UNCHANGED Register!vars
  BY <1>5 DEF Register!vars, WholeSetOnDisk
<1>6. ASSUME NEW w \in Writers, Arrive(w) \/ ClaimLost(w)
      PROVE  UNCHANGED <<manifest, body, want, outcome>>
  BY <1>6 DEF Arrive, ClaimLost, Goto
<1>7. ASSUME NEW w \in Writers, Survey(w) \/ CreateGivesUp(w)
      PROVE  UNCHANGED <<manifest, body, want, outcome>>
  BY <1>7, <1>t, AdvanceEffect DEF Survey, CreateGivesUp, InLoop
<1>8. ASSUME NEW w \in Writers, Inspect(w) \/ VerifyPresent(w) \/ ReadBack(w)
      PROVE  Register!Next \/ UNCHANGED Register!vars
  <2>1. UNCHANGED <<manifest, body, want>> /\ outcome[w] = "none"
    BY <1>8 DEF Inspect, VerifyPresent, ReadBack, InLoop, Inv, AnsweredMeansEnded
  <2>2. Return(w, "failed") \/ outcome' = outcome
    BY <1>8, <1>t, AdvanceEffect DEF Inspect, VerifyPresent, ReadBack, InLoop, Verify
  <2> QED
    BY <2>1, <2>2, <1>4, <1>5
<1>9. ASSUME NEW w \in Writers, Identify(w)
      PROVE  Register!Next \/ UNCHANGED Register!vars
  <2>1. UNCHANGED <<manifest, body, want>> /\ outcome[w] = "none"
    BY <1>9 DEF Identify, Inv, AnsweredMeansEnded
  <2>2. Return(w, "failed") \/ outcome' = outcome
    BY <1>9 DEF Identify, Goto
  <2> QED
    BY <2>1, <2>2, <1>4, <1>5
<1>10. ASSUME NEW w \in Writers, VerifyWholeSet(w) \/ Abort(w)
       PROVE  Register!Next
  <2>1. UNCHANGED <<manifest, body, want>> /\ outcome[w] = "none"
    BY <1>10 DEF VerifyWholeSet, Abort, Inv, AnsweredMeansEnded
  <2>2. \/ Return(w, "failed") \/ Return(w, "died")
        \/ Return(w, "published") /\ manifest = want[w] /\ WholeSetOnDisk
    BY <1>10 DEF VerifyWholeSet, Abort, Inv, OwnsTheName
  <2> QED
    BY <2>1, <2>2, <1>4
<1>11. CASE UNCHANGED vars
  BY <1>11, <1>5 DEF vars
<1> QED
  BY <1>1, <1>2, <1>3, <1>5, <1>6, <1>7, <1>8, <1>9, <1>10, <1>11 DEF Next, Step

\* publish_set implements the set register: one owner per name, a set that
\* becomes whole once, success only for the whole set one asked for.
THEOREM Refinement == Spec => ImplementsRegister
<1>1. Init => Register!Init
  BY DEF Init, Register!Init, WholeSetOnDisk
<1>2. Inv /\ [Next]_vars => [Register!Next]_(Register!vars)
  BY RegisterStep
<1> QED
  BY <1>1, <1>2, Invariance, PTL DEF Spec, ImplementsRegister, Register!Spec
=============================================================================
