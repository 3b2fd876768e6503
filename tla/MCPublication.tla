---------------------------- MODULE MCPublication ----------------------------
(* Three publications that build on one another, checked side by side: of   *)
(* one file (AtomicPublish), of a set (SetPublication), and of the chain    *)
(* that ends a research run (ResearchFinalization).  They share no state; a *)
(* behaviour moves one of them, `part`, and leaves each of the others in    *)
(* one initial state.                                                       *)
EXTENDS AtomicPublish, SetPublication, TLC

CONSTANTS
  w1, w2,        \* the two processes of every part
  s1, s2,        \* the two sets
  x, y, z,       \* the contents of a body
  e, c,          \* the one content of the raw results, and what is counted of it
  Broken, Truncated, Earlier,
  Published      \* the parts that an instance is about

VARIABLES
  part,
  raw, bundle, changes,
  resultSet, rows, completion, receipt, marker, history,
  copy, head, committed,
  commit, audited, validated, draft, cited,
  finalizerAt, told, beside

Two == {w1, w2}

UniformMounts == {{}, Two}

\* Two sets that agree on their first body and differ on their second, so that one
\* writer's file can pass for the other's.  At each body some value is in no set: an
\* unreadable or foreign file.
TwoSets == {s1, s2}
ThreeValues == {x, y, z}
TwoBodies == s1 :> <<x, y>> @@ s2 :> <<x, z>>

\* Nothing changes under the finalizers, and HEAD stays; the run may be new or one
\* that an earlier release finalized.
Research == INSTANCE ResearchFinalization WITH
  Finalizers <- Two, Evidence <- {e}, Counts <- (e :> c), Totals <- (c :> 0),
  MaxHead <- 0, MaxChanges <- 0, Upgrade <- BOOLEAN, pc <- finalizerAt

researchVars ==
  <<raw, bundle, changes, resultSet, rows, completion, receipt, marker, history, copy, head,
    committed, commit, audited, validated, draft, cited, finalizerAt, told, beside>>
publicationVars == <<part, fileVars, vars, researchVars>>

\* Contents are only told apart, so what the first caller writes may be fixed.
FileBegins == mine[w1] = CHOOSE b \in Bytes : TRUE

FileRests ==
  target = NoFile /\ linkers = {} /\ mine = [w \in Publishers |-> CHOOSE b \in Bytes : TRUE]

SetRests == body = [i \in Bodies |-> Absent] /\ want = [w \in Writers |-> s1]

ResearchRests == marker = Absent

PublicationInit ==
  /\ part \in Published
  /\ FileInit /\ FileBegins /\ (part # "file" => FileRests)
  /\ Init /\ (part # "set" => SetRests)
  /\ Research!Init /\ (part # "research" => ResearchRests)

FileMoves == part = "file" /\ UNCHANGED <<part, vars, researchVars>>
SetMoves == part = "set" /\ UNCHANGED <<part, fileVars, researchVars>>

\* Nothing is asked of two upgraders once they have met: there they stop.
ResearchMoves == part = "research" /\ ~beside /\ UNCHANGED <<part, fileVars, vars>>

PublicationNext ==
  \/ FileMoves /\ FileNext
  \/ SetMoves /\ Next
  \/ ResearchMoves /\ Research!Next

\* The fairness of the three specifications, over the variables of the part it is about.
PublicationFairness ==
  /\ \A w \in Publishers :
       /\ WF_fileVars(part = "file" /\ FileStep(w))
       /\ SF_fileVars(part = "file" /\ AwaitTimesOut(w) /\ Remember)
  /\ \A w \in Writers :
       /\ WF_vars(part = "set" /\ Step(w))
       /\ \A s \in Sets : SF_vars(part = "set" /\ Retry(w, s))
  /\ FaultsStop
  /\ \A w \in Two :
       /\ WF_researchVars(ResearchMoves /\ Research!Step(w) /\ UNCHANGED beside)
       /\ SF_researchVars(ResearchMoves /\ Research!Begin(w))
  /\ WF_researchVars(ResearchMoves /\ Research!DiscardTruncated)
  /\ Research!FaultsStop

PublicationSpec ==
  PublicationInit /\ [][PublicationNext]_publicationVars /\ PublicationFairness

\* Every call of publish_file returns or raises, even one that meets the sentinel
\* of a process that died holding it.
FileCallsEnd == part = "file" => EveryCallEnds

\* finalize, asked again after every crash, brings the run to RESEARCH_READY and
\* exports its receipt, unless two upgraded side by side.
FinalizationEnds == part = "research" => Research!EventuallyResearchReady
=============================================================================
