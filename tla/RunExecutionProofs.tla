-------------------------- MODULE RunExecutionProofs --------------------------
(***************************************************************************)
(* Proofs about RunExecution for every number of executors and jobs, and   *)
(* every choice of preparers, closures, scores and budgets.                *)
(***************************************************************************)
EXTENDS RunExecution, FiniteSetTheorems, TLAPS

\* What an invocation holds in memory fits the step it has reached.
MemoryFits ==
  \A w \in Workers :
    /\ pc[w] # "idle" => job[w] \in Settings
    /\ pc[w] \in {"compare", "write"} => at[w] <= NJobs
    /\ pc[w] = "write" => verdict[w] \in Verdicts
    /\ pc[w] = "complete" => verdict[w] \in Audits
    /\ executed[w] < at[w]

WellFormed == TypeOK /\ MemoryFits

-----------------------------------------------------------------------------
(* What the control operators do to one worker and leave alone in others.  *)

LEMMA AuditType == ASSUME NEW s PROVE Count(s) \in Nat
<1>1. IsFiniteSet(Jobs)
  BY NJobsAssumption, FS_Interval DEF Jobs
<1>2. {j \in Jobs : Sound(j) /\ result[j].status = s} \subseteq Jobs
  OBVIOUS
<1> QED
  BY <1>1, <1>2, FS_Subset, FS_CardinalityType DEF Count

LEMMA RecordType ==
  ASSUME WellFormed, NEW w \in Workers, pc[w] = "write"
  PROVE  Record(w) \in Results /\ Record(w) \notin {Absent, Unsound}
<1>1. job[w] \in Settings /\ verdict[w] \in Verdicts
  BY DEF WellFormed, MemoryFits
<1>2. /\ job[w].preparer \in Preparers
      /\ job[w].closure \in Closures
  BY <1>1 DEF Settings
<1>3. /\ verdict[w].status \in {"success", "failure"}
      /\ verdict[w].score \in Scores \cup {Absent}
  BY <1>1 DEF Verdicts
<1>4. Record(w) \in Results
  BY <1>2, <1>3 DEF Record, Results
<1> QED
  BY <1>4, UnsoundAssumption, AbsentAssumption

\* The part of the state an invocation keeps in memory.
MemoryOK ==
  /\ pc \in [Workers -> Steps]
  /\ job \in [Workers -> Settings \cup {Absent}]
  /\ at \in [Workers -> 1 .. NJobs + 1]
  /\ executed \in [Workers -> 0 .. NJobs]
  /\ verdict \in [Workers -> Verdicts \cup Audits \cup {Absent}]
  /\ told \in [Workers -> Reports]

Others(w) ==
  \A v \in Workers \ {w} :
    /\ pc'[v] = pc[v] /\ job'[v] = job[v] /\ at'[v] = at[v]
    /\ executed'[v] = executed[v] /\ verdict'[v] = verdict[v]
    /\ told'[v] = told[v]

LEMMA EndEffect ==
  ASSUME TypeOK, NEW w \in Workers, NEW what \in Reports, End(w, what)
  PROVE  /\ MemoryOK' /\ Others(w)
         /\ pc'[w] = "idle" /\ at'[w] = 1 /\ executed'[w] = 0
         /\ told'[w] = what
BY NJobsAssumption DEF TypeOK, MemoryOK, Others, End, Goto, Steps

LEMMA CarryEffect ==
  ASSUME TypeOK, NEW w \in Workers, NEW step \in Steps, Goto(w, step), Carry
  PROVE  /\ MemoryOK' /\ Others(w)
         /\ pc'[w] = step /\ job' = job /\ at' = at /\ executed' = executed
         /\ verdict' = verdict /\ told' = told
BY DEF TypeOK, MemoryOK, Others, Carry, Goto

LEMMA RequireEffect ==
  ASSUME TypeOK, NEW w \in Workers, NEW c, NEW step \in Steps, Require(w, c, step)
  PROVE  /\ MemoryOK' /\ Others(w)
         /\ \/ /\ c /\ pc'[w] = step /\ job' = job /\ at' = at
               /\ executed' = executed /\ verdict' = verdict /\ told' = told
            \/ /\ pc'[w] = "idle" /\ at'[w] = 1 /\ executed'[w] = 0
               /\ told'[w] = "error"
<1>1. CASE c
  BY <1>1, CarryEffect DEF Require
<1>2. CASE ~c
  BY <1>2, EndEffect DEF Require, Reports
<1> QED
  BY <1>1, <1>2 DEF Require

-----------------------------------------------------------------------------
LEMMA InitWellFormed == Init => WellFormed
BY NJobsAssumption
DEF Init, WellFormed, TypeOK, MemoryFits, Steps, Reports, Jobs

\* A step keeps the state well formed: one case per action.
LEMMA WellFormedStep == ASSUME WellFormed, [Next]_vars PROVE WellFormed'
<1> DEFINE DiskOK ==
             /\ preparerBinding \in Preparers \cup {Absent}
             /\ closureBinding \in Closures \cup {Absent}
             /\ result \in [Jobs -> Results \cup {Absent, Unsound}]
             /\ completion \in Audits \cup {Absent}
             /\ tainted \in [Workers -> BOOLEAN]
             /\ certified \in [Jobs -> Results \cup {Absent, Unsound}]
<1> DEFINE Goal == DiskOK' /\ MemoryOK' /\ MemoryFits'
<1>0. SUFFICES Goal
  BY DEF WellFormed, TypeOK, MemoryOK
<1>t. TypeOK /\ DiskOK /\ MemoryOK /\ MemoryFits
  BY DEF WellFormed, TypeOK, MemoryOK
<1>s. ASSUME NEW w \in Workers, pc[w] # "idle" PROVE job[w] \in Settings
  BY <1>s, <1>t DEF MemoryFits
<1>1. ASSUME NEW w \in Workers, NEW s \in Settings, Launch(w, s) PROVE Goal
  <2>1. DiskOK'
    BY <1>1, <1>t DEF Launch, disk
  <2>2. MemoryOK'
    BY <1>1, <1>t DEF Launch, MemoryOK, Goto, Steps, Reports
  <2>3. MemoryFits'
    BY <1>1, <1>t DEF Launch, MemoryFits, MemoryOK, Goto, Steps
  <2> QED
    BY <2>1, <2>2, <2>3
\* A check, whatever else it writes.
<1>2. ASSUME NEW w \in Workers, NEW c, NEW step \in Steps \ {"compare", "write", "complete"},
             pc[w] # "idle", Require(w, c, step)
      PROVE  MemoryOK' /\ MemoryFits'
  <2>1. MemoryOK' /\ Others(w)
    BY <1>2, <1>t, RequireEffect
  <2>2. \/ pc'[w] = step /\ job' = job /\ at' = at /\ executed' = executed
        \/ pc'[w] = "idle" /\ at'[w] = 1 /\ executed'[w] = 0
    BY <1>2, <1>t, RequireEffect
  <2> QED
    BY <2>1, <2>2, <1>2, <1>t DEF MemoryFits, Others, Steps
<1>3. ASSUME NEW w \in Workers, BindCheck(w) \/ ScanStored(w) \/ ClosureCheck(w) \/ Validate(w)
      PROVE  Goal
  <2>1. DiskOK'
    BY <1>3, <1>t DEF BindCheck, ScanStored, ClosureCheck, Validate, disk
  <2>2. CASE BindCheck(w)
    BY <2>1, <2>2, <1>2 DEF BindCheck, Steps
  <2>3. CASE ScanStored(w)
    BY <2>1, <2>3, <1>2 DEF ScanStored, Steps
  <2>4. CASE ClosureCheck(w)
    BY <2>1, <2>4, <1>2 DEF ClosureCheck, Steps
  <2>5. CASE Validate(w)
    BY <2>1, <2>5, <1>2 DEF Validate, Steps
  <2> QED
    BY <1>3, <2>2, <2>3, <2>4, <2>5
<1>4. ASSUME NEW w \in Workers, BindPublish(w) PROVE Goal
  <2>1. job[w].preparer \in Preparers
    BY <1>4, <1>s DEF BindPublish, Settings
  <2>2. DiskOK'
    BY <1>4, <1>t, <2>1 DEF BindPublish
  <2> QED
    BY <2>2, <1>4, <1>2 DEF BindPublish, Steps
<1>5. ASSUME NEW w \in Workers, ClosurePublish(w) PROVE Goal
  <2>1. job[w].closure \in Closures
    BY <1>5, <1>s DEF ClosurePublish, Settings
  <2>2. DiskOK'
    BY <1>5, <1>t, <2>1 DEF ClosurePublish
  <2> QED
    BY <2>2, <1>5, <1>2 DEF ClosurePublish, Steps
<1>6. ASSUME NEW w \in Workers, LeaveWalk(w) \/ StartJob(w) PROVE Goal
  <2>1. DiskOK'
    BY <1>6, <1>t DEF LeaveWalk, StartJob, disk
  <2>2. /\ MemoryOK' /\ Others(w) /\ pc[w] = "visit"
        /\ job' = job /\ at' = at /\ executed' = executed
        /\ \/ pc'[w] = "count"
           \/ pc'[w] = "compare" /\ ~WalkEnds(w)
    BY <1>6, <1>t, CarryEffect DEF LeaveWalk, StartJob, Steps
  <2>3. pc'[w] = "compare" => at[w] <= NJobs
    BY <2>2, <1>t, NJobsAssumption DEF WalkEnds, MemoryOK
  <2> QED
    BY <2>1, <2>2, <2>3, <1>t DEF MemoryFits, Others
<1>7. ASSUME NEW w \in Workers, SkipExisting(w) PROVE Goal
  <2>1. DiskOK'
    BY <1>7, <1>t DEF SkipExisting, disk
  <2>2. at[w] \in 1 .. NJobs
    BY <1>7, <1>t, NJobsAssumption DEF SkipExisting, WalkEnds, MemoryOK
  <2>3. CASE /\ at' = [at EXCEPT ![w] = @ + 1]
             /\ UNCHANGED <<pc, job, executed, verdict, told>>
    <3>2. MemoryOK'
      BY <2>3, <2>2, <1>t, NJobsAssumption, <1>7 DEF MemoryOK, SkipExisting
    <3>3. at[w] + 1 > executed[w]
      BY <2>2, <1>t, NJobsAssumption DEF MemoryFits, MemoryOK
    <3>4. MemoryFits'
      BY <2>3, <3>3, <1>7, <1>t DEF MemoryFits, MemoryOK, SkipExisting
    <3> QED
      BY <2>1, <3>2, <3>4
  <2>4. CASE End(w, "error")
    BY <1>7, <2>1, <2>4, <1>t, EndEffect DEF SkipExisting, MemoryFits, Others, Reports
  <2> QED
    BY <1>7, <2>3, <2>4 DEF SkipExisting
<1>8. ASSUME NEW w \in Workers, NEW v \in Verdicts, Compare(w, v) PROVE Goal
  BY <1>8, <1>t DEF Compare, disk, Goto, Steps, MemoryOK, MemoryFits
<1>9. ASSUME NEW w \in Workers, Drift(w) \/ Crash(w) PROVE Goal
  <2>1. DiskOK'
    BY <1>9, <1>t DEF Drift, Crash, disk
  <2>2. MemoryOK' /\ Others(w) /\ pc'[w] = "idle" /\ at'[w] = 1 /\ executed'[w] = 0
    BY <1>9, <1>t, EndEffect DEF Drift, Crash, Reports
  <2> QED
    BY <2>1, <2>2, <1>t DEF MemoryFits, Others
<1>10. ASSUME NEW w \in Workers, WriteResult(w) PROVE Goal
  <2>1. at[w] \in Jobs /\ pc[w] = "write" /\ executed[w] < at[w]
    BY <1>10, <1>t, NJobsAssumption DEF WriteResult, MemoryFits, MemoryOK, Jobs
  <2>2. CASE result[at[w]] = Absent
    <3>1. /\ result' = [result EXCEPT ![at[w]] = Record(w)]
          /\ at' = [at EXCEPT ![w] = @ + 1]
          /\ executed' = [executed EXCEPT ![w] = @ + 1]
          /\ verdict' = [verdict EXCEPT ![w] = Absent]
          /\ pc' = [pc EXCEPT ![w] = "visit"]
          /\ UNCHANGED <<job, told>>
      BY <1>10, <2>2 DEF WriteResult, Goto
    <3>2. DiskOK'
      BY <1>10, <3>1, <2>1, <1>t, RecordType DEF WriteResult
    <3>3. at[w] + 1 \in 1 .. NJobs + 1 /\ executed[w] + 1 \in 0 .. NJobs
          /\ executed[w] + 1 < at[w] + 1
      BY <2>1, <1>t, NJobsAssumption DEF Jobs, MemoryOK
    <3>4. MemoryOK'
      BY <3>1, <3>3, <1>t DEF MemoryOK, Steps
    <3>5. MemoryFits'
      BY <3>1, <3>3, <2>1, <1>t DEF MemoryFits, MemoryOK
    <3> QED
      BY <3>2, <3>4, <3>5
  <2>3. CASE result[at[w]] # Absent
    <3>1. End(w, "error") /\ DiskOK'
      BY <1>10, <2>3, <1>t DEF WriteResult
    <3> QED
      BY <3>1, <1>t, EndEffect DEF MemoryFits, Others, Reports
  <2> QED
    BY <2>2, <2>3
<1>11. ASSUME NEW w \in Workers, CountRemaining(w) PROVE Goal
  <2>1. DiskOK'
    BY <1>11, <1>t DEF CountRemaining, disk
  <2>2. \/ End(w, "partial") \/ End(w, "completed")
        \/ Goto(w, "audit") /\ Carry
    BY <1>11 DEF CountRemaining
  <2>3. MemoryOK' /\ Others(w)
        /\ \/ pc'[w] = "idle" /\ at'[w] = 1 /\ executed'[w] = 0
           \/ pc'[w] = "audit" /\ job' = job /\ at' = at /\ executed' = executed
    BY <2>2, <1>t, EndEffect, CarryEffect DEF Steps, Reports
  <2> QED
    BY <2>1, <2>3, <1>11, <1>t DEF MemoryFits, Others, CountRemaining
<1>12. ASSUME NEW w \in Workers, RunAudit(w) PROVE Goal
  <2>1. DiskOK'
    BY <1>12, <1>t DEF RunAudit, disk
  <2>2. CASE AuditIsClean
    <3>1. Audit \in Audits
      BY AuditType DEF Audit, Audits
    <3> QED
      BY <1>12, <2>1, <2>2, <3>1, <1>t DEF RunAudit, MemoryOK, MemoryFits, Goto, Steps
  <2>3. CASE ~AuditIsClean
    BY <1>12, <2>1, <2>3, <1>t, EndEffect DEF RunAudit, MemoryFits, Others, Reports
  <2> QED
    BY <2>2, <2>3
<1>13. ASSUME NEW w \in Workers, EnsureCompletion(w) PROVE Goal
  <2>1. verdict[w] \in Audits
    BY <1>13, <1>t DEF EnsureCompletion, MemoryFits
  <2>2. DiskOK'
    BY <1>13, <2>1, <1>t DEF EnsureCompletion
  <2>3. End(w, "verified") \/ End(w, "error")
    BY <1>13 DEF EnsureCompletion
  <2>4. MemoryOK' /\ Others(w) /\ pc'[w] = "idle" /\ at'[w] = 1 /\ executed'[w] = 0
    BY <2>3, <1>t, EndEffect DEF Reports
  <2> QED
    BY <2>2, <2>4, <1>t DEF MemoryFits, Others
<1>14. CASE Unbind
  BY <1>14, <1>t DEF Unbind, memory, MemoryOK, MemoryFits
<1>15. ASSUME NEW j \in Jobs, Spoil(j) PROVE Goal
  <2>1. result' \in [Jobs -> Results \cup {Absent, Unsound}]
    <3>1. PICK way \in Tampering \ {"unbind"} :
            result' = [result EXCEPT ![j] = Leaves[way]]
      BY <1>15 DEF Spoil
    <3>2. Leaves[way] \in {Absent, Unsound}
      BY TamperingAssumption DEF Leaves
    <3> QED
      BY <3>1, <3>2, <1>t
  <2> QED
    BY <1>15, <2>1, <1>t DEF Spoil, memory, MemoryOK, MemoryFits
<1>16. CASE UNCHANGED vars
  BY <1>16, <1>t DEF vars, disk, memory, MemoryOK, MemoryFits
<1> QED
  BY <1>1, <1>3, <1>4, <1>5, <1>6, <1>7, <1>8, <1>9, <1>10, <1>11, <1>12, <1>13,
     <1>14, <1>15, <1>16
  DEF Next, Step, Tamper

LEMMA AlwaysWellFormed == Spec => []WellFormed
BY InitWellFormed, WellFormedStep, PTL DEF Spec

\* Every state of the executor is well typed: its ordinal and its budget stay
\* within the plan, and what it stores and completes are results and audits.
THEOREM TypeCorrect == Spec => []TypeOK
<1>1. WellFormed => TypeOK
  BY DEF WellFormed
<1> QED
  BY <1>1, AlwaysWellFormed, PTL

-----------------------------------------------------------------------------
(***************************************************************************)
(* One run, one preparation: whatever is tampered with, an executor past   *)
(* its binding holds the preparer the run is bound to, every sound result  *)
(* came from that preparer or the binding is gone, and while it is gone    *)
(* and results are there nobody is about to write a new one.  The closure  *)
(* of a research run is bound by the same rule.                            *)
(***************************************************************************)
PastClosure == {"validate", "visit", "compare", "write", "count", "audit", "complete"}
PastBinding == PastClosure \cup {"scan", "closureCheck", "closurePublish"}

HoldersAreBound ==
  \A w \in Workers : pc[w] \in PastBinding => preparerBinding = job[w].preparer

ResultsAreBound ==
  \A j \in Jobs : Sound(j) => preparerBinding \in {Absent, result[j].preparer}

NobodyRebinds ==
  preparerBinding = Absent /\ Stored # {} => \A w \in Workers : pc[w] # "bindPublish"

PreparerInv == HoldersAreBound /\ ResultsAreBound /\ NobodyRebinds /\ OnePreparation

HoldersAreClosed ==
  \A w \in Workers : pc[w] \in PastClosure => closureBinding = job[w].closure

ResultsAreClosed ==
  \A j \in Jobs : Sound(j) => closureBinding \in {Absent, result[j].closure}

NobodyRecloses ==
  closureBinding = Absent /\ Stored # {} =>
    \A w \in Workers : pc[w] # "closurePublish"

ClosureInv ==
  ResearchRun =>
    HoldersAreClosed /\ ResultsAreClosed /\ NobodyRecloses /\ OneClosure

BindingInv == WellFormed /\ PreparerInv /\ ClosureInv

LEMMA InitBinding == Init => BindingInv
<1> SUFFICES ASSUME Init PROVE PreparerInv /\ ClosureInv
  BY InitWellFormed DEF BindingInv
<1>1. \A j \in Jobs : ~Sound(j)
  BY DEF Init, Sound
<1> QED
  BY <1>1 DEF Init, PreparerInv, HoldersAreBound, ResultsAreBound, NobodyRebinds,
     OnePreparation, ClosureInv, HoldersAreClosed, ResultsAreClosed, NobodyRecloses,
     OneClosure, PastBinding, PastClosure, Stored

\* How a step of worker w moves it through the binding steps when it touches
\* neither a binding nor a result.
LEMMA MoveKeepsBindings ==
  ASSUME BindingInv, NEW w \in Workers,
         UNCHANGED <<preparerBinding, closureBinding, result>>,
         \A v \in Workers \ {w} : pc'[v] = pc[v] /\ job'[v] = job[v],
         pc'[w] \in PastBinding => pc[w] \in PastBinding /\ job'[w] = job[w],
         pc'[w] \in PastClosure /\ ResearchRun =>
           pc[w] \in PastClosure /\ job'[w] = job[w],
         pc'[w] = "bindPublish" => preparerBinding # Absent \/ Stored = {},
         pc'[w] = "closurePublish" => closureBinding # Absent \/ Stored = {}
  PROVE  PreparerInv' /\ ClosureInv'
BY DEF BindingInv, PreparerInv, HoldersAreBound, ResultsAreBound, NobodyRebinds,
   OnePreparation, ClosureInv, HoldersAreClosed, ResultsAreClosed, NobodyRecloses,
   OneClosure, Stored, Sound

LEMMA BindingStep == ASSUME BindingInv, [Next]_vars PROVE BindingInv'
<1> DEFINE Goal == PreparerInv' /\ ClosureInv'
<1>0. SUFFICES Goal
  BY WellFormedStep DEF BindingInv
<1>t. TypeOK /\ MemoryOK /\ MemoryFits
  BY DEF BindingInv, WellFormed, TypeOK, MemoryOK
<1> USE DEF PastBinding, PastClosure
\* An invocation that ends, or only moves on, keeps both.
<1>e. ASSUME NEW w \in Workers, NEW what \in Reports, End(w, what),
             UNCHANGED <<preparerBinding, closureBinding, result>>
      PROVE  Goal
  <2>1. Others(w) /\ pc'[w] = "idle"
    BY <1>e, <1>t, EndEffect
  <2> QED
    BY <1>e, <2>1, MoveKeepsBindings DEF Others
<1>1. ASSUME NEW w \in Workers, NEW s \in Settings, Launch(w, s) PROVE Goal
  <2>1. \A v \in Workers \ {w} : pc'[v] = pc[v] /\ job'[v] = job[v]
    BY <1>1, <1>t DEF Launch, Goto, MemoryOK
  <2>2. pc'[w] = "bindCheck"
    BY <1>1, <1>t DEF Launch, Goto, MemoryOK
  <2> QED
    BY <1>1, <2>1, <2>2, MoveKeepsBindings DEF Launch, disk
<1>2. ASSUME NEW w \in Workers, BindCheck(w) \/ ScanStored(w) \/ ClosureCheck(w) \/ Validate(w)
      PROVE  Goal
  <2>1. UNCHANGED <<preparerBinding, closureBinding, result>>
    BY <1>2 DEF BindCheck, ScanStored, ClosureCheck, Validate, disk
  <2>2. Others(w)
    BY <1>2, <1>t, RequireEffect DEF BindCheck, ScanStored, ClosureCheck, Validate, Steps
  <2>3. CASE BindCheck(w)
    <3>1. \/ pc'[w] = "idle"
          \/ pc'[w] = "bindPublish" /\ (preparerBinding # Absent \/ Stored = {})
      BY <2>3, <1>t, RequireEffect DEF BindCheck, Steps
    <3> QED
      BY <2>1, <2>2, <3>1, MoveKeepsBindings DEF Others
  <2>4. CASE ScanStored(w)
    <3>1. \/ pc'[w] = "idle"
          \/ /\ pc'[w] = (IF ResearchRun THEN "closureCheck" ELSE "validate")
             /\ job' = job
      BY <2>4, <1>t, RequireEffect DEF ScanStored, Steps
    <3> QED
      BY <2>1, <2>2, <2>4, <3>1, MoveKeepsBindings DEF Others, ScanStored
  <2>5. CASE ClosureCheck(w)
    <3>1. \/ pc'[w] = "idle"
          \/ /\ pc'[w] = "closurePublish" /\ job' = job
             /\ closureBinding # Absent \/ Stored = {}
      BY <2>5, <1>t, RequireEffect DEF ClosureCheck, Steps
    <3> QED
      BY <2>1, <2>2, <2>5, <3>1, MoveKeepsBindings DEF Others, ClosureCheck
  <2>6. CASE Validate(w)
    <3>1. \/ pc'[w] = "idle"
          \/ pc'[w] = "visit" /\ job' = job
      BY <2>6, <1>t, RequireEffect DEF Validate, Steps
    <3> QED
      BY <2>1, <2>2, <2>6, <3>1, MoveKeepsBindings DEF Others, Validate
  <2> QED
    BY <1>2, <2>3, <2>4, <2>5, <2>6
<1>3. ASSUME NEW w \in Workers, BindPublish(w) PROVE Goal
  <2>1. /\ pc[w] = "bindPublish" /\ job[w].preparer \in Preparers
        /\ UNCHANGED <<closureBinding, result>>
        /\ preparerBinding' =
             IF preparerBinding = Absent THEN job[w].preparer ELSE preparerBinding
    BY <1>3, <1>t DEF BindPublish, MemoryFits, Settings
  <2>2. /\ Others(w)
        /\ \/ pc'[w] = "scan" /\ job' = job /\ preparerBinding' = job[w].preparer
           \/ pc'[w] = "idle"
    BY <1>3, <1>t, RequireEffect DEF BindPublish, Steps
  <2>3. preparerBinding' # Absent
    BY <2>1, AbsentAssumption
  <2>4. CASE preparerBinding # Absent
    <3>1. preparerBinding' = preparerBinding
      BY <2>1, <2>4
    <3>2. HoldersAreBound'
      BY <2>2, <3>1 DEF BindingInv, PreparerInv, HoldersAreBound, Others
    <3>3. ResultsAreBound' /\ OnePreparation' /\ NobodyRebinds'
      BY <2>1, <2>3, <3>1 DEF BindingInv, PreparerInv, ResultsAreBound, OnePreparation,
                              NobodyRebinds, Sound
    <3> QED
      BY <3>2, <3>3, <2>1, <2>2
      DEF BindingInv, PreparerInv, ClosureInv, HoldersAreClosed, ResultsAreClosed,
          NobodyRecloses, OneClosure, Sound, Stored, Others
  <2>5. CASE preparerBinding = Absent
    <3>1. Stored = {}
      BY <2>1, <2>5 DEF BindingInv, PreparerInv, NobodyRebinds
    <3>2. \A j \in Jobs : ~Sound(j) /\ ~Sound(j)'
      BY <2>1, <3>1 DEF Stored, Sound
    <3>3. \A v \in Workers : pc[v] \notin PastBinding
      <4> SUFFICES ASSUME NEW v \in Workers, pc[v] \in PastBinding PROVE FALSE
        OBVIOUS
      <4>1. job[v].preparer \in Preparers
        BY <1>t DEF MemoryFits, Settings
      <4> QED
        BY <4>1, <2>5, AbsentAssumption DEF BindingInv, PreparerInv, HoldersAreBound
    <3>4. PreparerInv'
      BY <2>2, <2>3, <3>2, <3>3
      DEF PreparerInv, HoldersAreBound, ResultsAreBound, NobodyRebinds, OnePreparation, Others
    <3> QED
      BY <3>3, <3>4, <3>2, <2>1, <2>2, <3>1
      DEF BindingInv, ClosureInv, HoldersAreClosed, ResultsAreClosed,
          NobodyRecloses, OneClosure, Sound, Stored, Others
  <2> QED
    BY <2>4, <2>5
<1>4. ASSUME NEW w \in Workers, ClosurePublish(w) PROVE Goal
  <2>1. /\ pc[w] = "closurePublish" /\ job[w].closure \in Closures
        /\ UNCHANGED <<preparerBinding, result>>
        /\ closureBinding' =
             IF closureBinding = Absent THEN job[w].closure ELSE closureBinding
    BY <1>4, <1>t DEF ClosurePublish, MemoryFits, Settings
  <2>2. /\ Others(w)
        /\ \/ pc'[w] = "validate" /\ job' = job /\ closureBinding' = job[w].closure
           \/ pc'[w] = "idle"
    BY <1>4, <1>t, RequireEffect DEF ClosurePublish, Steps
  <2>3. closureBinding' # Absent
    BY <2>1, AbsentAssumption
  <2>4. PreparerInv'
    BY <2>1, <2>2
    DEF BindingInv, PreparerInv, HoldersAreBound, ResultsAreBound, NobodyRebinds,
        OnePreparation, Sound, Stored, Others
  <2>5. CASE closureBinding # Absent
    <3>1. closureBinding' = closureBinding
      BY <2>1, <2>5
    <3>2. ResearchRun => HoldersAreClosed'
      BY <2>2, <3>1 DEF BindingInv, ClosureInv, HoldersAreClosed, Others
    <3>3. ResearchRun => ResultsAreClosed' /\ OneClosure' /\ NobodyRecloses'
      BY <2>1, <2>3, <3>1 DEF BindingInv, ClosureInv, ResultsAreClosed, OneClosure,
                              NobodyRecloses, Sound
    <3> QED
      BY <2>4, <3>2, <3>3 DEF ClosureInv
  <2>6. CASE closureBinding = Absent /\ ResearchRun
    <3>1. Stored = {}
      BY <2>1, <2>6 DEF BindingInv, ClosureInv, NobodyRecloses
    <3>2. \A j \in Jobs : ~Sound(j) /\ ~Sound(j)'
      BY <2>1, <3>1 DEF Stored, Sound
    <3>3. \A v \in Workers : pc[v] \notin PastClosure
      <4> SUFFICES ASSUME NEW v \in Workers, pc[v] \in PastClosure PROVE FALSE
        OBVIOUS
      <4>1. job[v].closure \in Closures
        BY <1>t DEF MemoryFits, Settings
      <4> QED
        BY <4>1, <2>6, AbsentAssumption DEF BindingInv, ClosureInv, HoldersAreClosed
    <3>4. ClosureInv'
      BY <2>2, <2>3, <3>2, <3>3
      DEF ClosureInv, HoldersAreClosed, ResultsAreClosed, NobodyRecloses, OneClosure, Others
    <3> QED
      BY <2>4, <3>4
  <2> QED
    BY <2>4, <2>5, <2>6 DEF ClosureInv
<1>5. ASSUME NEW w \in Workers, LeaveWalk(w) \/ StartJob(w) PROVE Goal
  <2>1. /\ Others(w) /\ pc[w] = "visit" /\ job' = job
        /\ pc'[w] \in {"count", "compare"}
    BY <1>5, <1>t, CarryEffect DEF LeaveWalk, StartJob, Steps
  <2> QED
    BY <1>5, <2>1, MoveKeepsBindings DEF Others, LeaveWalk, StartJob, disk
<1>6. ASSUME NEW w \in Workers, SkipExisting(w) PROVE Goal
  <2>1. UNCHANGED <<preparerBinding, closureBinding, result>>
    BY <1>6 DEF SkipExisting, disk
  <2>2. End(w, "error") \/ UNCHANGED <<pc, job>>
    BY <1>6 DEF SkipExisting
  <2>3. CASE UNCHANGED <<pc, job>>
    BY <2>1, <2>3, <1>6, MoveKeepsBindings DEF SkipExisting
  <2> QED
    BY <2>1, <2>2, <2>3, <1>e DEF Reports
<1>7. ASSUME NEW w \in Workers, NEW v \in Verdicts, Compare(w, v) PROVE Goal
  <2>1. /\ pc[w] = "compare" /\ pc'[w] = "write" /\ job' = job
        /\ \A u \in Workers \ {w} : pc'[u] = pc[u]
    BY <1>7, <1>t DEF Compare, Goto, MemoryOK
  <2> QED
    BY <1>7, <2>1, MoveKeepsBindings DEF Compare, disk
<1>8. ASSUME NEW w \in Workers, Drift(w) \/ Crash(w) PROVE Goal
  BY <1>8, <1>e DEF Drift, Crash, disk, Reports
<1>9. ASSUME NEW w \in Workers, WriteResult(w) PROVE Goal
  <2>1. CASE result[at[w]] # Absent
    BY <1>9, <2>1, <1>e DEF WriteResult, Reports
  <2>2. CASE result[at[w]] = Absent
    <3>1. /\ result' = [result EXCEPT ![at[w]] = Record(w)]
          /\ pc[w] = "write" /\ pc' = [pc EXCEPT ![w] = "visit"]
          /\ UNCHANGED <<job, preparerBinding, closureBinding>>
      BY <1>9, <2>2 DEF WriteResult, Goto
    <3>2. at[w] \in Jobs
      BY <3>1, <1>t DEF MemoryFits, MemoryOK, Jobs
    <3>3. /\ Record(w).preparer = preparerBinding /\ preparerBinding # Absent
          /\ ResearchRun => Record(w).closure = closureBinding /\ closureBinding # Absent
      <4>1. job[w].preparer \in Preparers /\ job[w].closure \in Closures
        BY <3>1, <1>t DEF MemoryFits, Settings
      <4>2. job[w].preparer = preparerBinding
        BY <3>1 DEF BindingInv, PreparerInv, HoldersAreBound
      <4>3. ResearchRun => job[w].closure = closureBinding
        BY <3>1 DEF BindingInv, ClosureInv, HoldersAreClosed
      <4> QED
        BY <4>1, <4>2, <4>3, AbsentAssumption DEF Record
    <3>4. /\ result'[at[w]] = Record(w)
          /\ \A j \in Jobs \ {at[w]} : result'[j] = result[j]
      BY <3>1, <3>2, <1>t DEF TypeOK
    <3>5. \A j \in Jobs : Sound(j)' => result'[j].preparer = preparerBinding
      BY <3>3, <3>4 DEF BindingInv, PreparerInv, ResultsAreBound, Sound
    <3>6. ResearchRun => \A j \in Jobs : Sound(j)' => result'[j].closure = closureBinding
      BY <3>3, <3>4 DEF BindingInv, ClosureInv, ResultsAreClosed, Sound
    <3>7. PreparerInv'
      BY <3>1, <3>3, <3>5, <1>t
      DEF BindingInv, PreparerInv, HoldersAreBound, ResultsAreBound, NobodyRebinds,
          OnePreparation, MemoryOK
    <3>8. ClosureInv'
      BY <3>1, <3>3, <3>6, <1>t
      DEF BindingInv, ClosureInv, HoldersAreClosed, ResultsAreClosed, NobodyRecloses,
          OneClosure, MemoryOK
    <3> QED
      BY <3>7, <3>8
  <2> QED
    BY <2>1, <2>2
<1>10. ASSUME NEW w \in Workers, CountRemaining(w) PROVE Goal
  <2>1. UNCHANGED <<preparerBinding, closureBinding, result>> /\ pc[w] = "count"
    BY <1>10 DEF CountRemaining, disk
  <2>2. \/ End(w, "partial") \/ End(w, "completed")
        \/ Goto(w, "audit") /\ Carry
    BY <1>10 DEF CountRemaining
  <2>3. CASE Goto(w, "audit") /\ Carry
    <3>1. Others(w) /\ pc'[w] = "audit" /\ job' = job
      BY <2>3, <1>t, CarryEffect DEF Steps
    <3> QED
      BY <2>1, <3>1, MoveKeepsBindings DEF Others
  <2> QED
    BY <2>1, <2>2, <2>3, <1>e DEF Reports
<1>11. ASSUME NEW w \in Workers, RunAudit(w) PROVE Goal
  <2>1. UNCHANGED <<preparerBinding, closureBinding, result>> /\ pc[w] = "audit"
    BY <1>11 DEF RunAudit, disk
  <2>2. \/ End(w, "error")
        \/ Goto(w, "complete") /\ job' = job
    BY <1>11 DEF RunAudit
  <2>3. CASE Goto(w, "complete") /\ job' = job
    <3>1. pc'[w] = "complete" /\ \A v \in Workers \ {w} : pc'[v] = pc[v]
      BY <2>3, <1>t DEF Goto, MemoryOK
    <3> QED
      BY <2>1, <2>3, <3>1, MoveKeepsBindings
  <2> QED
    BY <2>1, <2>2, <2>3, <1>e DEF Reports
<1>12. ASSUME NEW w \in Workers, EnsureCompletion(w) PROVE Goal
  <2>1. End(w, "verified") \/ End(w, "error")
    BY <1>12 DEF EnsureCompletion
  <2> QED
    BY <1>12, <2>1, <1>e DEF EnsureCompletion, Reports
<1>13. CASE Unbind
  <2>1. \A w \in Workers : pc'[w] = "idle"
    BY <1>13 DEF Unbind, memory
  <2> QED
    BY <1>13, <2>1
    DEF Unbind, BindingInv, PreparerInv, HoldersAreBound, ResultsAreBound, NobodyRebinds,
        OnePreparation, ClosureInv, HoldersAreClosed, ResultsAreClosed, NobodyRecloses,
        OneClosure, Sound
<1>14. ASSUME NEW j \in Jobs, Spoil(j) PROVE Goal
  <2>1. PICK way \in Tampering \ {"unbind"} :
          result' = [result EXCEPT ![j] = Leaves[way]]
    BY <1>14 DEF Spoil
  <2>2. Leaves[way] \in {Absent, Unsound}
    BY TamperingAssumption DEF Leaves
  <2>3. \A i \in Jobs : Sound(i)' => Sound(i) /\ result'[i] = result[i]
    BY <2>1, <2>2, <1>t DEF Sound, TypeOK
  <2>4. Stored # {}
    BY <1>14 DEF Spoil, Stored, Sound
  <2> QED
    BY <1>14, <2>3, <2>4
    DEF Spoil, memory, BindingInv, PreparerInv, HoldersAreBound, ResultsAreBound,
        NobodyRebinds, OnePreparation, ClosureInv, HoldersAreClosed, ResultsAreClosed,
        NobodyRecloses, OneClosure
<1>15. CASE UNCHANGED vars
  BY <1>15
  DEF vars, disk, memory, BindingInv, PreparerInv, HoldersAreBound, ResultsAreBound,
      NobodyRebinds, OnePreparation, ClosureInv, HoldersAreClosed, ResultsAreClosed,
      NobodyRecloses, OneClosure, Sound, Stored
<1> QED
  BY <1>1, <1>2, <1>3, <1>4, <1>5, <1>6, <1>7, <1>8, <1>9, <1>10, <1>11, <1>12,
     <1>13, <1>14, <1>15
  DEF Next, Step, Tamper

\* However executors race to bind the run, and whatever is unbound, damaged or
\* lost between and under them, the stored results never mix two preparations.
THEOREM RunIsNeverMixed == Spec => []OnePreparation
<1>1. BindingInv => OnePreparation
  BY DEF BindingInv, PreparerInv
<1> QED
  BY <1>1, InitBinding, BindingStep, PTL DEF Spec

\* Nor does a research run ever mix two content closures, although no result
\* records the closure it was made under and a binding can be lost.
THEOREM ClosureIsNeverMixed == Spec => []OneClosure
<1>1. BindingInv => OneClosure
  BY DEF BindingInv, ClosureInv, OneClosure
<1> QED
  BY <1>1, InitBinding, BindingStep, PTL DEF Spec

-----------------------------------------------------------------------------
(* What a run's results, its completion and its reports are worth.  Until  *)
(* the last section nothing outside the program touches the run's files:   *)
(* Tampering = {}.                                                         *)

-----------------------------------------------------------------------------
(* What a step can do to the results, the completion and the reports.      *)

Wrote(w) ==
  /\ pc[w] = "write" /\ at[w] \in Jobs /\ result[at[w]] = Absent
  /\ result' = [result EXCEPT ![at[w]] = Record(w)]
  /\ executed' = [executed EXCEPT ![w] = @ + 1]
  /\ pc' = [pc EXCEPT ![w] = "visit"]
  /\ \A v \in Workers \ {w} : verdict'[v] = verdict[v]
  /\ UNCHANGED <<completion, told>>

Completed(w) ==
  /\ pc[w] = "complete"
  /\ completion' = (IF completion = Absent THEN verdict[w] ELSE completion)
  /\ pc'[w] = "idle" /\ executed'[w] = 0
  /\ told'[w] \in {"verified", "error"}
  /\ Others(w)
  /\ UNCHANGED result

\* A worker that comes to the completion step carries this moment's clean audit.
AuditsNow(w) == AuditIsClean /\ verdict'[w] = Audit

Moved(w) ==
  /\ pc'[w] = "complete" =>
       AuditsNow(w) \/ (pc[w] = "complete" /\ verdict'[w] = verdict[w])
  /\ executed'[w] \in {0, executed[w]}
  /\ told'[w] = "completed" => told[w] = "completed" \/ Stored = Jobs
  /\ told'[w] = "verified" => told[w] = "verified"

Quiet == UNCHANGED <<result, completion>> /\ \A w \in Workers : Moved(w)

\* Every step of the program writes a fresh result, completes the run, or does neither.
LEMMA StepSorts ==
  ASSUME WellFormed, [Next]_vars
  PROVE  Tamper \/ Quiet \/ \E w \in Workers : Wrote(w) \/ Completed(w)
<1>t. TypeOK /\ MemoryOK /\ MemoryFits
  BY DEF WellFormed, TypeOK, MemoryOK
<1>o. ASSUME NEW w \in Workers, Others(w), UNCHANGED <<result, completion>>, Moved(w)
      PROVE  Quiet
  BY <1>o DEF Quiet, Moved, Others
<1>e. ASSUME NEW w \in Workers, NEW what \in Reports \ {"completed", "verified"},
             End(w, what), UNCHANGED <<result, completion>>
      PROVE  Quiet
  <2>1. Others(w) /\ pc'[w] = "idle" /\ executed'[w] = 0 /\ told'[w] = what
    BY <1>e, <1>t, EndEffect
  <2> QED
    BY <2>1, <1>e, <1>o DEF Moved
<1>r. ASSUME NEW w \in Workers, NEW c, NEW step \in Steps \ {"complete"},
             Require(w, c, step), UNCHANGED <<result, completion>>
      PROVE  Quiet
  <2>1. /\ Others(w) /\ pc'[w] # "complete" /\ executed'[w] \in {0, executed[w]}
        /\ told'[w] \in {told[w], "error"}
    BY <1>r, <1>t, RequireEffect
  <2> QED
    BY <2>1, <1>r, <1>o DEF Moved
<1>1. ASSUME NEW w \in Workers, NEW s \in Settings, Launch(w, s) PROVE Quiet
  BY <1>1, <1>t DEF Launch, Quiet, Moved, disk, Goto, MemoryOK
<1>2. ASSUME NEW w \in Workers, BindCheck(w) \/ BindPublish(w) \/ ScanStored(w)
             \/ ClosureCheck(w) \/ ClosurePublish(w) \/ Validate(w)
      PROVE  Quiet
  <2>1. UNCHANGED <<result, completion>>
    BY <1>2 DEF BindCheck, BindPublish, ScanStored, ClosureCheck, ClosurePublish,
                Validate, disk
  <2>2. CASE BindCheck(w)
    BY <2>1, <2>2, <1>r DEF BindCheck, Steps
  <2>3. CASE BindPublish(w)
    BY <2>1, <2>3, <1>r DEF BindPublish, Steps
  <2>4. CASE ScanStored(w)
    BY <2>1, <2>4, <1>r DEF ScanStored, Steps
  <2>5. CASE ClosureCheck(w)
    BY <2>1, <2>5, <1>r DEF ClosureCheck, Steps
  <2>6. CASE ClosurePublish(w)
    BY <2>1, <2>6, <1>r DEF ClosurePublish, Steps
  <2>7. CASE Validate(w)
    BY <2>1, <2>7, <1>r DEF Validate, Steps
  <2> QED
    BY <1>2, <2>2, <2>3, <2>4, <2>5, <2>6, <2>7
<1>3. ASSUME NEW w \in Workers, LeaveWalk(w) \/ StartJob(w) PROVE Quiet
  <2>1. Others(w) /\ pc'[w] # "complete" /\ executed' = executed /\ told' = told
    BY <1>3, <1>t, CarryEffect DEF LeaveWalk, StartJob, Steps
  <2> QED
    BY <1>3, <2>1, <1>o DEF Moved, LeaveWalk, StartJob, disk
<1>4. ASSUME NEW w \in Workers, SkipExisting(w) PROVE Quiet
  <2>1. End(w, "error") \/ UNCHANGED <<pc, executed, verdict, told>>
    BY <1>4 DEF SkipExisting
  <2> QED
    BY <1>4, <2>1, <1>e DEF SkipExisting, disk, Reports, Quiet, Moved
<1>5. ASSUME NEW w \in Workers, NEW v \in Verdicts, Compare(w, v) PROVE Quiet
  BY <1>5, <1>t DEF Compare, Quiet, Moved, disk, Goto, MemoryOK
<1>6. ASSUME NEW w \in Workers, Drift(w) \/ Crash(w) PROVE Quiet
  BY <1>6, <1>e DEF Drift, Crash, disk, Reports
<1>7. ASSUME NEW w \in Workers, WriteResult(w) PROVE Quiet \/ Wrote(w)
  <2>1. CASE result[at[w]] # Absent
    BY <1>7, <2>1, <1>e DEF WriteResult, Reports
  <2>2. CASE result[at[w]] = Absent
    <3>1. at[w] \in Jobs
      BY <1>7, <1>t DEF WriteResult, MemoryFits, MemoryOK, Jobs
    <3> QED
      BY <1>7, <2>2, <3>1, <1>t DEF WriteResult, Wrote, Goto, MemoryOK
  <2> QED
    BY <2>1, <2>2
<1>8. ASSUME NEW w \in Workers, CountRemaining(w) PROVE Quiet
  <2>1. UNCHANGED <<result, completion>>
    BY <1>8 DEF CountRemaining, disk
  <2>2. \/ End(w, "partial")
        \/ End(w, "completed") /\ Stored = Jobs
        \/ Goto(w, "audit") /\ Carry
    BY <1>8 DEF CountRemaining
  <2>3. CASE End(w, "completed") /\ Stored = Jobs
    <3>1. Others(w) /\ pc'[w] = "idle" /\ executed'[w] = 0 /\ told'[w] = "completed"
      BY <2>3, <1>t, EndEffect DEF Reports
    <3> QED
      BY <3>1, <2>1, <2>3, <1>o DEF Moved
  <2>4. CASE Goto(w, "audit") /\ Carry
    <3>1. Others(w) /\ pc'[w] = "audit" /\ executed' = executed /\ told' = told
      BY <2>4, <1>t, CarryEffect DEF Steps
    <3> QED
      BY <3>1, <2>1, <1>o DEF Moved
  <2> QED
    BY <2>1, <2>2, <2>3, <2>4, <1>e DEF Reports
<1>9. ASSUME NEW w \in Workers, RunAudit(w) PROVE Quiet
  <2>1. UNCHANGED <<result, completion>>
    BY <1>9 DEF RunAudit, disk
  <2>2. CASE AuditIsClean
    <3>1. /\ verdict' = [verdict EXCEPT ![w] = Audit]
          /\ pc' = [pc EXCEPT ![w] = "complete"]
          /\ UNCHANGED <<job, at, executed, told>>
      BY <1>9, <2>2 DEF RunAudit, Goto
    <3>2. verdict'[w] = Audit
      BY <3>1, <1>t DEF MemoryOK
    <3>3. Others(w)
      BY <3>1, <1>t DEF MemoryOK, Others
    <3>4. Moved(w)
      BY <3>1, <3>2, <2>2 DEF Moved, AuditsNow
    <3> QED
      BY <2>1, <3>3, <3>4, <1>o
  <2>3. CASE ~AuditIsClean
    BY <1>9, <2>1, <2>3, <1>e DEF RunAudit, Reports
  <2> QED
    BY <2>2, <2>3
<1>10. ASSUME NEW w \in Workers, EnsureCompletion(w) PROVE Completed(w)
  <2>1. PICK what \in {"verified", "error"} : End(w, what)
    BY <1>10 DEF EnsureCompletion
  <2>2. Others(w) /\ pc'[w] = "idle" /\ executed'[w] = 0 /\ told'[w] = what
    BY <2>1, <1>t, EndEffect DEF Reports
  <2> QED
    BY <1>10, <2>2 DEF EnsureCompletion, Completed
<1>11. CASE UNCHANGED vars
  BY <1>11 DEF vars, disk, memory, Quiet, Moved
<1> QED
  BY <1>1, <1>2, <1>3, <1>4, <1>5, <1>6, <1>7, <1>8, <1>9, <1>10, <1>11
  DEF Next, Step

LEMMA StepKinds ==
  ASSUME WellFormed, Tampering = {}, [Next]_vars
  PROVE  Quiet \/ \E w \in Workers : Wrote(w) \/ Completed(w)
<1>1. ~Tamper
  BY DEF Tamper, Unbind, Spoil
<1> QED
  BY <1>1, StepSorts

-----------------------------------------------------------------------------
(* The results and what each executor counted among them.                  *)

By(w) == {j \in Jobs : Sound(j) /\ result[j].by = w}

LEMMA ByIsFinite ==
  \A w \in Workers : IsFiniteSet(By(w)) /\ Cardinality(By(w)) \in Nat
<1>1. IsFiniteSet(Jobs)
  BY NJobsAssumption, FS_Interval DEF Jobs
<1>2. \A w \in Workers : By(w) \subseteq Jobs
  BY DEF By
<1> QED
  BY <1>1, <1>2, FS_Subset, FS_CardinalityType

\* What a fresh result changes.
LEMMA WriteEffect ==
  ASSUME WellFormed, NEW w \in Workers, Wrote(w)
  PROVE  /\ Stored' = Stored \cup {at[w]}
         /\ \A j \in Jobs : Sound(j)' <=> Sound(j) \/ j = at[w]
         /\ \A j \in Jobs \ {at[w]} : result'[j] = result[j]
         /\ result'[at[w]].by = w
<1>1. /\ result'[at[w]] = Record(w)
      /\ \A j \in Jobs \ {at[w]} : result'[j] = result[j]
  BY DEF WellFormed, TypeOK, Wrote
<1>2. Record(w) \notin {Absent, Unsound}
  BY RecordType DEF Wrote
<1>3. Record(w).by = w
  BY DEF Record
<1> QED
  BY <1>1, <1>2, <1>3 DEF Wrote, Stored, Sound

LEMMA WriteCounts ==
  ASSUME WellFormed, CountedResultsAreStored, NEW w \in Workers, Wrote(w)
  PROVE  CountedResultsAreStored'
<1>1. executed \in [Workers -> 0 .. NJobs]
  BY DEF WellFormed, TypeOK
<1>e. /\ at[w] \in Jobs /\ ~Sound(at[w])
      /\ \A j \in Jobs : Sound(j)' <=> Sound(j) \/ j = at[w]
      /\ \A j \in Jobs \ {at[w]} : result'[j] = result[j]
      /\ result'[at[w]].by = w
  BY WriteEffect DEF Wrote, Sound
<1>2. By(w)' = By(w) \cup {at[w]} /\ at[w] \notin By(w)
  <2>1. By(w)' = {j \in Jobs : Sound(j)' /\ result'[j].by = w}
    BY DEF By
  <2> QED
    BY <1>e, <2>1 DEF By
<1>3. Cardinality(By(w)') = Cardinality(By(w)) + 1
  BY <1>2, ByIsFinite, FS_AddElement
<1>4. executed'[w] = executed[w] + 1
  BY <1>1 DEF Wrote
<1>5. executed'[w] <= Cardinality(By(w)')
  <2>1. executed[w] <= Cardinality(By(w))
    BY DEF CountedResultsAreStored, By
  <2>2. Cardinality(By(w)) \in Nat /\ executed[w] \in Nat
    BY <1>1, ByIsFinite
  <2> QED
    BY <1>3, <1>4, <2>1, <2>2
<1>6. ASSUME NEW v \in Workers \ {w} PROVE executed'[v] <= Cardinality(By(v)')
  <2>1. executed'[v] = executed[v]
    BY <1>1 DEF Wrote
  <2>2. By(v)' = By(v)
    <3>1. By(v)' = {j \in Jobs : Sound(j)' /\ result'[j].by = v}
      BY DEF By
    <3> QED
      BY <1>e, <3>1 DEF By
  <2> QED
    BY <2>1, <2>2 DEF CountedResultsAreStored, By
<1> QED
  BY <1>5, <1>6 DEF CountedResultsAreStored, By

-----------------------------------------------------------------------------
(***************************************************************************)
(* CompletionIsEarned is not inductive: the completion is written from an  *)
(* audit taken earlier.  It survives because a whole run stays as it is:   *)
(* AuditorsAreRight carries the audit over the steps in between.           *)
(***************************************************************************)
AuditorsAreRight ==
  \A w \in Workers : pc[w] = "complete" => AuditIsClean /\ verdict[w] = Audit

ReportsAreKept ==
  \A w \in Workers :
    /\ told[w] = "completed" => Stored = Jobs
    /\ told[w] = "verified" => completion # Absent

HonestInv ==
  /\ WellFormed
  /\ StoredSound
  /\ AuditorsAreRight
  /\ CompletionIsEarned
  /\ ReportsAreKept
  /\ CountedResultsAreStored

LEMMA InitHonest == Init => HonestInv
<1> SUFFICES ASSUME Init PROVE HonestInv
  OBVIOUS
<1>1. Stored = {}
  BY DEF Init, Stored
<1>2. CountedResultsAreStored
  <2>1. \A w \in Workers : executed[w] = 0 /\ executed[w] <= Cardinality(By(w))
    BY ByIsFinite DEF Init
  <2> QED
    BY <2>1 DEF CountedResultsAreStored, By
<1> QED
  BY <1>1, <1>2, InitWellFormed
  DEF Init, HonestInv, StoredSound, AuditorsAreRight, CompletionIsEarned, ReportsAreKept

LEMMA HonestStep ==
  ASSUME Tampering = {}, HonestInv, [Next]_vars
  PROVE  HonestInv'
<1>w. WellFormed /\ WellFormed'
  BY WellFormedStep DEF HonestInv
<1>k. Quiet \/ \E w \in Workers : Wrote(w) \/ Completed(w)
  BY <1>w, StepKinds
<1>1. ASSUME UNCHANGED result
      PROVE  /\ Stored' = Stored /\ StoredSound'
             /\ AuditIsClean' = AuditIsClean /\ Audit' = Audit
             /\ \A w \in Workers : By(w)' = By(w)
  BY <1>1 DEF HonestInv, Stored, StoredSound, Sound, AuditIsClean, Audit, Count, By
<1>2. CASE Quiet
  <2>1. AuditorsAreRight'
    BY <1>1, <1>2 DEF HonestInv, AuditorsAreRight, Quiet, Moved, AuditsNow
  <2>2. CompletionIsEarned'
    BY <1>1, <1>2 DEF HonestInv, CompletionIsEarned, CompletionMatches, Quiet
  <2>3. ReportsAreKept'
    BY <1>1, <1>2 DEF HonestInv, ReportsAreKept, Quiet, Moved
  <2>4. CountedResultsAreStored'
    BY <1>1, <1>2, ByIsFinite
    DEF HonestInv, CountedResultsAreStored, By, Quiet, Moved
  <2> QED
    BY <1>w, <1>1, <1>2, <2>1, <2>2, <2>3, <2>4 DEF HonestInv, Quiet
<1>3. ASSUME NEW w \in Workers, Wrote(w) PROVE HonestInv'
  <2>1. StoredSound'
    BY <1>3, <1>w, WriteEffect DEF HonestInv, StoredSound, Stored
  <2>2. Stored # Jobs /\ ~AuditIsClean
    BY <1>3 DEF Wrote, Stored, AuditIsClean
  <2>3. AuditorsAreRight'
    BY <1>3, <1>w, <2>2 DEF HonestInv, AuditorsAreRight, Wrote, WellFormed, TypeOK
  <2>4. completion' = Absent
    BY <1>3, <2>2 DEF HonestInv, CompletionIsEarned, CompletionMatches, Wrote
  <2>5. ReportsAreKept'
    BY <1>3, <2>2, <2>4 DEF HonestInv, ReportsAreKept, Wrote
  <2>6. CountedResultsAreStored'
    BY <1>3, <1>w, WriteCounts DEF HonestInv
  <2> QED
    BY <1>w, <2>1, <2>3, <2>4, <2>5, <2>6 DEF HonestInv, CompletionIsEarned
<1>4. ASSUME NEW w \in Workers, Completed(w) PROVE HonestInv'
  <2>1. UNCHANGED result
    BY <1>4 DEF Completed
  <2>2. AuditIsClean /\ verdict[w] = Audit
    BY <1>4 DEF HonestInv, AuditorsAreRight, Completed
  <2>3. Audit # Absent
    BY AuditType, AbsentAssumption DEF Audit, Audits
  <2>4. completion' = Audit
    BY <1>4, <2>2 DEF HonestInv, CompletionIsEarned, CompletionMatches, Completed
  <2>5. AuditorsAreRight'
    BY <1>1, <1>4, <2>1 DEF HonestInv, AuditorsAreRight, Completed, Others
  <2>6. CompletionIsEarned'
    BY <1>1, <2>1, <2>2, <2>4 DEF CompletionIsEarned, CompletionMatches
  <2>7. ReportsAreKept'
    BY <1>1, <1>4, <2>1, <2>3, <2>4 DEF HonestInv, ReportsAreKept, Completed, Others
  <2>8. CountedResultsAreStored'
    BY <1>1, <1>4, <2>1, ByIsFinite
    DEF HonestInv, CountedResultsAreStored, By, Completed, Others
  <2> QED
    BY <1>w, <1>1, <2>1, <2>5, <2>6, <2>7, <2>8 DEF HonestInv
<1> QED
  BY <1>k, <1>2, <1>3, <1>4

LEMMA AlwaysHonest == ASSUME Tampering = {} PROVE Spec => []HonestInv
<1>1. HonestInv /\ [Next]_vars => HonestInv'
  BY HonestStep
<1> QED
  BY <1>1, InitHonest, PTL DEF Spec

\* Where an inspection finds a run that nothing outside has touched.
Place ==
  IF completion # Absent THEN "VERIFIED"
  ELSE IF Stored = {} THEN "PLANNED"
  ELSE IF Stored # Jobs THEN "PARTIAL"
  ELSE "COMPLETE"

LEMMA RunStateIsPlace == HonestInv => RunState = Place
<1> SUFFICES ASSUME HonestInv PROVE RunState = Place
  OBVIOUS
<1>1. StoredSound /\ (completion # Absent => CompletionMatches)
  BY DEF HonestInv, CompletionIsEarned
<1>2. CompletionMatches => completion # Absent
  BY DEF CompletionMatches
<1> QED
  BY <1>1, <1>2 DEF RunState, Place

LEMMA PlaceAdvances ==
  ASSUME Tampering = {}, HonestInv, [Next]_vars
  PROVE  Rank[Place'] >= Rank[Place]
<1>1. Quiet \/ \E w \in Workers : Wrote(w) \/ Completed(w)
  BY StepKinds DEF HonestInv
<1>2. CASE Quiet
  <2>1. Place' = Place
    BY <1>2 DEF Quiet, Place, Stored
  <2> QED
    BY <2>1 DEF Place, Rank
<1>3. ASSUME NEW w \in Workers, Wrote(w) PROVE Rank[Place'] >= Rank[Place]
  <2>1. Stored' # {}
    BY <1>3, WriteEffect DEF HonestInv
  <2>2. Stored # Jobs
    BY <1>3 DEF Wrote, Stored
  <2>3. completion = Absent /\ completion' = Absent
    BY <1>3, <2>2
    DEF HonestInv, CompletionIsEarned, CompletionMatches, AuditIsClean, Wrote
  <2>4. Place \in {"PLANNED", "PARTIAL"} /\ Place' \in {"PARTIAL", "COMPLETE"}
    BY <2>1, <2>2, <2>3 DEF Place
  <2> QED
    BY <2>4 DEF Rank
<1>4. ASSUME NEW w \in Workers, Completed(w) PROVE Rank[Place'] >= Rank[Place]
  <2>1. verdict[w] \in Audits
    BY <1>4 DEF HonestInv, WellFormed, MemoryFits, Completed
  <2>2. Place' = "VERIFIED"
    BY <1>4, <2>1, AbsentAssumption DEF Completed, Place
  <2>3. Place \in {"VERIFIED", "PLANNED", "PARTIAL", "COMPLETE"}
    BY DEF Place
  <2> QED
    BY <2>2, <2>3 DEF Rank
<1> QED
  BY <1>1, <1>2, <1>3, <1>4

-----------------------------------------------------------------------------
\* completion.json is written only over a whole run and states its counts, and
\* what an executor reported stays what an inspection finds, although other
\* executors write, audit and complete between its own steps.
THEOREM CompletionIsTrue ==
  ASSUME Tampering = {} PROVE Spec => []ReportsAreTrue
<1>1. HonestInv => ReportsAreTrue
  <2> SUFFICES ASSUME HonestInv, NEW w \in Workers
               PROVE  /\ told[w] = "verified" => RunState = "VERIFIED"
                      /\ told[w] = "completed" => RunState \in {"COMPLETE", "VERIFIED"}
    BY DEF HonestInv, ReportsHold, ReportsAreTrue
  <2>1. Jobs # {}
    BY NJobsAssumption DEF Jobs
  <2> QED
    BY <2>1, RunStateIsPlace DEF Place, HonestInv, ReportsAreKept
<1> QED
  BY <1>1, AlwaysHonest, PTL

\* Every result an executor counted as its own is on disk under its name: the
\* loser of a race for a job never counts the winner's.
THEOREM CountsAreStored ==
  ASSUME Tampering = {} PROVE Spec => []CountedResultsAreStored
<1>1. HonestInv => CountedResultsAreStored
  BY DEF HonestInv
<1> QED
  BY <1>1, AlwaysHonest, PTL

\* The inspected state of a run never goes back, whatever its executors do.
THEOREM OnlyForward == ASSUME Tampering = {} PROVE Spec => ProgressOnlyAdvances
<1>1. HonestInv /\ HonestInv' /\ [Next]_vars => [Rank[RunState'] >= Rank[RunState]]_vars
  <2>1. HonestInv => RunState = Place
    BY RunStateIsPlace
  <2>2. (HonestInv => RunState = Place)'
    BY <2>1, PTL
  <2> QED
    BY <2>1, <2>2, PlaceAdvances
<1> QED
  BY <1>1, AlwaysHonest, PTL DEF Spec, ProgressOnlyAdvances

-----------------------------------------------------------------------------
(***************************************************************************)
(* With tampering of any kind: a damaged result stays damaged, so an       *)
(* executor started over one meets it in the scan, or in the validation    *)
(* that follows, and never reaches the walk.                               *)
(***************************************************************************)
BeforeWalk ==
  {"idle", "bindCheck", "bindPublish", "scan", "closureCheck", "closurePublish", "validate"}

Stopped(w) ==
  pc[w] \in BeforeWalk /\ executed[w] = 0 /\ told[w] \in {"nothing", "died", "error"}

DamageInv ==
  /\ WellFormed
  /\ \A w \in Workers : tainted[w] => ~StoredSound /\ Stopped(w)
  /\ \A w \in Workers : pc[w] \in BeforeWalk => executed[w] = 0

\* Nothing repairs a damaged result.
LEMMA DamageStays == ASSUME WellFormed, [Next]_vars, ~StoredSound PROVE ~StoredSound'
<1>1. PICK j \in Jobs : result[j] = Unsound
  BY DEF StoredSound, Stored, Sound
<1>2. Unsound # Absent /\ \A i \in Jobs : result[i] \in Results \cup {Absent, Unsound}
  BY UnsoundAssumption DEF WellFormed, TypeOK
<1>3. result'[j] = Unsound => ~StoredSound'
  BY <1>2 DEF StoredSound, Stored, Sound
<1>4. CASE UNCHANGED result
  BY <1>1, <1>3, <1>4
<1>5. ASSUME NEW i \in Jobs, Spoil(i) PROVE ~StoredSound'
  BY <1>1, <1>3, <1>5 DEF Spoil, Sound, WellFormed, TypeOK
<1>6. ASSUME NEW w \in Workers, WriteResult(w) PROVE ~StoredSound'
  <2>1. at[w] # j => result'[j] = result[j]
    BY <1>6 DEF WriteResult, WellFormed, TypeOK
  <2> QED
    BY <2>1, <1>1, <1>2, <1>3, <1>4, <1>6 DEF WriteResult
<1>7. ASSUME NEW w \in Workers, NEW s \in Settings, Launch(w, s) PROVE UNCHANGED result
  BY <1>7 DEF Launch, disk
<1>8. ASSUME NEW w \in Workers, NEW v \in Verdicts, Compare(w, v) PROVE UNCHANGED result
  BY <1>8 DEF Compare, disk
<1>9. ASSUME NEW w \in Workers,
             \/ BindCheck(w) \/ BindPublish(w) \/ ScanStored(w)
             \/ ClosureCheck(w) \/ ClosurePublish(w) \/ Validate(w)
             \/ LeaveWalk(w) \/ SkipExisting(w) \/ StartJob(w)
             \/ CountRemaining(w) \/ RunAudit(w) \/ EnsureCompletion(w)
             \/ Drift(w) \/ Crash(w)
      PROVE  UNCHANGED result
  BY <1>9
  DEF BindCheck, BindPublish, ScanStored, ClosureCheck, ClosurePublish, Validate,
      LeaveWalk, SkipExisting, StartJob, CountRemaining, RunAudit, EnsureCompletion,
      Drift, Crash, disk
<1>10. CASE Unbind
  BY <1>4, <1>10 DEF Unbind
<1>11. CASE UNCHANGED vars
  BY <1>4, <1>11 DEF vars, disk
<1> QED
  BY <1>4, <1>5, <1>6, <1>7, <1>8, <1>9, <1>10, <1>11 DEF Next, Step, Tamper

LEMMA DamageStep == ASSUME DamageInv, [Next]_vars PROVE DamageInv'
<1>t. TypeOK /\ MemoryOK /\ MemoryFits /\ WellFormed /\ WellFormed'
  BY WellFormedStep DEF DamageInv, WellFormed, TypeOK, MemoryOK
<1>s. ~StoredSound => ~StoredSound'
  BY <1>t, DamageStays
<1> DEFINE Kept(w) ==
             /\ Others(w) /\ UNCHANGED tainted
             /\ pc'[w] \in BeforeWalk => executed'[w] = 0
             /\ tainted[w] => Stopped(w)'
\* It is enough that the worker that moved is as it should be.
<1>k. ASSUME NEW w \in Workers, Kept(w) PROVE DamageInv'
  BY <1>k, <1>s, <1>t DEF DamageInv, Stopped, Others
<1>e. ASSUME NEW w \in Workers, NEW what \in Reports, End(w, what), UNCHANGED tainted,
             tainted[w] => what \in {"died", "error"}
      PROVE  DamageInv'
  <2>1. Others(w) /\ pc'[w] = "idle" /\ executed'[w] = 0 /\ told'[w] = what
    BY <1>e, <1>t, EndEffect
  <2> QED
    BY <2>1, <1>e, <1>k DEF Stopped, BeforeWalk
<1>r. ASSUME NEW w \in Workers, NEW c, NEW step \in BeforeWalk, pc[w] \in BeforeWalk,
             Require(w, c, step), UNCHANGED tainted
      PROVE  DamageInv'
  <2>1. /\ Others(w)
        /\ \/ pc'[w] = step /\ executed' = executed /\ told' = told
           \/ pc'[w] = "idle" /\ executed'[w] = 0 /\ told'[w] = "error"
    BY <1>r, <1>t, RequireEffect DEF BeforeWalk, Steps
  <2>2. executed[w] = 0 /\ (tainted[w] => Stopped(w))
    BY <1>r DEF DamageInv
  <2> QED
    BY <2>1, <2>2, <1>r, <1>k DEF Stopped, BeforeWalk
\* A tainted worker is not past the walk's start.
<1>p. ASSUME NEW w \in Workers, pc[w] \notin BeforeWalk PROVE ~tainted[w]
  BY <1>p DEF DamageInv, Stopped
<1>m. ASSUME NEW w \in Workers, pc[w] \notin BeforeWalk, pc'[w] \notin BeforeWalk,
             Others(w), UNCHANGED tainted
      PROVE  DamageInv'
  BY <1>m, <1>p, <1>k
<1>1. ASSUME NEW w \in Workers, NEW s \in Settings, Launch(w, s) PROVE DamageInv'
  <2>1. /\ pc[w] = "idle" /\ executed[w] = 0
        /\ pc' = [pc EXCEPT ![w] = "bindCheck"]
        /\ told' = [told EXCEPT ![w] = "nothing"]
        /\ tainted' = [tainted EXCEPT ![w] = ~StoredSound]
        /\ executed' = executed
    BY <1>1 DEF Launch, Goto, DamageInv, BeforeWalk
  <2>2. Stopped(w)' /\ (tainted'[w] => ~StoredSound)
    BY <2>1, <1>t DEF TypeOK, Stopped, BeforeWalk
  <2>3. ASSUME NEW v \in Workers \ {w}
        PROVE  pc'[v] = pc[v] /\ told'[v] = told[v] /\ tainted'[v] = tainted[v]
    BY <2>1, <1>t DEF TypeOK
  <2>4. \A v \in Workers : tainted'[v] => ~StoredSound' /\ Stopped(v)'
    BY <2>1, <2>2, <2>3, <1>s DEF DamageInv, Stopped
  <2>5. \A v \in Workers : pc'[v] \in BeforeWalk => executed'[v] = 0
    BY <2>1, <2>3 DEF DamageInv
  <2> QED
    BY <2>4, <2>5, <1>t DEF DamageInv
<1>2. ASSUME NEW w \in Workers, BindCheck(w) \/ BindPublish(w) \/ ScanStored(w)
             \/ ClosureCheck(w) \/ ClosurePublish(w)
      PROVE  DamageInv'
  <2>1. CASE BindCheck(w)
    BY <2>1, <1>r DEF BindCheck, BeforeWalk
  <2>2. CASE BindPublish(w)
    BY <2>2, <1>r DEF BindPublish, BeforeWalk
  <2>3. CASE ScanStored(w)
    BY <2>3, <1>r DEF ScanStored, BeforeWalk
  <2>4. CASE ClosureCheck(w)
    BY <2>4, <1>r DEF ClosureCheck, BeforeWalk
  <2>5. CASE ClosurePublish(w)
    BY <2>5, <1>r DEF ClosurePublish, BeforeWalk
  <2> QED
    BY <1>2, <2>1, <2>2, <2>3, <2>4, <2>5
<1>3. ASSUME NEW w \in Workers, Validate(w) PROVE DamageInv'
  <2>1. CASE StoredSound
    <3>1. ~tainted[w] /\ Others(w) /\ pc'[w] = "visit"
      BY <1>3, <2>1, <1>t, CarryEffect DEF Validate, Require, DamageInv, Steps
    <3> QED
      BY <3>1, <1>3, <1>k DEF Validate, BeforeWalk
  <2>2. CASE ~StoredSound
    BY <1>3, <2>2, <1>e DEF Validate, Require, Reports
  <2> QED
    BY <2>1, <2>2
<1>4. ASSUME NEW w \in Workers, LeaveWalk(w) \/ StartJob(w) PROVE DamageInv'
  <2>1. Others(w) /\ pc[w] = "visit" /\ pc'[w] \in {"count", "compare"}
    BY <1>4, <1>t, CarryEffect DEF LeaveWalk, StartJob, Steps
  <2> QED
    BY <1>4, <2>1, <1>m DEF LeaveWalk, StartJob, BeforeWalk
<1>5. ASSUME NEW w \in Workers, SkipExisting(w) PROVE DamageInv'
  <2>1. pc[w] = "visit" /\ UNCHANGED tainted
    BY <1>5 DEF SkipExisting
  <2>2. CASE /\ at' = [at EXCEPT ![w] = @ + 1]
             /\ UNCHANGED <<pc, job, executed, verdict, told>>
    <3>1. Others(w) /\ pc' = pc
      BY <2>2, <1>t DEF MemoryOK, Others
    <3> QED
      BY <3>1, <2>1, <1>m DEF BeforeWalk
  <2>3. CASE End(w, "error")
    BY <2>1, <2>3, <1>e, <1>p DEF Reports
  <2> QED
    BY <1>5, <2>2, <2>3 DEF SkipExisting
<1>6. ASSUME NEW w \in Workers, NEW v \in Verdicts, Compare(w, v) PROVE DamageInv'
  <2>1. Others(w) /\ pc[w] = "compare" /\ pc'[w] = "write" /\ UNCHANGED tainted
    BY <1>6, <1>t DEF Compare, Goto, MemoryOK, Others
  <2> QED
    BY <2>1, <1>m DEF BeforeWalk
<1>7. ASSUME NEW w \in Workers, Drift(w) \/ Crash(w) PROVE DamageInv'
  BY <1>7, <1>e, <1>p DEF Drift, Crash, Reports, BeforeWalk
<1>8. ASSUME NEW w \in Workers, WriteResult(w) PROVE DamageInv'
  <2>1. CASE result[at[w]] = Absent
    <3>1. Others(w) /\ pc[w] = "write" /\ pc'[w] = "visit" /\ UNCHANGED tainted
      BY <1>8, <2>1, <1>t DEF WriteResult, Goto, MemoryOK, Others
    <3> QED
      BY <3>1, <1>m DEF BeforeWalk
  <2>2. CASE result[at[w]] # Absent
    BY <1>8, <2>2, <1>e DEF WriteResult, Reports
  <2> QED
    BY <2>1, <2>2
<1>9. ASSUME NEW w \in Workers, CountRemaining(w) PROVE DamageInv'
  <2>1. pc[w] = "count" /\ UNCHANGED tainted
    BY <1>9 DEF CountRemaining
  <2>2. \/ End(w, "partial") \/ End(w, "completed")
        \/ Goto(w, "audit") /\ Carry
    BY <1>9 DEF CountRemaining
  <2>3. CASE Goto(w, "audit") /\ Carry
    <3>1. Others(w) /\ pc'[w] = "audit"
      BY <2>3, <1>t, CarryEffect DEF Steps
    <3> QED
      BY <3>1, <2>1, <1>m DEF BeforeWalk
  <2> QED
    BY <2>1, <2>2, <2>3, <1>e, <1>p DEF Reports, BeforeWalk
<1>10. ASSUME NEW w \in Workers, RunAudit(w) PROVE DamageInv'
  <2>1. CASE AuditIsClean
    <3>1. Others(w) /\ pc[w] = "audit" /\ pc'[w] = "complete" /\ UNCHANGED tainted
      BY <1>10, <2>1, <1>t DEF RunAudit, Goto, MemoryOK, Others
    <3> QED
      BY <3>1, <1>m DEF BeforeWalk
  <2>2. CASE ~AuditIsClean
    BY <1>10, <2>2, <1>e DEF RunAudit, Reports
  <2> QED
    BY <2>1, <2>2
<1>11. ASSUME NEW w \in Workers, EnsureCompletion(w) PROVE DamageInv'
  <2>1. /\ pc[w] = "complete" /\ UNCHANGED tainted
        /\ End(w, "verified") \/ End(w, "error")
    BY <1>11 DEF EnsureCompletion
  <2> QED
    BY <2>1, <1>e, <1>p DEF Reports, BeforeWalk
<1>12. CASE UNCHANGED memory
  BY <1>12, <1>s, <1>t DEF memory, DamageInv, Stopped
<1>13. ASSUME Tamper PROVE UNCHANGED memory
  BY <1>13 DEF Tamper, Unbind, Spoil
<1> QED
  BY <1>1, <1>2, <1>3, <1>4, <1>5, <1>6, <1>7, <1>8, <1>9, <1>10, <1>11, <1>12, <1>13
  DEF Next, Step, vars

\* An executor started over a damaged result stores nothing and reports no
\* progress, whatever else is damaged, lost or unbound meanwhile.
THEOREM DamageStops == Spec => []DamageStopsWork
<1>1. Init => DamageInv
  BY InitWellFormed DEF Init, DamageInv
<1>2. DamageInv => DamageStopsWork
  BY DEF DamageInv, Stopped, DamageStopsWork
<1> QED
  BY <1>1, <1>2, DamageStep, PTL DEF Spec

-----------------------------------------------------------------------------
(***************************************************************************)
(* What a completion pins.  A damaged result stays damaged and a stored    *)
(* one stays stored, unless somebody deletes it; so a run that is still    *)
(* VERIFIED has the results its completion was written over.               *)
(***************************************************************************)
PinInv ==
  /\ WellFormed
  /\ \A w \in Workers : pc[w] = "complete" => Stored = Jobs
  /\ completion # Absent => Stored = Jobs /\ (StoredSound => result = certified)

\* The record of what a completion was written over is made as it is written.
LEMMA CertifiedKept ==
  ASSUME [Next]_vars
  PROVE  /\ completion # Absent => certified' = certified
         /\ completion' # completion => certified' = result
<1>1. ASSUME NEW w \in Workers, EnsureCompletion(w)
      PROVE  /\ completion # Absent => certified' = certified
             /\ completion' # completion => certified' = result
  BY <1>1 DEF EnsureCompletion
<1>2. ASSUME NEW w \in Workers,
             \/ \E s \in Settings : Launch(w, s)
             \/ BindCheck(w) \/ BindPublish(w) \/ ScanStored(w) \/ ClosureCheck(w)
             \/ ClosurePublish(w) \/ Validate(w) \/ LeaveWalk(w) \/ SkipExisting(w)
             \/ StartJob(w) \/ (\E v \in Verdicts : Compare(w, v)) \/ WriteResult(w)
             \/ CountRemaining(w) \/ RunAudit(w) \/ Drift(w) \/ Crash(w)
      PROVE  certified' = certified /\ completion' = completion
  BY <1>2 DEF Launch, BindCheck, BindPublish, ScanStored, ClosureCheck, ClosurePublish,
     Validate, LeaveWalk, SkipExisting, StartJob, Compare, WriteResult, CountRemaining,
     RunAudit, Drift, Crash, disk
<1>3. CASE Tamper
  BY <1>3 DEF Tamper, Unbind, Spoil
<1> QED
  BY <1>1, <1>2, <1>3 DEF Next, Step, vars, disk

LEMMA PinStep ==
  ASSUME "delete" \notin Tampering, PinInv, [Next]_vars PROVE PinInv'
<1>w. WellFormed /\ WellFormed'
  BY WellFormedStep DEF PinInv
<1>k. Tamper \/ Quiet \/ \E w \in Workers : Wrote(w) \/ Completed(w)
  BY <1>w, StepSorts
<1>1. ASSUME UNCHANGED result PROVE Stored' = Stored /\ StoredSound' = StoredSound
  BY <1>1 DEF Stored, StoredSound, Sound
<1>2. CASE Quiet
  <2>1. \A w \in Workers : pc'[w] = "complete" => Stored = Jobs
    BY <1>2 DEF PinInv, Quiet, Moved, AuditsNow, AuditIsClean
  <2>2. completion # Absent => certified' = certified
    BY CertifiedKept
  <2> QED
    BY <1>w, <1>1, <1>2, <2>1, <2>2 DEF PinInv, Quiet
<1>3. ASSUME NEW w \in Workers, Wrote(w) PROVE PinInv'
  <2>1. Stored # Jobs
    BY <1>3 DEF Wrote, Stored
  <2>2. completion' = Absent
    BY <1>3, <2>1 DEF PinInv, Wrote
  <2>3. \A v \in Workers : pc'[v] # "complete"
    BY <1>3, <1>w, <2>1 DEF PinInv, Wrote, WellFormed, TypeOK
  <2> QED
    BY <1>w, <2>2, <2>3 DEF PinInv
<1>4. ASSUME NEW w \in Workers, Completed(w) PROVE PinInv'
  <2>1. UNCHANGED result /\ Stored = Jobs
    BY <1>4 DEF Completed, PinInv
  <2>2. \A v \in Workers : pc'[v] = "complete" => Stored = Jobs
    BY <2>1
  <2>3. completion' # Absent /\ StoredSound => result = certified'
    BY <1>4, CertifiedKept DEF PinInv, Completed
  <2> QED
    BY <1>w, <1>1, <2>1, <2>2, <2>3 DEF PinInv
<1>5. CASE Unbind
  BY <1>w, <1>1, <1>5 DEF Unbind, memory, PinInv
<1>6. ASSUME NEW j \in Jobs, Spoil(j) PROVE PinInv'
  <2>1. result' = [result EXCEPT ![j] = Unsound]
    <3>1. PICK way \in Tampering \ {"unbind"} : result' = [result EXCEPT ![j] = Leaves[way]]
      BY <1>6 DEF Spoil
    <3>2. way = "damage"
      BY TamperingAssumption
    <3>3. Leaves["damage"] = Unsound
      BY DEF Leaves
    <3> QED
      BY <3>1, <3>2, <3>3
  <2>2. Unsound # Absent
    BY UnsoundAssumption
  <2>3. Stored' = Stored /\ ~StoredSound'
    BY <1>6, <1>w, <2>1, <2>2 DEF Spoil, Stored, StoredSound, Sound, WellFormed, TypeOK
  <2>4. UNCHANGED <<completion, pc>>
    BY <1>6 DEF Spoil, memory
  <2> QED
    BY <1>w, <2>3, <2>4 DEF PinInv
<1> QED
  BY <1>k, <1>2, <1>3, <1>4, <1>5, <1>6 DEF Tamper

\* A completion pins the results as long as nobody deletes one, however executors
\* race and bindings are removed: a result that is damaged shows for good.
\* A deleted result may be computed again and be another one, which a run finds.
THEOREM CompletionPins ==
  ASSUME "delete" \notin Tampering PROVE Spec => []CompletionPinsResults
<1>1. Init => PinInv
  BY InitWellFormed DEF Init, PinInv
<1>2. PinInv /\ [Next]_vars => PinInv'
  BY PinStep
<1>3. PinInv => CompletionPinsResults
  <2>1. RunState = "VERIFIED" => StoredSound /\ completion # Absent
    BY DEF RunState, CompletionMatches
  <2> QED
    BY <2>1 DEF PinInv, CompletionPinsResults
<1> QED
  BY <1>1, <1>2, <1>3, PTL DEF Spec
=============================================================================
