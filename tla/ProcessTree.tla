----------------------------- MODULE ProcessTree -----------------------------
(* One external tool, run to its end or to its deadline by                  *)
(* run_external_command (adapters/support/process.py).  A tool may start    *)
(* processes of its own.  On POSIX it is the leader of a new session and a  *)
(* timeout ends its process group; on Windows it is put into a job.  The    *)
(* module calls both the container.                                         *)
EXTENDS Integers, FiniteSets

CONSTANTS
  NProcesses,   \* bound: the tool and the processes it starts
  OsMaxFaults   \* bound: what the operating system fails to do

ASSUME TreeAssumption == NProcesses \in Nat \ {0} /\ OsMaxFaults \in Nat

Platforms == {"posix", "windows"}
Tool == 1

VARIABLES
  platform,
  treeAt,     \* where run_external_command is
  born,       \* processes started so far
  running,    \* those that run
  zombies,    \* those that ended and nobody has waited for
  container,  \* those in the group or the job
  result,     \* "none", "launch_failed", "exited", "timed_out", "raised"
  osFaults,
  lateExit    \* history: the tool ended by itself as its deadline passed

tree == <<born, running, zombies, container>>
treeVars == <<platform, treeAt, tree, result, osFaults, lateExit>>

OsFails == osFaults < OsMaxFaults /\ osFaults' = osFaults + 1

\* On Windows a process that ended is gone.
Unwaited(ps) == IF platform = "posix" THEN ps ELSE {}

\* Processes end.  Those that are not waited for are still of their group.
Finish(ps) ==
  /\ running' = running \ ps
  /\ zombies' = zombies \cup Unwaited(ps \cap running)

\* _process_group_exists: signal 0 reaches zombies, too.
GroupExists == container \cap (running \cup zombies) # {}

TreeInit ==
  /\ platform \in Platforms /\ treeAt = "launch"
  /\ born = {} /\ running = {} /\ zombies = {} /\ container = {}
  /\ result = "none" /\ osFaults = 0 /\ lateExit = FALSE

GoTo(next) == treeAt' = next /\ UNCHANGED result

Conclude(how) == treeAt' = "over" /\ result' = how

\* The last handle of a job ends its processes; a group has no handle.
CloseJob ==
  IF platform = "windows" THEN Finish(container) ELSE UNCHANGED <<running, zombies>>

-----------------------------------------------------------------------------
\* The tool does not start; on Windows there may be no job for it, either.
LaunchFails ==
  /\ treeAt = "launch" /\ OsFails
  /\ \/ Conclude("launch_failed")
     \/ platform = "windows" /\ Conclude("raised")
  /\ UNCHANGED <<platform, tree, lateExit>>

Launch ==
  /\ treeAt = "launch"
  /\ born' = {Tool} /\ running' = {Tool}
  /\ container' = IF platform = "posix" THEN {Tool} ELSE {}
  /\ GoTo(IF platform = "posix" THEN "wait" ELSE "assign")
  /\ UNCHANGED <<platform, zombies, osFaults, lateExit>>

\* The tool may have ended, or started others, before it is in the job.
Assign ==
  /\ treeAt = "assign"
  /\ container' = {Tool} \cap running
  /\ GoTo("wait")
  /\ UNCHANGED <<platform, born, running, zombies, osFaults, lateExit>>

AssignFails ==
  /\ treeAt = "assign" /\ Tool \in running /\ OsFails
  /\ Finish({Tool})
  /\ Conclude("raised")
  /\ UNCHANGED <<platform, born, container, lateExit>>

WaitReturns ==
  /\ treeAt = "wait" /\ Tool \notin running
  /\ IF platform = "windows"
       THEN CloseJob
       ELSE zombies' = zombies \ {Tool} /\ UNCHANGED running
  /\ Conclude("exited")
  /\ UNCHANGED <<platform, born, container, osFaults, lateExit>>

\* Nothing ends the wait but the tool.
BugWaitExpires ==
  /\ treeAt = "wait" /\ Tool \notin running
  /\ GoTo(IF platform = "posix" THEN "term" ELSE "taskkill")
  /\ lateExit' = (Tool \notin running)
  /\ UNCHANGED <<platform, tree, osFaults>>

WaitExpires ==
  /\ treeAt = "wait"
  /\ GoTo(IF platform = "posix" THEN "term" ELSE "taskkill")
  /\ lateExit' = (Tool \notin running)
  /\ UNCHANGED <<platform, tree, osFaults>>

-----------------------------------------------------------------------------
(* _end_process_tree, POSIX.                                                *)

\* SIGTERM: whoever does not handle it ends now; the others may later.
SignalTerm ==
  /\ treeAt = "term"
  /\ \E ps \in SUBSET (container \cap running) : Finish(ps)
  /\ GoTo("grace")
  /\ UNCHANGED <<platform, born, container, osFaults, lateExit>>

\* Each round of the two loops looks at the group and polls the tool.
Poll ==
  /\ treeAt \in {"grace", "last"} /\ GroupExists
  /\ Tool \in zombies /\ zombies' = zombies \ {Tool}
  /\ UNCHANGED <<platform, treeAt, born, running, container, result, osFaults, lateExit>>

GroupIsGone ==
  /\ treeAt \in {"grace", "last"} /\ ~GroupExists
  /\ GoTo("reap")
  /\ UNCHANGED <<platform, tree, osFaults, lateExit>>

GraceEnds ==
  /\ treeAt = "grace"
  /\ GoTo(IF GroupExists THEN "kill" ELSE "reap")
  /\ UNCHANGED <<platform, tree, osFaults, lateExit>>

\* SIGKILL reaches everybody; what hangs in the kernel outlives it.
SignalKill ==
  /\ treeAt = "kill"
  /\ \/ Finish(container) /\ UNCHANGED osFaults
     \/ /\ OsFails
        /\ \E p \in container \cap running : Finish(container \ {p})
  /\ GoTo("last")
  /\ UNCHANGED <<platform, born, container, lateExit>>

LastEnds ==
  /\ treeAt = "last"
  /\ GoTo("reap")
  /\ UNCHANGED <<platform, tree, osFaults, lateExit>>

\* The tool is looked at but not waited for.
BugReap ==
  /\ treeAt = "reap" /\ Tool \notin running
  /\ GoTo("prove")
  /\ UNCHANGED <<platform, born, running, zombies, container, osFaults, lateExit>>

Reap ==
  /\ treeAt = "reap" /\ Tool \notin running
  /\ zombies' = zombies \ {Tool}
  /\ GoTo("prove")
  /\ UNCHANGED <<platform, born, running, container, osFaults, lateExit>>

ReapExpires ==
  /\ treeAt = "reap" /\ Tool \in running
  /\ Conclude("raised")
  /\ UNCHANGED <<platform, tree, osFaults, lateExit>>

\* A tool that is gone is taken for the group.
BugProve ==
  /\ treeAt = "prove"
  /\ Conclude("timed_out")
  /\ UNCHANGED <<platform, tree, osFaults, lateExit>>

Prove ==
  /\ treeAt = "prove"
  /\ Conclude(IF GroupExists THEN "raised" ELSE "timed_out")
  /\ UNCHANGED <<platform, tree, osFaults, lateExit>>

-----------------------------------------------------------------------------
(* _end_process_tree, Windows: taskkill, then the job, whatever taskkill    *)
(* said; both must succeed.  The job is closed on every way out.            *)

\* taskkill ends the tool and whom it finds below it; it fails if the tool has
\* ended, or if it is missing or late itself.
Taskkill ==
  /\ treeAt = "taskkill" /\ Tool \in running
  /\ \E ps \in SUBSET running : Tool \in ps /\ Finish(ps)
  /\ GoTo("job")
  /\ UNCHANGED <<platform, born, container, osFaults, lateExit>>

TaskkillFails ==
  /\ treeAt = "taskkill"
  /\ IF Tool \in running THEN OsFails ELSE UNCHANGED osFaults
  /\ Finish(container)
  /\ Conclude("raised")
  /\ lateExit' = (Tool \notin running)
  /\ UNCHANGED <<platform, born, container>>

TerminateJob ==
  /\ treeAt = "job"
  /\ Finish(container)
  /\ \/ Conclude("timed_out") /\ UNCHANGED osFaults
     \/ Conclude("raised") /\ OsFails
  /\ UNCHANGED <<platform, born, container, lateExit>>

-----------------------------------------------------------------------------
(* The processes of the tool.                                               *)

Spawn ==
  /\ \E p \in running, c \in (1..NProcesses) \ born :
       /\ \A d \in (1..NProcesses) \ born : c <= d
       /\ born' = born \cup {c} /\ running' = running \cup {c}
       /\ container' = IF p \in container THEN container \cup {c} ELSE container
  /\ UNCHANGED <<platform, treeAt, zombies, result, osFaults, lateExit>>

\* setsid: any process but the leader may leave the group.
Escape ==
  /\ platform = "posix"
  /\ \E p \in (running \cap container) \ {Tool} : container' = container \ {p}
  /\ UNCHANGED <<platform, treeAt, born, running, zombies, result, osFaults, lateExit>>

Exit ==
  /\ \E p \in running : Finish({p})
  /\ UNCHANGED <<platform, treeAt, born, container, result, osFaults, lateExit>>

\* A parent, or init for an orphan, waits for a descendant.
Wait ==
  /\ \E p \in zombies \ {Tool} : zombies' = zombies \ {p}
  /\ UNCHANGED <<platform, treeAt, born, running, container, result, osFaults, lateExit>>

-----------------------------------------------------------------------------
TreeCaller ==
  \/ LaunchFails \/ Launch \/ Assign \/ AssignFails \/ WaitReturns \/ WaitExpires
  \/ SignalTerm \/ Poll \/ GroupIsGone \/ GraceEnds \/ SignalKill \/ LastEnds
  \/ Reap \/ ReapExpires \/ Prove
  \/ Taskkill \/ TaskkillFails \/ TerminateJob

TreeNext == TreeCaller \/ Spawn \/ Escape \/ Exit \/ Wait

\* The caller runs and its deadlines pass; the tool may do nothing for ever.
TreeSpec == TreeInit /\ [][TreeNext]_treeVars
TreeFairness == WF_treeVars(TreeCaller)

-----------------------------------------------------------------------------
(* Properties.                                                              *)

TreeTypeOK ==
  /\ platform \in Platforms
  /\ treeAt \in {"launch", "assign", "wait", "term", "grace", "kill", "last",
                 "reap", "prove", "taskkill", "job", "over"}
  /\ born \subseteq 1..NProcesses
  /\ running \subseteq born /\ zombies \subseteq born \ running
  /\ container \subseteq born
  /\ result \in {"none", "launch_failed", "exited", "timed_out", "raised"}
  /\ (treeAt = "over") <=> (result # "none")
  /\ osFaults \in 0..OsMaxFaults /\ lateExit \in BOOLEAN

\* "A timed-out wrapper cannot leave a descendant writing after the result
\* returns" (docs/adr/0045), of every process that is still in the group or the
\* job: a timeout is returned only when all of them are gone, not the tool
\* alone, and on Windows none survives any end of the call.
TimedOutIsGone ==
  result = "timed_out" \/ (platform = "windows" /\ result # "none")
    => container \cap running = {}

\* An error stops the whole run, so it needs a reason: the operating system
\* failed, a dead child of the group was not waited for by its own parent, or, on
\* Windows, the tool ended as its deadline passed and taskkill found nothing.
AlarmHasACause ==
  [][result' = "raised" /\ result = "none" =>
       \/ osFaults' > 0
       \/ platform = "posix" /\ (container \cap zombies) \ {Tool} # {}
       \/ platform = "windows" /\ lateExit']_treeVars

\* The call ends, whatever the tool and its processes do.
CommandEnds == <>(treeAt = "over")
=============================================================================
