--------------------------- MODULE CreateIfAbsent ---------------------------
(***************************************************************************)
(* What one create-if-absent publication promises, whatever the mechanism  *)
(* underneath: a file that is written at most once, and an answer to every *)
(* caller that agrees with the file at the moment it is given.             *)
(*                                                                         *)
(* This is the contract stated at the head of publish_file                 *)
(* (fpbench/core/atomic_write.py).  AtomicPublish implements it.           *)
(***************************************************************************)

CONSTANTS
  Writers,   \* the callers of publish_file on one path
  Bytes,     \* the contents a caller may offer
  Absent     \* the path does not exist

VARIABLES
  file,      \* what the path holds
  offer,     \* what each caller wants it to hold
  answer     \* what each caller has been told

vars == <<file, offer, answer>>

Answers == {"none", "published", "identical", "conflict", "error"}

Init ==
  /\ file \in Bytes \cup {Absent}
  /\ offer \in [Writers -> Bytes]
  /\ answer = [w \in Writers |-> "none"]

Answer(w, a) ==
  /\ answer[w] = "none"
  /\ answer' = [answer EXCEPT ![w] = a]
  /\ offer' = offer

\* PublishOutcome.PUBLISHED: this caller created the file.
Create(w) ==
  /\ file = Absent
  /\ file' = offer[w]
  /\ Answer(w, "published")

\* PublishOutcome.ALREADY_IDENTICAL: the file already held these bytes.
Match(w) ==
  /\ file = offer[w]
  /\ file' = file
  /\ Answer(w, "identical")

\* PublishConflictError: the file already held other bytes.
Refuse(w) ==
  /\ file \notin {Absent, offer[w]}
  /\ file' = file
  /\ Answer(w, "conflict")

\* The caller gave up waiting for another and learns nothing of the file; the
\* error may be the one that stands for other bytes.
GiveUp(w) ==
  /\ file' = file
  /\ Answer(w, "error") \/ Answer(w, "conflict")

\* The call did what it did, and an error of its clean-up is all its caller gets.
Withhold(w) ==
  /\ UNCHANGED <<file, offer>>
  /\ answer' = [answer EXCEPT ![w] = "error"]

Next ==
  \E w \in Writers : Create(w) \/ Match(w) \/ Refuse(w) \/ GiveUp(w) \/ Withhold(w)

Spec == Init /\ [][Next]_vars
=============================================================================
