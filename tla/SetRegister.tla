----------------------------- MODULE SetRegister ----------------------------
(***************************************************************************)
(* What publishing a set of files promises (the contract at the head of    *)
(* fpbench/storage/set_publication.py): the name belongs to one set for    *)
(* ever, the set becomes whole at most once and stays whole, and a caller  *)
(* is told "published" only while the disk holds exactly the set it asked  *)
(* for.  SetPublication implements it.                                     *)
(***************************************************************************)

CONSTANTS
  Writers,  \* the callers
  Sets,     \* the sets that may be published under one name
  Absent    \* no set owns the name

VARIABLES
  owner,    \* the set the name belongs to, or Absent
  whole,    \* every body of the owner is on disk
  wants,    \* the set each caller is publishing
  told      \* what each caller has been told

vars == <<owner, whole, wants, told>>

Init ==
  /\ owner = Absent
  /\ whole = FALSE
  /\ wants \in [Writers -> Sets]
  /\ told = [w \in Writers |-> "none"]

\* The name is taken; with bodies already on disk the set may be whole at once.
Claim(s) ==
  /\ owner = Absent
  /\ owner' = s
  /\ whole' \in BOOLEAN
  /\ UNCHANGED <<wants, told>>

\* The last missing body appears.
Finish ==
  /\ owner # Absent
  /\ whole' = TRUE
  /\ UNCHANGED <<owner, wants, told>>

\* A caller dies, is refused, or succeeds with the whole set it asked for.
Tell(w) ==
  /\ told[w] = "none"
  /\ \/ told' = [told EXCEPT ![w] = "failed"]
     \/ told' = [told EXCEPT ![w] = "died"]
     \/ /\ owner = wants[w]
        /\ whole
        /\ told' = [told EXCEPT ![w] = "published"]
  /\ UNCHANGED <<owner, whole, wants>>

\* A caller asks again, for the same set or another.
Ask(w) ==
  /\ told[w] # "none"
  /\ told' = [told EXCEPT ![w] = "none"]
  /\ \E s \in Sets : wants' = [wants EXCEPT ![w] = s]
  /\ UNCHANGED <<owner, whole>>

Next ==
  \/ \E s \in Sets : Claim(s)
  \/ Finish
  \/ \E w \in Writers : Tell(w) \/ Ask(w)

Spec == Init /\ [][Next]_vars
=============================================================================
