------------------------- MODULE Stage21BStoreProofs -------------------------
(***************************************************************************)
(* Proofs about Stage21BStore for every number of processes and pairs, any *)
(* limits and any number of crashes and faults.                            *)
(***************************************************************************)
EXTENDS Stage21BStore, FiniteSetTheorems, SequenceTheorems, WellFoundedInduction, TLAPS

Attempting == {"begin", "insert", "compare", "record", "outcome", "fail", "failure"}
Sealing == {"freeze", "truncate", "read", "exportOutcomes", "exportAttempts", "hash",
            "publish"}
Looking == {"idle", "open", "claim", "look", "verifySeal", "opened"}

\* What holds when a process is at a step: a pair is in hand while it is
\* attempted, and whoever seals does so over a complete journal, which is the
\* one that was read and is exported.
Ready(w, step) ==
  /\ step # "idle" => job[w] \in Commands
  /\ step \in Attempting => todo[w] # {}
  /\ step \in {"record", "outcome"} => verdict[w] \in Terminal
  /\ step \in Sealing => Pending = {}
  /\ step \in {"exportOutcomes", "exportAttempts"} =>
       read[w] = [attempts |-> attempts, outcome |-> outcome]
  /\ step \in {"exportAttempts", "hash", "publish"} => outcomesFile = outcome
  /\ step \in {"hash", "publish"} => attemptsFile = attempts

\* The pairs before one that is still to be done are to be done or are done.
InOrder(w) ==
  \A p \in Pairs, q \in todo[w] : p < q => p \in todo[w] \/ outcome[p] # Absent

\* The attempts of a pair and its outcome: only the last attempt may be open, or
\* be terminal, and it is terminal exactly if it is the outcome.
Shape(rows, row) ==
  /\ \A n \in DOMAIN rows : n # Len(rows) => rows[n] \in Closed \ Terminal
  /\ IF row = Absent
       THEN rows # <<>> => rows[Len(rows)] \notin Terminal
       ELSE rows # <<>> /\ row = [attempt |-> Len(rows), status |-> rows[Len(rows)]]

\* A pair is attempted only when every pair before it has its outcome.
JournalFits ==
  \A p \in Pairs :
    /\ Shape(attempts[p], outcome[p])
    /\ Open(p) # {} => \A q \in Pairs : q < p => outcome[q] # Absent

FilesFit ==
  /\ outcomesFile \in {Absent, outcome}
  /\ attemptsFile \in {Absent, attempts}
  /\ Exported => Pending = {}
  /\ sealed => outcomesFile = outcome /\ attemptsFile = attempts

\* While processes take turns, nobody who could write runs over a seal.
InTurn ==
  ~beside =>
    /\ \A v, w \in Workers : pc[v] # "idle" /\ pc[w] # "idle" => v = w
    /\ \A w \in Workers : pc[w] = "publish" => w \in fresh
    /\ sealed => sealHolds /\ \A w \in Workers : pc[w] \in Looking

StoreInv ==
  /\ TypeOK /\ JournalFits /\ FilesFit /\ InTurn
  /\ \A w \in Workers : Ready(w, pc[w]) /\ InOrder(w)

-----------------------------------------------------------------------------
(* Sequences of attempts.                                                  *)

LEMMA Words ==
  /\ Terminal \subseteq Closed /\ Closed \subseteq Classifications
  /\ "IN_PROGRESS" \in Classifications /\ "IN_PROGRESS" \notin Closed
  /\ {"INFRASTRUCTURE_FAILURE", "INFRASTRUCTURE_INTERRUPTED"} \subseteq Closed \ Terminal
  BY DEF Terminal, Closed, Classifications

LEMMA Rewritten ==
  ASSUME NEW rows \in Seq(Classifications), NEW f,
         f \in [DOMAIN rows -> Classifications]
  PROVE  f \in Seq(Classifications) /\ Len(f) = Len(rows) /\ DOMAIN f = DOMAIN rows
<1>1. DOMAIN rows = 1 .. Len(rows) /\ Len(rows) \in Nat
  OBVIOUS
<1>2. f \in Seq(Classifications)
  BY <1>1, SeqDef
<1> QED BY <1>1, <1>2

\* An open attempt is the last one, and its pair has no outcome.
LEMMA OpenIsLast ==
  ASSUME NEW rows \in Seq(Classifications), NEW row \in Outcomes \cup {Absent},
         Shape(rows, row), NEW n \in DOMAIN rows, rows[n] = "IN_PROGRESS"
  PROVE  n = Len(rows) /\ row = Absent /\ rows # <<>>
  BY Words, AbsentAssumption DEF Shape, Outcomes

LEMMA AppendedShape ==
  ASSUME NEW rows \in Seq(Classifications), Shape(rows, Absent),
         \A n \in DOMAIN rows : rows[n] # "IN_PROGRESS"
  PROVE  /\ Append(rows, "IN_PROGRESS") \in Seq(Classifications)
         /\ Shape(Append(rows, "IN_PROGRESS"), Absent)
<1> DEFINE more == Append(rows, "IN_PROGRESS")
<1>1. /\ more \in Seq(Classifications) /\ Len(more) = Len(rows) + 1
      /\ DOMAIN more = 1 .. (Len(rows) + 1) /\ DOMAIN rows = 1 .. Len(rows)
      /\ \A n \in 1 .. Len(rows) : more[n] = rows[n]
      /\ more[Len(rows) + 1] = "IN_PROGRESS"
  BY Words
<1>2. \A n \in DOMAIN rows : rows[n] \in Closed \ Terminal
  BY <1>1 DEF Shape, Classifications, Closed, Terminal
<1> HIDE DEF more
<1>3. Shape(more, Absent)
  BY <1>1, <1>2, Words DEF Shape
<1> QED BY <1>1, <1>3 DEF more

LEMMA ClosedShape ==
  ASSUME NEW rows \in Seq(Classifications), NEW row \in Outcomes \cup {Absent},
         Shape(rows, row), NEW n \in DOMAIN rows, rows[n] = "IN_PROGRESS",
         NEW c \in Closed
  PROVE  /\ [rows EXCEPT ![n] = c] \in Seq(Classifications)
         /\ \A m \in DOMAIN rows : [rows EXCEPT ![n] = c][m] # "IN_PROGRESS"
         /\ c \in Terminal => Shape([rows EXCEPT ![n] = c], [attempt |-> n, status |-> c])
         /\ c \notin Terminal => Shape([rows EXCEPT ![n] = c], Absent)
<1> DEFINE rest == [rows EXCEPT ![n] = c]
<1>1. n = Len(rows) /\ n \in Nat \ {0} /\ rows # <<>> /\ DOMAIN rows = 1 .. Len(rows)
  BY OpenIsLast
<1>2. rest \in [DOMAIN rows -> Classifications]
  BY Words
<1>3. rest \in Seq(Classifications) /\ Len(rest) = Len(rows) /\ DOMAIN rest = DOMAIN rows
  BY <1>2, Rewritten
<1>4. rest[n] = c /\ \A m \in DOMAIN rows : m # n => rest[m] = rows[m]
  OBVIOUS
<1>5. \A m \in DOMAIN rows : m # n => rows[m] \in Closed \ Terminal
  BY <1>1 DEF Shape
<1> HIDE DEF rest
<1>6. \A m \in DOMAIN rows : rest[m] # "IN_PROGRESS"
  BY <1>4, <1>5, Words
<1>7. rest # <<>>
  BY <1>1, <1>3
<1>8. \A m \in DOMAIN rest : m # Len(rest) => rest[m] \in Closed \ Terminal
  BY <1>1, <1>3, <1>4, <1>5
<1>9. c \in Terminal => [attempt |-> n, status |-> c] # Absent
  BY <1>1, AbsentAssumption DEF Outcomes
<1>10. c \in Terminal => Shape(rest, [attempt |-> n, status |-> c])
  BY <1>1, <1>3, <1>4, <1>7, <1>8, <1>9 DEF Shape
<1>11. c \notin Terminal => Shape(rest, Absent)
  BY <1>1, <1>3, <1>4, <1>8 DEF Shape
<1> QED BY <1>3, <1>6, <1>10, <1>11 DEF rest

LEMMA InterruptedShape ==
  ASSUME NEW rows \in Seq(Classifications), NEW row \in Outcomes \cup {Absent},
         Shape(rows, row)
  PROVE  LET rest == [n \in DOMAIN rows |-> IF rows[n] = "IN_PROGRESS"
                        THEN "INFRASTRUCTURE_INTERRUPTED" ELSE rows[n]]
         IN  /\ rest \in Seq(Classifications) /\ Shape(rest, row)
             /\ \A n \in DOMAIN rest : rest[n] # "IN_PROGRESS"
             /\ row # Absent => rest = rows
<1> DEFINE rest == [n \in DOMAIN rows |-> IF rows[n] = "IN_PROGRESS"
                      THEN "INFRASTRUCTURE_INTERRUPTED" ELSE rows[n]]
<1>1. rest \in [DOMAIN rows -> Classifications]
  BY Words
<1>2. rest \in Seq(Classifications) /\ Len(rest) = Len(rows) /\ DOMAIN rest = DOMAIN rows
  BY <1>1, Rewritten
<1>3. \A n \in DOMAIN rows : rest[n] = IF rows[n] = "IN_PROGRESS"
                      THEN "INFRASTRUCTURE_INTERRUPTED" ELSE rows[n]
  OBVIOUS
<1>4. \A n \in DOMAIN rest : rest[n] # "IN_PROGRESS"
  BY <1>2, <1>3
<1>5. row # Absent => \A n \in DOMAIN rows : rows[n] # "IN_PROGRESS"
  BY OpenIsLast
<1>6. row # Absent => rest = rows
  BY <1>5
<1> HIDE DEF rest
<1>7. row = Absent => Shape(rest, row)
  <2> SUFFICES ASSUME row = Absent PROVE Shape(rest, Absent)
    OBVIOUS
  <2>1. \A n \in DOMAIN rest : n # Len(rest) => rest[n] \in Closed \ Terminal
    BY <1>2, <1>3, Words DEF Shape
  <2>2. rest # <<>> => Len(rest) \in DOMAIN rest /\ rows # <<>>
    BY <1>2
  <2>3. rest # <<>> => rest[Len(rest)] \notin Terminal
    BY <1>2, <1>3, <2>2, Words DEF Shape
  <2> QED BY <2>1, <2>3 DEF Shape
<1> QED BY <1>2, <1>4, <1>6, <1>7 DEF rest

LEMMA FirstIsLeast ==
  ASSUME NEW S \in SUBSET Pairs, S # {}
  PROVE  First(S) \in S /\ \A q \in S : First(S) <= q
<1>1. Pairs \subseteq Nat
  BY NPairsAssumption DEF Pairs
<1>2. \E p \in S : \A q \in S : <<q, p>> \notin OpToRel(<, Nat)
  BY <1>1, NatLessThanWellFounded, WFMin
<1>3. PICK p \in S : \A q \in S : ~(q < p)
  BY <1>1, <1>2, Zenon DEF OpToRel
<1>4. \A q \in S : p <= q
  BY <1>1, <1>3
<1> QED BY <1>4 DEF First

-----------------------------------------------------------------------------
(* What a journal that fits is worth.                                       *)

LEMMA OpenIsPending ==
  ASSUME TypeOK, JournalFits, NEW p \in Pairs, NEW n \in Open(p)
  PROVE  /\ n = Len(attempts[p]) /\ outcome[p] = Absent
         /\ \A q \in Pairs : q < p => outcome[q] # Absent
<1>1. attempts[p] \in Seq(Classifications) /\ outcome[p] \in Outcomes \cup {Absent}
  BY DEF TypeOK, Journals, Tables
<1>2. n \in DOMAIN attempts[p] /\ attempts[p][n] = "IN_PROGRESS"
  BY DEF Open
<1>3. Shape(attempts[p], outcome[p])
  BY DEF JournalFits
<1>4. n = Len(attempts[p]) /\ outcome[p] = Absent
  BY <1>1, <1>2, <1>3, OpenIsLast
<1> QED BY <1>4 DEF JournalFits

\* One attempt at most is open: that of the first pair without an outcome.
LEMMA OneAttemptIsOpen ==
  ASSUME TypeOK, JournalFits
  PROVE  /\ Cardinality(OpenAttempts) <= 1
         /\ Pending = {} => OpenAttempts = {}
<1>1. \A x \in OpenAttempts : \E p \in Pairs : \E n \in Open(p) : x = <<p, n>>
  BY DEF OpenAttempts
<1>2. ASSUME NEW x \in OpenAttempts, NEW y \in OpenAttempts PROVE x = y
  <2>1. PICK p \in Pairs : \E n \in Open(p) : x = <<p, n>>
    BY <1>1
  <2>2. PICK q \in Pairs : \E n \in Open(q) : y = <<q, n>>
    BY <1>1
  <2>3. /\ x = <<p, Len(attempts[p])>> /\ outcome[p] = Absent
        /\ \A r \in Pairs : r < p => outcome[r] # Absent
    BY <2>1, OpenIsPending
  <2>4. /\ y = <<q, Len(attempts[q])>> /\ outcome[q] = Absent
        /\ \A r \in Pairs : r < q => outcome[r] # Absent
    BY <2>2, OpenIsPending
  <2>5. p = q
    BY <2>3, <2>4, NPairsAssumption DEF Pairs
  <2> QED BY <2>3, <2>4, <2>5
<1>3. Cardinality(OpenAttempts) <= 1
  <2>1. CASE OpenAttempts = {}
    BY <2>1, FS_EmptySet
  <2>2. CASE OpenAttempts # {}
    <3>1. PICK x \in OpenAttempts : OpenAttempts = {x}
      BY <1>2, <2>2
    <3> QED BY <3>1, FS_Singleton
  <2> QED BY <2>1, <2>2
<1>4. Pending = {} => OpenAttempts = {}
  <2> SUFFICES ASSUME Pending = {}, NEW x \in OpenAttempts PROVE FALSE
    OBVIOUS
  <2>1. PICK p \in Pairs : \E n \in Open(p) : x = <<p, n>>
    BY <1>1
  <2> QED BY <2>1, OpenIsPending DEF Pending
<1> QED BY <1>3, <1>4

LEMMA FitsVerifies ==
  ASSUME TypeOK, JournalFits PROVE JournalVerifies
<1> SUFFICES ASSUME NEW p \in Pairs
    PROVE  /\ Ended(p) \subseteq {Len(attempts[p])}
           /\ IF outcome[p] = Absent THEN Ended(p) = {}
                ELSE /\ outcome[p].attempt \in Ended(p)
                     /\ outcome[p].status = attempts[p][outcome[p].attempt]
  BY OneAttemptIsOpen DEF JournalVerifies
<1>1. attempts[p] \in Seq(Classifications) /\ outcome[p] \in Outcomes \cup {Absent}
  BY DEF TypeOK, Journals, Tables
<1>2. Shape(attempts[p], outcome[p])
  BY DEF JournalFits
<1>3. Ended(p) \subseteq {Len(attempts[p])}
  BY <1>1, <1>2 DEF Shape, Ended
<1>4. CASE outcome[p] = Absent
  BY <1>1, <1>2, <1>3, <1>4 DEF Shape, Ended
<1>5. CASE outcome[p] # Absent
  <2>1. outcome[p] \in Outcomes
    BY <1>1, <1>5
  <2>2. /\ attempts[p] # <<>> /\ outcome[p].attempt = Len(attempts[p])
        /\ outcome[p].status = attempts[p][Len(attempts[p])]
        /\ outcome[p].status \in Terminal
    BY <1>2, <1>5, <2>1 DEF Shape, Outcomes
  <2>3. Len(attempts[p]) \in DOMAIN attempts[p]
    BY <1>1, <2>2
  <2> QED BY <1>3, <1>5, <2>2, <2>3 DEF Ended
<1> QED BY <1>3, <1>4, <1>5

-----------------------------------------------------------------------------
(* What a step does to the journal: it goes on fitting, and nothing of a    *)
(* pair that has its outcome changes.                                       *)

JournalMoves ==
  /\ attempts' \in Journals /\ outcome' \in Tables /\ JournalFits'
  /\ \A p \in Pairs : outcome[p] # Absent =>
       outcome'[p] = outcome[p] /\ attempts'[p] = attempts[p]

LEMMA SameJournal ==
  ASSUME TypeOK, JournalFits, UNCHANGED <<attempts, outcome>>
  PROVE  JournalMoves
  BY DEF TypeOK, JournalFits, JournalMoves, Open

\* The complete journal is the last one.
LEMMA CompleteIsFinal ==
  ASSUME TypeOK, JournalMoves, Pending = {}
  PROVE  attempts' = attempts /\ outcome' = outcome
  BY DEF TypeOK, JournalMoves, Pending, Journals, Tables

LEMMA StillComplete ==
  ASSUME TypeOK, JournalMoves, Pending = {}
  PROVE  Pending' = {}
  BY DEF JournalMoves, Pending

\* A step that is about one pair, which has no outcome yet.
LEMMA OnePairMoves ==
  ASSUME TypeOK, JournalFits, NEW p \in Pairs, outcome[p] = Absent,
         NEW rows \in Seq(Classifications), NEW row \in Outcomes \cup {Absent},
         Shape(rows, row),
         attempts' = [attempts EXCEPT ![p] = rows],
         outcome' = [outcome EXCEPT ![p] = row],
         (\E n \in DOMAIN rows : rows[n] = "IN_PROGRESS")
           => \A q \in Pairs : q < p => outcome[q] # Absent
  PROVE  JournalMoves
<1>1. attempts' \in Journals /\ outcome' \in Tables
  BY DEF TypeOK, Journals, Tables
<1>2. /\ attempts'[p] = rows /\ outcome'[p] = row
      /\ \A q \in Pairs \ {p} : attempts'[q] = attempts[q] /\ outcome'[q] = outcome[q]
  BY DEF TypeOK, Journals, Tables
<1>3. \A q \in Pairs : outcome[q] # Absent =>
        outcome'[q] = outcome[q] /\ attempts'[q] = attempts[q]
  BY <1>2
<1>4. ASSUME NEW q \in Pairs
      PROVE  /\ Shape(attempts'[q], outcome'[q])
             /\ Open(q)' # {} => \A r \in Pairs : r < q => outcome'[r] # Absent
  <2>1. CASE q = p
    <3>1. Open(q)' # {} => \E n \in DOMAIN rows : rows[n] = "IN_PROGRESS"
      BY <1>2, <2>1 DEF Open
    <3> QED BY <1>2, <1>3, <2>1, <3>1
  <2>2. CASE q # p
    <3>1. Open(q)' = Open(q)
      BY <1>2, <2>2 DEF Open
    <3> QED BY <1>2, <1>3, <2>2, <3>1 DEF JournalFits
  <2> QED BY <2>1, <2>2
<1>5. JournalFits'
  BY <1>4 DEF JournalFits
<1> QED BY <1>1, <1>3, <1>5 DEF JournalMoves

\* The pair in hand, and what is known of an attempt of one's own.
LEMMA InHand ==
  ASSUME TypeOK, NEW w \in Workers, todo[w] # {}, InOrder(w)
  PROVE  /\ InFlight(w) \in todo[w] /\ InFlight(w) \in Pairs
         /\ \A q \in Pairs : q < InFlight(w) => outcome[q] # Absent
<1>1. todo[w] \in SUBSET Pairs
  BY DEF TypeOK
<1>2. InFlight(w) \in todo[w] /\ \A q \in todo[w] : InFlight(w) <= q
  BY <1>1, FirstIsLeast DEF InFlight
<1>3. \A q \in Pairs : q < InFlight(w) => q \notin todo[w]
  BY <1>1, <1>2, NPairsAssumption DEF Pairs
<1> QED BY <1>1, <1>2, <1>3 DEF InOrder

LEMMA BeginMoves ==
  ASSUME TypeOK, JournalFits, NEW w \in Workers, todo[w] # {}, InOrder(w),
         BeginAttempt(w)
  PROVE  JournalMoves
<1> DEFINE p == InFlight(w)
<1>1. p \in Pairs /\ \A q \in Pairs : q < p => outcome[q] # Absent
  BY InHand
<1>2. CASE outcome[p] = Absent /\ Open(p) = {}
  <2>1. /\ attempts' = [attempts EXCEPT ![p] = Append(@, "IN_PROGRESS")]
        /\ outcome' = outcome
    BY <1>2 DEF BeginAttempt
  <2>2. attempts[p] \in Seq(Classifications) /\ Shape(attempts[p], Absent)
    BY <1>1, <1>2 DEF TypeOK, Journals, JournalFits
  <2>3. \A n \in DOMAIN attempts[p] : attempts[p][n] # "IN_PROGRESS"
    BY <1>2 DEF Open
  <2>4. /\ Append(attempts[p], "IN_PROGRESS") \in Seq(Classifications)
        /\ Shape(Append(attempts[p], "IN_PROGRESS"), Absent)
    BY <2>2, <2>3, AppendedShape
  <2>5. outcome' = [outcome EXCEPT ![p] = Absent]
    BY <1>1, <1>2, <2>1 DEF TypeOK, Tables
  <2> QED BY <1>1, <1>2, <2>1, <2>4, <2>5, OnePairMoves
<1>3. CASE ~(outcome[p] = Absent /\ Open(p) = {})
  BY <1>3, SameJournal DEF BeginAttempt
<1> QED BY <1>2, <1>3

\* Closing an attempt of one's own, with an outcome if it is a terminal one.
LEMMA ClosingMoves ==
  ASSUME TypeOK, JournalFits, NEW w \in Workers, todo[w] # {}, InOrder(w), Mine(w),
         NEW c \in Closed,
         attempts' = Close(InFlight(w), number[w], c),
         outcome' = IF c \in Terminal
                      THEN [outcome EXCEPT
                             ![InFlight(w)] = [attempt |-> number[w], status |-> c]]
                      ELSE outcome
  PROVE  JournalMoves
<1> DEFINE p == InFlight(w)
           n == number[w]
           rows == [attempts[p] EXCEPT ![n] = c]
           row == IF c \in Terminal THEN [attempt |-> n, status |-> c] ELSE Absent
<1>1. p \in Pairs /\ \A q \in Pairs : q < p => outcome[q] # Absent
  BY InHand
<1>2. n \in DOMAIN attempts[p] /\ attempts[p][n] = "IN_PROGRESS"
  BY DEF Mine, Open
<1>3. attempts[p] \in Seq(Classifications) /\ outcome[p] \in Outcomes \cup {Absent}
  BY <1>1 DEF TypeOK, Journals, Tables
<1>4. Shape(attempts[p], outcome[p])
  BY <1>1 DEF JournalFits
<1>5. outcome[p] = Absent /\ n \in Nat \ {0}
  BY <1>2, <1>3, <1>4, OpenIsLast
<1>6. /\ rows \in Seq(Classifications) /\ Shape(rows, row)
  BY <1>2, <1>3, <1>4, ClosedShape
<1>7. row \in Outcomes \cup {Absent}
  BY <1>5 DEF Outcomes
<1>8. attempts' = [attempts EXCEPT ![p] = rows]
  BY DEF Close
<1>9. outcome' = [outcome EXCEPT ![p] = row]
  BY <1>1, <1>5 DEF TypeOK, Tables
<1> HIDE DEF rows, row, p, n
<1> QED BY <1>1, <1>5, <1>6, <1>7, <1>8, <1>9, OnePairMoves

LEMMA InterruptMoves ==
  ASSUME TypeOK, JournalFits, NEW w \in Workers, Interrupt(w)
  PROVE  JournalMoves
<1> DEFINE rest(rows) == [n \in DOMAIN rows |-> IF rows[n] = "IN_PROGRESS"
                            THEN "INFRASTRUCTURE_INTERRUPTED" ELSE rows[n]]
<1>1. attempts' = [p \in Pairs |-> rest(attempts[p])] /\ outcome' = outcome
  <2>1. \A p \in Pairs : [n \in DOMAIN attempts[p] |->
          IF n \in Open(p) THEN "INFRASTRUCTURE_INTERRUPTED" ELSE attempts[p][n]]
            = rest(attempts[p])
    BY DEF Open
  <2> QED BY <2>1 DEF Interrupt
<1>2. ASSUME NEW p \in Pairs
      PROVE  /\ rest(attempts[p]) \in Seq(Classifications)
             /\ Shape(rest(attempts[p]), outcome[p])
             /\ \A n \in DOMAIN rest(attempts[p]) : rest(attempts[p])[n] # "IN_PROGRESS"
             /\ outcome[p] # Absent => rest(attempts[p]) = attempts[p]
  <2>1. attempts[p] \in Seq(Classifications) /\ outcome[p] \in Outcomes \cup {Absent}
    BY DEF TypeOK, Journals, Tables
  <2>2. Shape(attempts[p], outcome[p])
    BY DEF JournalFits
  <2> QED BY <2>1, <2>2, InterruptedShape
<1> HIDE DEF rest
<1>3. attempts' \in Journals /\ outcome' \in Tables
  BY <1>1, <1>2 DEF TypeOK, Journals
<1>4. \A p \in Pairs : attempts'[p] = rest(attempts[p]) /\ outcome'[p] = outcome[p]
  BY <1>1
<1>5. \A p \in Pairs : Open(p)' = {} /\ Shape(attempts'[p], outcome'[p])
  BY <1>2, <1>4 DEF Open
<1>6. JournalFits'
  BY <1>5 DEF JournalFits
<1> QED BY <1>2, <1>3, <1>4, <1>6 DEF JournalMoves

-----------------------------------------------------------------------------
(* What a step does to the process that takes it, and to the others.       *)

DiskOK ==
  /\ spec \in BOOLEAN
  /\ db \in {"none", "schema", "ready"}
  /\ mode \in {"wal", "delete"}
  /\ attempts \in Journals
  /\ outcome \in Tables
  /\ outcomesFile \in Tables \cup {Absent}
  /\ attemptsFile \in Journals \cup {Absent}
  /\ {sealed, superseded, sealHolds, beside} \subseteq BOOLEAN
  /\ fresh \subseteq Workers
  /\ troubles \in 0 .. MaxTroubles

MemoryOK ==
  /\ pc \in [Workers -> Steps]
  /\ job \in [Workers -> Commands \cup {Absent}]
  /\ creating \in [Workers -> BOOLEAN]
  /\ todo \in [Workers -> SUBSET Pairs]
  /\ number \in [Workers -> Nat]
  /\ verdict \in [Workers -> Terminal \cup {Absent}]
  /\ read \in [Workers -> [attempts : Journals, outcome : Tables] \cup {Absent}]

LEMMA TypeIsBoth == TypeOK <=> DiskOK /\ MemoryOK
  BY DEF TypeOK, DiskOK, MemoryOK

LEMMA TypeIsBothNext == TypeOK' <=> DiskOK' /\ MemoryOK'
  BY DEF TypeOK, DiskOK, MemoryOK

Others(w) ==
  \A v \in Workers \ {w} :
    /\ pc'[v] = pc[v] /\ job'[v] = job[v] /\ todo'[v] = todo[v]
    /\ verdict'[v] = verdict[v] /\ read'[v] = read[v]

LEMMA GotoEffect ==
  ASSUME TypeOK, NEW w \in Workers, NEW step \in Steps, Goto(w, step)
  PROVE  MemoryOK' /\ Others(w) /\ pc'[w] = step /\ UNCHANGED memory
<1>1. UNCHANGED memory /\ pc' = [pc EXCEPT ![w] = step]
  BY DEF Goto
<1> QED BY <1>1 DEF TypeOK, MemoryOK, Others, memory

LEMMA EndEffect ==
  ASSUME TypeOK, NEW w \in Workers, End(w)
  PROVE  MemoryOK' /\ Others(w) /\ pc'[w] = "idle" /\ todo'[w] = {}
<1> USE DEF End
<1>1. pc' \in [Workers -> Steps]
  BY DEF TypeOK, Steps
<1>2. /\ job' \in [Workers -> Commands \cup {Absent}]
      /\ creating' \in [Workers -> BOOLEAN]
      /\ todo' \in [Workers -> SUBSET Pairs]
      /\ number' \in [Workers -> Nat]
      /\ verdict' \in [Workers -> Terminal \cup {Absent}]
  BY DEF TypeOK
<1>3. read' \in [Workers -> [attempts : Journals, outcome : Tables] \cup {Absent}]
  BY DEF TypeOK
<1>4. Others(w) /\ pc'[w] = "idle" /\ todo'[w] = {}
  BY DEF TypeOK, Others
<1> QED BY <1>1, <1>2, <1>3, <1>4 DEF MemoryOK

FilesGrow ==
  /\ outcomesFile # Absent => outcomesFile' = outcomesFile
  /\ attemptsFile # Absent => attemptsFile' = attemptsFile

\* A step of a process that has the run to itself.
Turn(w) ==
  /\ beside' = beside
  /\ ~beside => /\ pc'[w] = "publish" => w \in fresh'
                /\ sealed' => sealHolds' /\ pc'[w] \in Looking

LEMMA StepAssembles ==
  ASSUME StoreInv, NEW w \in Workers, pc[w] # "idle", DiskOK', MemoryOK', Others(w),
         JournalMoves, FilesFit', FilesGrow, Turn(w), Ready(w, pc[w])', InOrder(w)'
  PROVE  StoreInv'
<1>1. TypeOK /\ TypeOK' /\ JournalFits'
  BY TypeIsBothNext DEF StoreInv, JournalMoves
<1>2. ASSUME NEW v \in Workers \ {w}
      PROVE  Ready(v, pc[v])' /\ InOrder(v)'
  <2>1. Ready(v, pc[v]) /\ InOrder(v)
    BY DEF StoreInv
  <2>2. /\ pc'[v] = pc[v] /\ job'[v] = job[v] /\ todo'[v] = todo[v]
        /\ verdict'[v] = verdict[v] /\ read'[v] = read[v]
    BY DEF Others
  <2>3. InOrder(v)'
    BY <1>1, <2>1, <2>2 DEF InOrder, JournalMoves, TypeOK
  <2>4. pc[v] \in Sealing => Pending' = {} /\ attempts' = attempts /\ outcome' = outcome
    BY <1>1, <2>1, CompleteIsFinal, StillComplete DEF Ready
  <2>5. outcome # Absent /\ attempts # Absent
    BY <1>1, AbsentAssumption DEF TypeOK
  <2>6. Ready(v, pc[v])'
    BY <2>1, <2>2, <2>4, <2>5 DEF Ready, Sealing, FilesGrow
  <2> QED BY <2>3, <2>6
<1>3. InTurn'
  <2> SUFFICES ASSUME ~beside PROVE InTurn'
    BY DEF Turn, InTurn
  <2>1. \A v \in Workers : v # w => pc'[v] = "idle"
    BY DEF StoreInv, InTurn, Others
  <2> QED BY <2>1 DEF Turn, InTurn, Looking
<1> QED BY <1>1, <1>2, <1>3 DEF StoreInv

-----------------------------------------------------------------------------
(* Steps that leave the journal and the files alone.                        *)

LEMMA SameFiles ==
  ASSUME StoreInv, UNCHANGED <<attempts, outcome, outcomesFile, attemptsFile, sealed>>
  PROVE  JournalMoves /\ FilesFit' /\ FilesGrow /\ (Pending' = Pending)
<1>1. JournalMoves
  BY SameJournal DEF StoreInv
<1>2. Pending' = Pending
  BY DEF Pending
<1>3. FilesFit' /\ FilesGrow
  BY <1>2 DEF StoreInv, FilesFit, FilesGrow, Exported
<1> QED BY <1>1, <1>2, <1>3

LEMMA GotoStep ==
  ASSUME StoreInv, NEW w \in Workers, pc[w] # "idle", NEW step \in Steps, Goto(w, step),
         Ready(w, step), DiskOK', Turn(w),
         UNCHANGED <<attempts, outcome, outcomesFile, attemptsFile, sealed>>
  PROVE  StoreInv'
<1>1. MemoryOK' /\ Others(w) /\ pc'[w] = step /\ UNCHANGED memory
  BY GotoEffect DEF StoreInv
<1>2. JournalMoves /\ FilesFit' /\ FilesGrow /\ Pending' = Pending
  BY SameFiles
<1>3. Ready(w, pc[w])'
  BY <1>1, <1>2 DEF Ready, memory
<1>4. InOrder(w)'
  BY <1>1 DEF StoreInv, InOrder, memory
<1> QED BY <1>1, <1>2, <1>3, <1>4, StepAssembles

LEMMA EndStep ==
  ASSUME StoreInv, NEW w \in Workers, pc[w] # "idle", End(w), DiskOK',
         JournalMoves, FilesFit', FilesGrow,
         beside' = beside, ~beside /\ sealed' => sealHolds'
  PROVE  StoreInv'
<1>1. MemoryOK' /\ Others(w) /\ pc'[w] = "idle" /\ todo'[w] = {}
  BY EndEffect DEF StoreInv
<1>2. Ready(w, pc[w])'
  BY <1>1 DEF Ready, Attempting, Sealing
<1>3. InOrder(w)'
  BY <1>1 DEF InOrder
<1>4. Turn(w)
  BY <1>1 DEF Turn, Looking
<1> QED BY <1>1, <1>2, <1>3, <1>4, StepAssembles

Quiet == UNCHANGED <<journal, files, checksums, history>>

LEMMA QuietDisk ==
  ASSUME StoreInv, Quiet
  PROVE  /\ DiskOK' /\ beside' = beside /\ fresh' = fresh
         /\ sealed' = sealed /\ sealHolds' = sealHolds
         /\ UNCHANGED <<attempts, outcome, outcomesFile, attemptsFile, sealed>>
<1>1. /\ spec' = spec /\ db' = db /\ mode' = mode /\ attempts' = attempts
      /\ outcome' = outcome /\ outcomesFile' = outcomesFile
      /\ attemptsFile' = attemptsFile /\ sealed' = sealed /\ superseded' = superseded
      /\ sealHolds' = sealHolds /\ beside' = beside /\ fresh' = fresh
      /\ troubles' = troubles
  BY DEF Quiet, journal, files, checksums, history
<1> QED BY <1>1 DEF StoreInv, TypeOK, DiskOK

\* A process that goes on without touching anything.
LEMMA QuietGoto ==
  ASSUME StoreInv, NEW w \in Workers, pc[w] # "idle", NEW step \in Steps, Goto(w, step),
         Quiet, Ready(w, step),
         ~beside => (step = "publish" => w \in fresh) /\ (sealed => step \in Looking)
  PROVE  StoreInv'
<1>1. pc'[w] = step
  BY GotoEffect DEF StoreInv
<1>2. Turn(w)
  BY <1>1, QuietDisk DEF Turn, StoreInv, InTurn
<1> QED BY <1>2, QuietDisk, GotoStep

LEMMA QuietEnd ==
  ASSUME StoreInv, NEW w \in Workers, pc[w] # "idle", End(w), Quiet
  PROVE  StoreInv'
  BY QuietDisk, SameFiles, EndStep DEF StoreInv, InTurn

\* What a process knows at its step.
LEMMA AtStep ==
  ASSUME StoreInv, NEW w \in Workers, pc[w] # "idle"
  PROVE  /\ TypeOK /\ JournalFits /\ FilesFit /\ Ready(w, pc[w]) /\ InOrder(w)
         /\ pc[w] \in Steps /\ job[w] \in Commands
         /\ ~beside /\ sealed => pc[w] \in Looking /\ sealHolds
         /\ Exported => Pending = {}
  BY DEF StoreInv, TypeOK, Ready, InTurn, FilesFit

LEMMA RequireQuiet ==
  ASSUME StoreInv, NEW w \in Workers, pc[w] # "idle", NEW step \in Steps,
         NEW condition \in BOOLEAN, Require(w, condition, step), Quiet,
         condition => Ready(w, step),
         condition /\ ~beside =>
           (step = "publish" => w \in fresh) /\ (sealed => step \in Looking)
  PROVE  StoreInv'
  BY QuietGoto, QuietEnd DEF Require

\* Opening the run: from the start of a command to the walk over the pairs.
LEMMA OpeningInv ==
  ASSUME StoreInv, NEW w \in Workers,
         OpenStore(w) \/ LookAtRun(w) \/ VerifyBinding(w) \/ Opened(w)
  PROVE  StoreInv'
<1>1. CASE OpenStore(w)
  <2>1. pc[w] = "open" /\ Quiet
    BY <1>1 DEF OpenStore, Quiet
  <2>2. PICK step \in {"look", "claim"} : Goto(w, step)
    BY <1>1 DEF OpenStore
  <2>3. step \in Steps /\ step \in Looking
    BY DEF Steps, Looking
  <2>4. Ready(w, step)
    BY <2>1, AtStep DEF Ready, Attempting, Sealing
  <2> QED BY <2>1, <2>2, <2>3, <2>4, QuietGoto
<1>2. CASE LookAtRun(w)
  <2>1. pc[w] = "look" /\ Quiet
    BY <1>2 DEF LookAtRun, Quiet
  <2>2. CASE sealed
    <3>1. Require(w, JournalVerifies, "verifySeal")
      BY <1>2, <2>2 DEF LookAtRun
    <3>2. JournalVerifies /\ "verifySeal" \in Steps /\ "verifySeal" \in Looking
      BY FitsVerifies DEF StoreInv, Steps, Looking
    <3>3. Goto(w, "verifySeal")
      BY <3>1, <3>2 DEF Require
    <3>4. Ready(w, "verifySeal")
      BY <2>1, AtStep DEF Ready, Attempting, Sealing
    <3> QED BY <2>1, <3>2, <3>3, <3>4, QuietGoto
  <2>3. CASE ~sealed
    <3>1. /\ pc' = [pc EXCEPT ![w] = "connect"]
          /\ creating' = [creating EXCEPT ![w] = db = "none"]
          /\ UNCHANGED <<job, todo, number, verdict, read>>
      BY <1>2, <2>3 DEF LookAtRun
    <3>2. "connect" \in Steps /\ (db = "none") \in BOOLEAN
      BY DEF Steps, Gate
    <3>3. MemoryOK' /\ Others(w) /\ pc'[w] = "connect"
      <4>1. pc' \in [Workers -> Steps] /\ creating' \in [Workers -> BOOLEAN]
        BY <3>1, <3>2 DEF StoreInv, TypeOK
      <4> QED BY <3>1, <4>1 DEF StoreInv, TypeOK, MemoryOK, Others
    <3>4. Ready(w, pc[w])'
      BY <2>1, <3>1, <3>3, AtStep DEF Ready, Attempting, Sealing
    <3>5. InOrder(w)'
      BY <2>1, <3>1, AtStep, QuietDisk DEF InOrder
    <3>6. Turn(w)
      BY <2>3, <3>3, QuietDisk, <2>1 DEF Turn
    <3> QED BY <2>1, <3>3, <3>4, <3>5, <3>6, QuietDisk, SameFiles, StepAssembles
  <2> QED BY <2>2, <2>3
<1>3. CASE VerifyBinding(w)
  <2>1. pc[w] = "verify" /\ Quiet
    BY <1>3 DEF VerifyBinding, Quiet
  <2>2. "seal" \in Steps /\ "opened" \in Steps
    BY DEF Steps
  <2>3. Ready(w, "seal") /\ Ready(w, "opened") /\ (~beside => ~sealed)
    BY <2>1, AtStep DEF Ready, Attempting, Sealing, Looking
  <2>4. \/ End(w)
        \/ Require(w, Pending = {}, "seal")
        \/ Goto(w, "opened")
    BY <1>3 DEF VerifyBinding
  <2>5. CASE End(w)
    BY <2>1, <2>5, QuietEnd
  <2>6. CASE Require(w, Pending = {}, "seal")
    BY <2>1, <2>2, <2>3, <2>6, RequireQuiet
  <2>7. CASE Goto(w, "opened")
    BY <2>1, <2>2, <2>3, <2>7, QuietGoto
  <2> QED BY <2>4, <2>5, <2>6, <2>7
<1>4. CASE Opened(w)
  <2>1. /\ pc[w] = "opened" /\ Quiet
        /\ Require(w, job[w].command = "run" /\ ~sealed, "recover")
    BY <1>4 DEF Opened, Quiet
  <2>2. "recover" \in Steps
    BY DEF Steps, Gate
  <2>3. Ready(w, "recover")
    BY <2>1, AtStep DEF Ready, Attempting, Sealing
  <2> QED BY <2>1, <2>2, <2>3, RequireQuiet
<1> QED BY <1>1, <1>2, <1>3, <1>4

\* Admission to a write: the step behind each gate knows what the one before did.
LEMMA AdmitInv ==
  ASSUME StoreInv, NEW w \in Workers, Admit(w) PROVE StoreInv'
<1>1. pc[w] \in DOMAIN Gate /\ Quiet
  BY DEF Admit, Quiet
<1>2. /\ DOMAIN Gate = {"connect", "recover", "begin", "record", "fail", "freeze"}
      /\ Gate["connect"] = "schema" /\ Gate["recover"] = "interrupt"
      /\ Gate["begin"] = "insert" /\ Gate["record"] = "outcome"
      /\ Gate["fail"] = "failure" /\ Gate["freeze"] = "truncate"
  BY DEF Gate
<1>3. pc[w] # "idle" /\ Gate[pc[w]] \in Steps /\ "fail" \in Steps
  BY <1>1, <1>2 DEF Steps
<1>4. ~beside => ~sealed
  BY <1>1, <1>2, <1>3, AtStep DEF Looking
<1>5. Ready(w, Gate[pc[w]]) /\ Gate[pc[w]] # "publish"
  BY <1>1, <1>2, <1>3, AtStep DEF Ready, Attempting, Sealing
<1>6. pc[w] = "record" => Ready(w, "fail")
  BY <1>3, AtStep DEF Ready, Attempting, Sealing
<1>7. \/ Goto(w, Gate[pc[w]])
      \/ pc[w] = "record" /\ Goto(w, "fail")
      \/ End(w)
  BY DEF Admit
<1>8. CASE Goto(w, Gate[pc[w]])
  BY <1>1, <1>3, <1>4, <1>5, <1>8, QuietGoto
<1>9. CASE pc[w] = "record" /\ Goto(w, "fail")
  BY <1>1, <1>3, <1>4, <1>6, <1>9, QuietGoto
<1>10. CASE End(w)
  BY <1>1, <1>3, <1>10, QuietEnd
<1> QED BY <1>7, <1>8, <1>9, <1>10

\* A limit takes the first pairs that are pending, so no pending pair is skipped.
LEMMA SelectedAreFirst ==
  ASSUME NEW limit, limit \in Limits \cup {NoLimit},
         NEW p \in Pairs, NEW q \in Selected(limit), p < q, outcome[p] = Absent
  PROVE  p \in Selected(limit)
<1> DEFINE Before(r) == {s \in Pending : s < r}
<1>1. p \in Pending /\ q \in Pending /\ Pending \subseteq Pairs
  BY DEF Pending, Selected
<1>2. IsFiniteSet(Pairs) /\ Pairs \subseteq Nat
  BY NPairsAssumption, FS_Interval DEF Pairs
<1>3. IsFiniteSet(Before(q)) /\ Before(p) \subseteq Before(q)
  <2>1. p \in Nat /\ q \in Nat /\ \A s \in Pending : s \in Nat
    BY <1>1, <1>2
  <2>2. \A s \in Pending : s < p => s < q
    BY <2>1
  <2>3. Before(q) \subseteq Pairs /\ Before(p) \subseteq Before(q)
    BY <1>1, <2>2
  <2> QED BY <1>2, <2>3, FS_Subset
<1>4. /\ Cardinality(Before(p)) <= Cardinality(Before(q))
      /\ Cardinality(Before(p)) \in Nat /\ Cardinality(Before(q)) \in Nat
  BY <1>3, FS_Subset, FS_CardinalityType
<1>5. CASE limit = NoLimit
  BY <1>1, <1>5 DEF Selected
<1>6. CASE limit # NoLimit
  <2>1. limit \in Nat
    BY <1>6, LimitsAssumption
  <2>2. Cardinality(Before(q)) < limit
    BY <1>6 DEF Selected
  <2>3. Cardinality(Before(p)) < limit
    BY <1>4, <2>1, <2>2
  <2> QED BY <1>1, <2>3 DEF Selected
<1> QED BY <1>5, <1>6

LEMMA SelectInv ==
  ASSUME StoreInv, NEW w \in Workers, Select(w) PROVE StoreInv'
<1>1. /\ pc[w] = "select" /\ Quiet
      /\ pc' = [pc EXCEPT ![w] = "next"]
      /\ todo' = [todo EXCEPT ![w] = Selected(job[w].limit)]
      /\ UNCHANGED <<job, creating, number, verdict, read>>
  BY DEF Select, Quiet
<1>2. job[w].limit \in Limits \cup {NoLimit}
  BY <1>1, AtStep DEF Commands, Preflight, Run
<1>3. Selected(job[w].limit) \subseteq Pairs /\ "next" \in Steps
  BY DEF Selected, Pending, Steps
<1>4. MemoryOK' /\ Others(w) /\ pc'[w] = "next" /\ todo'[w] = Selected(job[w].limit)
  <2>1. pc' \in [Workers -> Steps] /\ todo' \in [Workers -> SUBSET Pairs]
    BY <1>1, <1>3 DEF StoreInv, TypeOK
  <2> QED BY <1>1, <2>1 DEF StoreInv, TypeOK, MemoryOK, Others
<1>5. InOrder(w)'
  <2>1. \A p \in Pairs, q \in Selected(job[w].limit) :
          p < q => p \in Selected(job[w].limit) \/ outcome[p] # Absent
    BY <1>2, SelectedAreFirst
  <2> QED BY <1>1, <1>4, <2>1, QuietDisk DEF InOrder
<1>6. Ready(w, pc[w])'
  BY <1>1, <1>4, AtStep DEF Ready, Attempting, Sealing
<1>7. ~beside => ~sealed
  BY <1>1, AtStep DEF Looking
<1>8. Turn(w)
  BY <1>1, <1>4, <1>7, QuietDisk DEF Turn
<1> QED BY <1>1, <1>4, <1>5, <1>6, <1>8, QuietDisk, SameFiles, StepAssembles

\* The walk over the pairs, as far as it writes nothing.
LEMMA WalkInv ==
  ASSUME StoreInv, NEW w \in Workers, NextPair(w) \/ Answer(w) \/ Cleanup(w)
  PROVE  StoreInv'
<1>1. CASE NextPair(w)
  <2>1. pc[w] = "next" /\ Quiet
    BY <1>1 DEF NextPair, Quiet
  <2>2. PICK step \in {"cleanup", "begin"} :
          Goto(w, step) /\ (step = "begin" => todo[w] # {})
    BY <1>1 DEF NextPair
  <2>3. step \in Steps /\ step # "publish" /\ (~beside => ~sealed)
    BY <2>1, AtStep DEF Steps, Gate, Looking
  <2>4. Ready(w, step)
    BY <2>1, <2>2, AtStep DEF Ready, Attempting, Sealing
  <2> QED BY <2>1, <2>2, <2>3, <2>4, QuietGoto
<1>2. CASE Answer(w)
  <2>1. /\ pc[w] = "compare" /\ Quiet
        /\ pc' = [pc EXCEPT ![w] = "record"]
        /\ UNCHANGED <<job, creating, todo, number, read>>
    BY <1>2 DEF Answer, Quiet
  <2>2. PICK v \in Terminal : verdict' = [verdict EXCEPT ![w] = v]
    BY <1>2 DEF Answer
  <2>3. MemoryOK' /\ Others(w) /\ pc'[w] = "record" /\ verdict'[w] = v
    <3>1. "record" \in Steps
      BY DEF Steps, Gate
    <3>2. pc' \in [Workers -> Steps] /\ verdict' \in [Workers -> Terminal \cup {Absent}]
      BY <2>1, <2>2, <3>1 DEF StoreInv, TypeOK
    <3> QED BY <2>1, <2>2, <3>2 DEF StoreInv, TypeOK, MemoryOK, Others
  <2>4. Ready(w, pc[w])'
    BY <2>1, <2>2, <2>3, AtStep DEF Ready, Attempting, Sealing
  <2>5. InOrder(w)'
    BY <2>1, AtStep, QuietDisk DEF InOrder
  <2>6. ~beside => ~sealed
    BY <2>1, AtStep DEF Looking
  <2>7. Turn(w)
    BY <2>1, <2>3, <2>6, QuietDisk DEF Turn
  <2> QED BY <2>1, <2>3, <2>4, <2>5, <2>7, QuietDisk, SameFiles, StepAssembles
<1>3. CASE Cleanup(w)
  <2>1. /\ pc[w] = "cleanup" /\ Quiet
        /\ Require(w, job[w].limit = NoLimit /\ Pending = {}, "seal")
    BY <1>3 DEF Cleanup, Quiet
  <2>2. "seal" \in Steps /\ (~beside => ~sealed)
    BY <2>1, AtStep DEF Steps, Looking
  <2>3. Ready(w, "seal")
    BY <2>1, AtStep DEF Ready, Attempting, Sealing
  <2> QED BY <2>1, <2>2, <2>3, RequireQuiet
<1> QED BY <1>1, <1>2, <1>3

\* The seal, as far as it touches neither the files nor the database.
LEMMA SealingInv ==
  ASSUME StoreInv, NEW w \in Workers,
         BeginSeal(w) \/ AuditRun(w) \/ FreezeLockedOut(w) \/ ReadJournal(w)
           \/ VerifySeal(w)
  PROVE  StoreInv'
<1>1. CASE BeginSeal(w)
  <2>1. pc[w] = "seal" /\ Quiet
    BY <1>1 DEF BeginSeal, Quiet
  <2>2. {"verifySeal", "audit"} \subseteq Steps /\ (~beside => ~sealed)
    BY <2>1, AtStep DEF Steps, Looking
  <2>3. Ready(w, "verifySeal") /\ Ready(w, "audit")
    BY <2>1, AtStep DEF Ready, Attempting, Sealing
  <2>4. End(w) \/ Goto(w, "verifySeal") \/ Goto(w, "audit")
    BY <1>1 DEF BeginSeal
  <2>5. CASE End(w)
    BY <2>1, <2>5, QuietEnd
  <2>6. CASE Goto(w, "verifySeal") \/ Goto(w, "audit")
    BY <2>1, <2>2, <2>3, <2>6, QuietGoto
  <2> QED BY <2>4, <2>5, <2>6
<1>2. CASE AuditRun(w)
  <2> DEFINE complete ==
        Pending = {} /\ OpenAttempts = {} /\ \A p \in Pairs : Cardinality(Ended(p)) = 1
  <2>1. pc[w] = "audit" /\ Quiet /\ Require(w, complete, "freeze")
    BY <1>2 DEF AuditRun, Quiet
  <2>2. "freeze" \in Steps /\ (~beside => ~sealed)
    BY <2>1, AtStep DEF Steps, Gate, Looking
  <2>3. complete => Ready(w, "freeze")
    BY <2>1, AtStep DEF Ready, Attempting, Sealing
  <2>4. complete \in BOOLEAN
    OBVIOUS
  <2> HIDE DEF complete
  <2> QED BY <2>1, <2>2, <2>3, <2>4, RequireQuiet
<1>3. CASE FreezeLockedOut(w)
  BY <1>3, QuietEnd DEF FreezeLockedOut, Quiet
<1>4. CASE ReadJournal(w)
  <2>1. pc[w] = "read" /\ Quiet
    BY <1>4 DEF ReadJournal, Quiet
  <2>2. CASE OpenAttempts # {}
    BY <1>4, <2>1, <2>2, QuietEnd DEF ReadJournal
  <2>3. CASE OpenAttempts = {}
    <3> DEFINE rows == [attempts |-> attempts, outcome |-> outcome]
    <3>1. /\ pc' = [pc EXCEPT ![w] = "exportOutcomes"]
          /\ read' = [read EXCEPT ![w] = rows]
          /\ UNCHANGED <<job, creating, todo, number, verdict>>
      BY <1>4, <2>3 DEF ReadJournal
    <3>2. "exportOutcomes" \in Steps /\ rows \in [attempts : Journals, outcome : Tables]
      BY DEF Steps, StoreInv, TypeOK
    <3>3. rows' = rows
      BY <2>1, QuietDisk
    <3> HIDE DEF rows
    <3>4. MemoryOK' /\ Others(w) /\ pc'[w] = "exportOutcomes" /\ read'[w] = rows
      <4>1. /\ pc' \in [Workers -> Steps]
            /\ read' \in [Workers -> [attempts : Journals, outcome : Tables] \cup {Absent}]
        BY <3>1, <3>2 DEF StoreInv, TypeOK
      <4> QED BY <3>1, <4>1 DEF StoreInv, TypeOK, MemoryOK, Others
    <3>5. read'[w] = [attempts |-> attempts', outcome |-> outcome']
      BY <3>3, <3>4 DEF rows
    <3>6. Pending = {} /\ Pending' = {}
      BY <2>1, AtStep, QuietDisk, SameFiles DEF Ready, Sealing
    <3>7. Ready(w, pc[w])'
      BY <2>1, <3>1, <3>4, <3>5, <3>6, AtStep DEF Ready, Attempting, Sealing
    <3>8. InOrder(w)'
      BY <2>1, <3>1, AtStep, QuietDisk DEF InOrder
    <3>9. ~beside => ~sealed
      BY <2>1, AtStep DEF Looking
    <3>10. Turn(w)
      BY <2>1, <3>4, <3>9, QuietDisk DEF Turn
    <3> QED BY <2>1, <3>4, <3>7, <3>8, <3>10, QuietDisk, SameFiles, StepAssembles
  <2> QED BY <2>2, <2>3
<1>5. CASE VerifySeal(w)
  <2>1. /\ pc[w] = "verifySeal" /\ Quiet /\ Require(w, SealVerifies, "opened")
    BY <1>5 DEF VerifySeal, Quiet
  <2>2. "opened" \in Steps /\ "opened" \in Looking /\ SealVerifies \in BOOLEAN
    BY DEF Steps, Looking, SealVerifies
  <2>3. Ready(w, "opened")
    BY <2>1, AtStep DEF Ready, Attempting, Sealing
  <2> QED BY <2>1, <2>2, <2>3, RequireQuiet
<1> QED BY <1>1, <1>2, <1>3, <1>4, <1>5

\* What goes wrong.
LEMMA TroubleInv ==
  ASSUME StoreInv, NEW w \in Workers, Fault(w) \/ Crash(w)
  PROVE  StoreInv'
<1>1. /\ troubles' = troubles + 1 /\ troubles < MaxTroubles
      /\ UNCHANGED <<journal, files, checksums, beside>>
  BY DEF Fault, Crash
<1>2. /\ spec' = spec /\ db' = db /\ mode' = mode /\ attempts' = attempts
      /\ outcome' = outcome /\ outcomesFile' = outcomesFile
      /\ attemptsFile' = attemptsFile /\ sealed' = sealed /\ superseded' = superseded
      /\ sealHolds' = sealHolds /\ beside' = beside /\ fresh' = fresh
  BY <1>1 DEF journal, files, checksums
<1>3. troubles' \in 0 .. MaxTroubles
  BY <1>1, MaxTroublesAssumption DEF StoreInv, TypeOK
<1>4. DiskOK'
  BY <1>2, <1>3 DEF StoreInv, TypeOK, DiskOK
<1>5. CASE Fault(w)
  <2>1. pc[w] \in {"compare", "record", "outcome"} /\ Goto(w, "fail")
    BY <1>5 DEF Fault
  <2>2. "fail" \in Steps /\ (~beside => ~sealed)
    BY <2>1, AtStep DEF Steps, Gate, Looking
  <2>3. Ready(w, "fail")
    BY <2>1, AtStep DEF Ready, Attempting, Sealing
  <2>4. pc'[w] = "fail"
    BY <2>1, <2>2, GotoEffect DEF StoreInv
  <2>5. Turn(w)
    BY <1>2, <2>2, <2>4 DEF Turn
  <2> QED BY <1>2, <1>4, <2>1, <2>2, <2>3, <2>5, GotoStep
<1>6. CASE Crash(w)
  <2>1. pc[w] # "idle" /\ End(w)
    BY <1>6 DEF Crash
  <2> QED BY <1>2, <1>4, <2>1, SameFiles, EndStep DEF StoreInv, InTurn
<1> QED BY <1>5, <1>6

-----------------------------------------------------------------------------
(* Steps that write.                                                        *)

LEMMA WrittenEffect ==
  ASSUME TypeOK, NEW rows \in BOOLEAN, Written(rows)
  PROVE  mode' \in {"wal", "delete"} /\ fresh' \subseteq Workers /\ sealHolds' \in BOOLEAN
  BY DEF Written, TypeOK

\* Nobody who may write is beside a seal while processes take turns.
LEMMA WritersTurn ==
  ASSUME StoreInv, NEW w \in Workers, pc[w] \notin Looking, beside' = beside,
         sealed' = sealed, pc'[w] # "publish"
  PROVE  Turn(w) /\ pc[w] # "idle"
  BY AtStep DEF Turn, Looking

\* The run specification, the schema and the initial rows.
LEMMA CreationInv ==
  ASSUME StoreInv, NEW w \in Workers,
         ClaimSpec(w) \/ CreateSchema(w) \/ WriteInitialState(w)
  PROVE  StoreInv'
<1>1. CASE ClaimSpec(w)
  <2>1. /\ pc[w] = "claim" /\ spec' = TRUE /\ Require(w, ~spec, "look")
        /\ db' = db /\ attempts' = attempts /\ outcome' = outcome
        /\ outcomesFile' = outcomesFile /\ attemptsFile' = attemptsFile
        /\ sealed' = sealed /\ superseded' = superseded
        /\ mode' = mode /\ fresh' = fresh /\ sealHolds' = sealHolds
        /\ beside' = beside /\ troubles' = troubles
    BY <1>1 DEF ClaimSpec, files, checksums, history
  <2>2. DiskOK'
    BY <2>1 DEF StoreInv, TypeOK, DiskOK
  <2>3. "look" \in Steps /\ "look" \in Looking
    BY DEF Steps, Looking
  <2>4. CASE Goto(w, "look")
    <3>1. Ready(w, "look")
      BY <2>1, AtStep DEF Ready, Attempting, Sealing
    <3>2. pc'[w] = "look"
      BY <2>3, <2>4, GotoEffect DEF StoreInv
    <3>3. Turn(w)
      BY <2>1, <2>3, <3>2 DEF Turn, StoreInv, InTurn
    <3> QED BY <2>1, <2>2, <2>3, <2>4, <3>1, <3>3, GotoStep
  <2>5. CASE End(w)
    BY <2>1, <2>2, <2>5, SameFiles, EndStep DEF StoreInv, InTurn
  <2> QED BY <2>1, <2>4, <2>5 DEF Require
<1>2. CASE CreateSchema(w)
  <2>1. /\ pc[w] = "schema" /\ db' = (IF db = "none" THEN "schema" ELSE db)
        /\ Written(db = "none")
        /\ spec' = spec /\ attempts' = attempts /\ outcome' = outcome
        /\ outcomesFile' = outcomesFile /\ attemptsFile' = attemptsFile
        /\ sealed' = sealed /\ superseded' = superseded
        /\ beside' = beside /\ troubles' = troubles
    BY <1>2 DEF CreateSchema, files, history
  <2>2. PICK step \in {"initialise", "verify"} : Goto(w, step)
    BY <1>2 DEF CreateSchema
  <2>3. DiskOK'
    BY <2>1, WrittenEffect DEF StoreInv, TypeOK, DiskOK
  <2>4. step \in Steps /\ step # "publish" /\ pc[w] \notin Looking
    BY <2>1 DEF Steps, Looking
  <2>5. Ready(w, step)
    BY <2>1, AtStep DEF Ready, Attempting, Sealing
  <2>6. pc'[w] = step
    BY <2>2, <2>4, GotoEffect DEF StoreInv
  <2> QED BY <2>1, <2>2, <2>3, <2>4, <2>5, <2>6, WritersTurn, GotoStep
<1>3. CASE WriteInitialState(w)
  <2>1. /\ pc[w] = "initialise" /\ db' = "ready" /\ Require(w, db = "schema", "verify")
        /\ spec' = spec /\ attempts' = attempts /\ outcome' = outcome
        /\ outcomesFile' = outcomesFile /\ attemptsFile' = attemptsFile
        /\ sealed' = sealed /\ superseded' = superseded
        /\ beside' = beside /\ troubles' = troubles
    BY <1>3 DEF WriteInitialState, files, history
  <2>2. Written(TRUE) \/ UNCHANGED checksums
    BY <1>3 DEF WriteInitialState
  <2>3. mode' \in {"wal", "delete"} /\ fresh' \subseteq Workers /\ sealHolds' \in BOOLEAN
    BY <2>2, WrittenEffect DEF checksums, StoreInv, TypeOK
  <2>4. DiskOK'
    BY <2>1, <2>3 DEF StoreInv, TypeOK, DiskOK
  <2>5. "verify" \in Steps /\ pc[w] \notin Looking
    BY <2>1 DEF Steps, Looking
  <2>6. CASE Goto(w, "verify")
    <3>1. Ready(w, "verify")
      BY <2>1, AtStep DEF Ready, Attempting, Sealing
    <3>2. pc'[w] = "verify"
      BY <2>5, <2>6, GotoEffect DEF StoreInv
    <3> QED BY <2>1, <2>4, <2>5, <2>6, <3>1, <3>2, WritersTurn, GotoStep
  <2>7. CASE End(w)
    <3>1. ~beside => ~sealed'
      BY <2>1, <2>5, AtStep DEF Looking
    <3> QED BY <2>1, <2>4, <2>7, <3>1, SameFiles, EndStep
  <2> QED BY <2>1, <2>6, <2>7 DEF Require
<1> QED BY <1>1, <1>2, <1>3

\* What a write to the journal leaves as it is.
LEMMA FilesStay ==
  ASSUME StoreInv, JournalMoves,
         UNCHANGED <<outcomesFile, attemptsFile, sealed>>
  PROVE  FilesFit' /\ FilesGrow
<1>1. TypeOK /\ FilesFit
  BY DEF StoreInv
<1>2. Exported => attempts' = attempts /\ outcome' = outcome /\ Pending' = {}
  BY <1>1, CompleteIsFinal, StillComplete DEF FilesFit
<1>3. sealed => Exported
  BY <1>1, AbsentAssumption DEF FilesFit, Exported, TypeOK
<1>4. CASE Exported
  BY <1>1, <1>2, <1>4 DEF FilesFit, FilesGrow, Exported
<1>5. CASE ~Exported
  BY <1>3, <1>5 DEF FilesFit, FilesGrow, Exported
<1> QED BY <1>4, <1>5

Writes(w) ==
  /\ pc[w] \in {"interrupt", "insert", "outcome", "failure"}
  /\ mode' = "wal"
  /\ (fresh' = {} /\ sealHolds' = FALSE) \/ UNCHANGED <<fresh, sealHolds>>
  /\ UNCHANGED <<spec, db, files, history>>

LEMMA WriteDisk ==
  ASSUME StoreInv, NEW w \in Workers, Writes(w), JournalMoves
  PROVE  /\ DiskOK' /\ FilesFit' /\ FilesGrow /\ beside' = beside /\ sealed' = sealed
         /\ pc[w] \notin Looking /\ pc[w] # "idle" /\ (~beside => ~sealed')
<1>1. /\ spec' = spec /\ db' = db /\ outcomesFile' = outcomesFile
      /\ attemptsFile' = attemptsFile /\ sealed' = sealed /\ superseded' = superseded
      /\ beside' = beside /\ troubles' = troubles
      /\ mode' \in {"wal", "delete"} /\ fresh' \subseteq Workers /\ sealHolds' \in BOOLEAN
  BY DEF Writes, files, history, StoreInv, TypeOK
<1>2. attempts' \in Journals /\ outcome' \in Tables
  BY DEF JournalMoves
<1>3. DiskOK'
  BY <1>1, <1>2 DEF StoreInv, TypeOK, DiskOK
<1>4. pc[w] \notin Looking /\ pc[w] # "idle"
  BY DEF Writes, Looking
<1>5. ~beside => ~sealed'
  BY <1>1, <1>4, AtStep
<1> QED BY <1>1, <1>3, <1>4, <1>5, FilesStay

LEMMA WriteGoto ==
  ASSUME StoreInv, NEW w \in Workers, Writes(w), JournalMoves,
         NEW step \in Steps \ (Sealing \cup {"record", "outcome"}), Goto(w, step),
         step \in Attempting => todo[w] # {}
  PROVE  StoreInv'
<1>1. MemoryOK' /\ Others(w) /\ pc'[w] = step /\ UNCHANGED memory
  BY GotoEffect DEF StoreInv
<1>2. Ready(w, pc[w])'
  BY <1>1, AtStep, WriteDisk DEF Ready, memory, Sealing
<1>3. InOrder(w)'
  BY <1>1, WriteDisk, AtStep DEF InOrder, memory, JournalMoves, TypeOK
<1>4. Turn(w)
  BY <1>1, WriteDisk DEF Turn, Sealing
<1> QED BY <1>1, <1>2, <1>3, <1>4, WriteDisk, StepAssembles

LEMMA WriteEnd ==
  ASSUME StoreInv, NEW w \in Workers, Writes(w), JournalMoves, End(w)
  PROVE  StoreInv'
  BY WriteDisk, EndStep

LEMMA InterruptInv ==
  ASSUME StoreInv, NEW w \in Workers, Interrupt(w) PROVE StoreInv'
<1>1. Writes(w) /\ Goto(w, "select")
  BY DEF Interrupt, Writes, Written
<1>2. JournalMoves
  BY InterruptMoves DEF StoreInv
<1>3. "select" \in Steps \ (Sealing \cup {"record", "outcome"}) /\ "select" \notin Attempting
  BY DEF Steps, Sealing, Attempting
<1> QED BY <1>1, <1>2, <1>3, WriteGoto

LEMMA BeginInv ==
  ASSUME StoreInv, NEW w \in Workers, BeginAttempt(w) PROVE StoreInv'
<1> DEFINE p == InFlight(w)
           mayBegin == outcome[p] = Absent /\ Open(p) = {}
<1>1. pc[w] = "insert" /\ Writes(w)
  BY DEF BeginAttempt, Writes, Written
<1>2. TypeOK /\ JournalFits /\ Ready(w, pc[w]) /\ InOrder(w) /\ job[w] \in Commands
  BY <1>1, AtStep
<1>3. todo[w] # {}
  BY <1>1, <1>2 DEF Ready, Attempting
<1>4. JournalMoves
  BY <1>2, <1>3, BeginMoves
<1>5. CASE ~mayBegin
  <2>1. End(w)
    BY <1>5 DEF BeginAttempt
  <2> QED BY <1>1, <1>4, <2>1, WriteEnd
<1>6. CASE mayBegin
  <2>1. /\ pc' = [pc EXCEPT ![w] = "compare"]
        /\ number' = [number EXCEPT ![w] = Len(attempts[p]) + 1]
        /\ UNCHANGED <<job, creating, todo, verdict, read>>
    BY <1>6 DEF BeginAttempt
  <2>2. Len(attempts[p]) + 1 \in Nat /\ "compare" \in Steps
    <3>1. attempts[p] \in Seq(Classifications)
      BY <1>2, <1>3, InHand DEF TypeOK, Journals
    <3> QED BY <3>1 DEF Steps
  <2>3. MemoryOK' /\ Others(w) /\ pc'[w] = "compare"
    <3>1. pc' \in [Workers -> Steps] /\ number' \in [Workers -> Nat]
      BY <1>2, <2>1, <2>2 DEF TypeOK
    <3> QED BY <1>2, <2>1, <3>1 DEF TypeOK, MemoryOK, Others
  <2>4. Ready(w, pc[w])'
    BY <1>2, <1>3, <2>1, <2>3 DEF Ready, Sealing, Attempting
  <2>5. InOrder(w)'
    BY <1>2, <1>4, <2>1 DEF InOrder, JournalMoves, TypeOK
  <2>6. Turn(w)
    BY <1>1, <1>4, <2>3, WriteDisk DEF Turn
  <2> QED BY <1>1, <1>4, <2>3, <2>4, <2>5, <2>6, WriteDisk, StepAssembles
<1> QED BY <1>5, <1>6

LEMMA RecordTerminalInv ==
  ASSUME StoreInv, NEW w \in Workers, RecordTerminal(w) PROVE StoreInv'
<1> DEFINE p == InFlight(w)
<1>1. pc[w] = "outcome" /\ Writes(w)
  BY DEF RecordTerminal, Writes, Written
<1>2. TypeOK /\ JournalFits /\ Ready(w, pc[w]) /\ InOrder(w) /\ job[w] \in Commands
  BY <1>1, AtStep
<1>3. todo[w] # {} /\ verdict[w] \in Terminal
  BY <1>1, <1>2 DEF Ready, Attempting
<1>4. CASE ~Mine(w)
  <2>1. Goto(w, "fail") /\ UNCHANGED <<attempts, outcome>>
    BY <1>4 DEF RecordTerminal
  <2>2. "fail" \in Steps \ (Sealing \cup {"record", "outcome"})
    BY DEF Steps, Gate, Sealing
  <2> QED BY <1>1, <1>2, <1>3, <2>1, <2>2, SameJournal, WriteGoto
<1>5. CASE Mine(w)
  <2>1. /\ outcome' = [outcome EXCEPT
               ![p] = [attempt |-> number[w], status |-> verdict[w]]]
        /\ attempts' = Close(p, number[w], verdict[w])
        /\ todo' = [todo EXCEPT ![w] = @ \ {p}]
        /\ number' = [number EXCEPT ![w] = 0]
        /\ verdict' = [verdict EXCEPT ![w] = Absent]
        /\ pc' = [pc EXCEPT ![w] = "next"]
        /\ UNCHANGED <<job, creating, read>>
    BY <1>5 DEF RecordTerminal
  <2>2. verdict[w] \in Closed
    BY <1>3, Words
  <2>3. JournalMoves
    BY <1>2, <1>3, <1>5, <2>1, <2>2, ClosingMoves
  <2>4. p \in Pairs /\ outcome'[p] # Absent
    <3>1. p \in Pairs
      BY <1>2, <1>3, InHand
    <3>2. outcome'[p] = [attempt |-> number[w], status |-> verdict[w]]
      BY <1>2, <2>1, <3>1 DEF TypeOK, Tables
    <3>3. attempts[p] \in Seq(Classifications) /\ number[w] \in DOMAIN attempts[p]
      BY <1>2, <1>5, <3>1 DEF TypeOK, Journals, Mine, Open
    <3>4. outcome'[p] \in Outcomes
      BY <1>3, <3>2, <3>3 DEF Outcomes
    <3> QED BY <3>1, <3>4, AbsentAssumption
  <2>5. MemoryOK' /\ Others(w) /\ pc'[w] = "next" /\ todo'[w] = todo[w] \ {p}
    <3>1. /\ pc' \in [Workers -> Steps] /\ todo' \in [Workers -> SUBSET Pairs]
          /\ number' \in [Workers -> Nat] /\ verdict' \in [Workers -> Terminal \cup {Absent}]
      BY <1>2, <2>1 DEF TypeOK, Steps
    <3> QED BY <1>2, <2>1, <3>1 DEF TypeOK, MemoryOK, Others
  <2>6. Ready(w, pc[w])'
    BY <1>2, <2>1, <2>5 DEF Ready, Sealing, Attempting
  <2>7. InOrder(w)'
    <3> SUFFICES ASSUME NEW r \in Pairs, NEW q \in todo'[w], r < q, outcome'[r] = Absent
                 PROVE  r \in todo'[w]
      BY DEF InOrder
    <3>1. outcome[r] = Absent /\ r # p
      BY <2>3, <2>4 DEF JournalMoves
    <3> QED BY <1>2, <2>5, <3>1 DEF InOrder
  <2>8. Turn(w)
    BY <1>1, <2>3, <2>5, WriteDisk DEF Turn
  <2> QED BY <1>1, <2>3, <2>5, <2>6, <2>7, <2>8, WriteDisk, StepAssembles
<1> QED BY <1>4, <1>5

LEMMA RecordFailureInv ==
  ASSUME StoreInv, NEW w \in Workers, RecordFailure(w) PROVE StoreInv'
<1>1. pc[w] = "failure" /\ Writes(w) /\ End(w) /\ outcome' = outcome
  BY DEF RecordFailure, Writes, Written
<1>2. TypeOK /\ JournalFits /\ Ready(w, pc[w]) /\ InOrder(w)
  BY <1>1, AtStep
<1>3. todo[w] # {}
  BY <1>1, <1>2 DEF Ready, Attempting
<1>4. JournalMoves
  <2>1. CASE Mine(w)
    <3>1. attempts' = Close(InFlight(w), number[w], "INFRASTRUCTURE_FAILURE")
      BY <2>1 DEF RecordFailure
    <3> QED BY <1>1, <1>2, <1>3, <2>1, <3>1, Words, ClosingMoves
  <2>2. CASE ~Mine(w)
    BY <1>1, <1>2, <2>2, SameJournal DEF RecordFailure
  <2> QED BY <2>1, <2>2
<1> QED BY <1>1, <1>4, WriteEnd

LEMMA FreezeInv ==
  ASSUME StoreInv, NEW w \in Workers, Freeze(w) PROVE StoreInv'
<1>1. /\ pc[w] = "truncate" /\ Goto(w, "read")
      /\ mode' = "delete" /\ fresh' = {} /\ sealHolds' = FALSE
      /\ spec' = spec /\ db' = db /\ attempts' = attempts /\ outcome' = outcome
      /\ outcomesFile' = outcomesFile /\ attemptsFile' = attemptsFile
      /\ sealed' = sealed /\ superseded' = superseded
      /\ beside' = beside /\ troubles' = troubles
  BY DEF Freeze, journal, files, history
<1>2. DiskOK'
  BY <1>1 DEF StoreInv, TypeOK, DiskOK
<1>3. "read" \in Steps /\ pc[w] \notin Looking
  BY <1>1 DEF Steps, Looking
<1>4. Ready(w, "read")
  BY <1>1, AtStep DEF Ready, Attempting, Sealing
<1>5. pc'[w] = "read"
  BY <1>1, <1>3, GotoEffect DEF StoreInv
<1> QED BY <1>1, <1>2, <1>3, <1>4, <1>5, WritersTurn, GotoStep

\* The exports: of the journal that was read, which is the journal.
LEMMA ExportInv ==
  ASSUME StoreInv, NEW w \in Workers, ExportOutcomes(w) \/ ExportAttempts(w)
  PROVE  StoreInv'
<1>1. /\ pc[w] \in {"exportOutcomes", "exportAttempts"} /\ pc[w] \notin Looking
      /\ spec' = spec /\ db' = db /\ attempts' = attempts /\ outcome' = outcome
      /\ sealed' = sealed /\ superseded' = superseded
      /\ mode' = mode /\ fresh' = fresh /\ sealHolds' = sealHolds
      /\ beside' = beside /\ troubles' = troubles
  BY DEF ExportOutcomes, ExportAttempts, journal, checksums, history, Looking
<1>2. /\ TypeOK /\ FilesFit /\ Ready(w, pc[w]) /\ InOrder(w) /\ job[w] \in Commands
      /\ ~beside => ~sealed
  BY <1>1, AtStep DEF Looking
<1>3. /\ Pending = {} /\ read[w].attempts = attempts /\ read[w].outcome = outcome
      /\ pc[w] = "exportAttempts" => outcomesFile = outcome
  BY <1>1, <1>2 DEF Ready, Sealing
<1>4. JournalMoves /\ Pending' = {}
  BY <1>1, <1>2, <1>3, SameJournal DEF StoreInv, Pending
<1>5. outcome # Absent /\ attempts # Absent
  BY <1>2, AbsentAssumption DEF TypeOK
<1>6. /\ outcomesFile' = IF pc[w] = "exportOutcomes" THEN outcome ELSE outcomesFile
      /\ attemptsFile' = IF pc[w] = "exportAttempts" THEN attempts ELSE attemptsFile
  BY <1>2, <1>3 DEF ExportOutcomes, ExportAttempts, FilesFit
<1>7. DiskOK'
  BY <1>1, <1>2, <1>6 DEF TypeOK, DiskOK
<1>8. FilesFit' /\ FilesGrow
  BY <1>1, <1>2, <1>4, <1>5, <1>6 DEF FilesFit, FilesGrow, Exported
<1>9. PICK step \in {"exportAttempts", "hash"} :
        Goto(w, step) /\ pc[w] = (IF step = "hash" THEN "exportAttempts" ELSE "exportOutcomes")
  BY <1>2, <1>3, <1>6 DEF ExportOutcomes, ExportAttempts, Require
<1>10. step \in Steps /\ step # "publish"
  BY DEF Steps
<1>11. MemoryOK' /\ Others(w) /\ pc'[w] = step /\ UNCHANGED memory
  BY <1>2, <1>9, <1>10, GotoEffect
<1>12. Ready(w, pc[w])'
  BY <1>1, <1>2, <1>3, <1>4, <1>6, <1>9, <1>11 DEF Ready, Attempting, Sealing, memory
<1>13. InOrder(w)'
  BY <1>1, <1>2, <1>11 DEF InOrder, memory
<1>14. Turn(w)
  BY <1>1, <1>2, <1>10, <1>11 DEF Turn
<1> QED BY <1>1, <1>4, <1>7, <1>8, <1>11, <1>12, <1>13, <1>14, StepAssembles DEF Looking

LEMMA HashInv ==
  ASSUME StoreInv, NEW w \in Workers, HashDatabase(w) PROVE StoreInv'
<1>1. /\ pc[w] = "hash" /\ Goto(w, "publish") /\ fresh' = fresh \cup {w}
      /\ mode' = mode /\ sealHolds' = sealHolds
      /\ spec' = spec /\ db' = db /\ attempts' = attempts /\ outcome' = outcome
      /\ outcomesFile' = outcomesFile /\ attemptsFile' = attemptsFile
      /\ sealed' = sealed /\ superseded' = superseded
      /\ beside' = beside /\ troubles' = troubles
  BY DEF HashDatabase, journal, files, history
<1>2. DiskOK'
  BY <1>1 DEF StoreInv, TypeOK, DiskOK
<1>3. "publish" \in Steps /\ (~beside => ~sealed)
  BY <1>1, AtStep DEF Steps, Looking
<1>4. Ready(w, "publish")
  BY <1>1, AtStep DEF Ready, Attempting, Sealing
<1>5. pc'[w] = "publish"
  BY <1>1, <1>3, GotoEffect DEF StoreInv
<1>6. Turn(w)
  BY <1>1, <1>3, <1>5 DEF Turn
<1> QED BY <1>1, <1>2, <1>3, <1>4, <1>6, GotoStep

LEMMA PublishInv ==
  ASSUME StoreInv, NEW w \in Workers, PublishSeal(w) PROVE StoreInv'
<1>1. /\ pc[w] = "publish" /\ Goto(w, "verifySeal") /\ sealed' = TRUE
      /\ sealHolds' = (IF sealed THEN sealHolds ELSE w \in fresh)
      /\ mode' = mode /\ fresh' = fresh
      /\ spec' = spec /\ db' = db /\ attempts' = attempts /\ outcome' = outcome
      /\ outcomesFile' = outcomesFile /\ attemptsFile' = attemptsFile
      /\ superseded' = superseded /\ beside' = beside /\ troubles' = troubles
  BY DEF PublishSeal, journal, history
<1>2. /\ TypeOK /\ JournalFits /\ FilesFit /\ Ready(w, pc[w]) /\ InOrder(w)
      /\ job[w] \in Commands /\ (~beside => ~sealed)
  BY <1>1, AtStep DEF Looking
<1>3. sealHolds' \in BOOLEAN
  <2>1. CASE sealed
    <3>1. sealHolds' = sealHolds
      BY <1>1, <2>1
    <3> QED BY <1>2, <3>1 DEF TypeOK
  <2>2. CASE ~sealed
    <3>1. sealHolds' = (w \in fresh)
      BY <1>1, <2>2
    <3> QED BY <3>1
  <2> QED BY <2>1, <2>2
<1>4. DiskOK'
  BY <1>1, <1>2, <1>3 DEF TypeOK, DiskOK
<1>5. JournalMoves
  BY <1>1, <1>2, SameJournal
<1>6. outcomesFile = outcome /\ attemptsFile = attempts /\ Pending = {} /\ Pending' = {}
  BY <1>1, <1>2 DEF Ready, Sealing, Pending
<1>7. FilesFit' /\ FilesGrow
  BY <1>1, <1>6 DEF FilesFit, FilesGrow
<1>8. "verifySeal" \in Steps /\ "verifySeal" \in Looking
  BY DEF Steps, Looking
<1>9. MemoryOK' /\ Others(w) /\ pc'[w] = "verifySeal" /\ UNCHANGED memory
  BY <1>1, <1>2, <1>8, GotoEffect
<1>10. Ready(w, pc[w])'
  BY <1>2, <1>9 DEF Ready, Attempting, Sealing, memory
<1>11. InOrder(w)'
  BY <1>1, <1>2, <1>9 DEF InOrder, memory
<1>12. ~beside => w \in fresh
  BY <1>1 DEF StoreInv, InTurn
<1>13. Turn(w)
  BY <1>1, <1>2, <1>8, <1>9, <1>12 DEF Turn
<1> QED BY <1>1, <1>4, <1>5, <1>7, <1>9, <1>10, <1>11, <1>13, StepAssembles

-----------------------------------------------------------------------------
(* Who does not take a step of a command: a supersession, and a start.      *)

LEMMA SupersedeInv ==
  ASSUME StoreInv, Supersede PROVE StoreInv'
<1>1. /\ superseded' = TRUE
      /\ spec' = spec /\ db' = db /\ mode' = mode /\ attempts' = attempts
      /\ outcome' = outcome /\ outcomesFile' = outcomesFile
      /\ attemptsFile' = attemptsFile /\ sealed' = sealed
      /\ sealHolds' = sealHolds /\ beside' = beside /\ fresh' = fresh
      /\ troubles' = troubles
      /\ pc' = pc /\ job' = job /\ creating' = creating /\ todo' = todo
      /\ number' = number /\ verdict' = verdict /\ read' = read
  BY DEF Supersede, journal, checksums, memory, history
<1>2. TypeOK'
  BY <1>1 DEF StoreInv, TypeOK
<1>3. Pending' = Pending /\ JournalFits'
  BY <1>1 DEF Pending, StoreInv, JournalFits, Open
<1>4. FilesFit' /\ InTurn'
  BY <1>1, <1>3 DEF StoreInv, FilesFit, InTurn, Exported
<1>5. \A w \in Workers : Ready(w, pc[w])' /\ InOrder(w)'
  BY <1>1, <1>3 DEF StoreInv, Ready, InOrder
<1> QED BY <1>2, <1>3, <1>4, <1>5 DEF StoreInv

LEMMA LaunchInv ==
  ASSUME StoreInv, NEW w \in Workers, NEW s \in Commands, Launch(w, s)
  PROVE  StoreInv'
<1>1. /\ pc[w] = "idle"
      /\ pc' = [pc EXCEPT ![w] = "open"] /\ job' = [job EXCEPT ![w] = s]
      /\ spec' = spec /\ db' = db /\ mode' = mode /\ attempts' = attempts
      /\ outcome' = outcome /\ outcomesFile' = outcomesFile
      /\ attemptsFile' = attemptsFile /\ sealed' = sealed /\ superseded' = superseded
      /\ sealHolds' = sealHolds /\ fresh' = fresh
      /\ creating' = creating /\ todo' = todo
      /\ number' = number /\ verdict' = verdict /\ read' = read
  BY DEF Launch, journal, files, checksums
<1>2. \/ (\A v \in Workers : pc[v] = "idle") /\ beside' = beside /\ troubles' = troubles
      \/ beside' = TRUE /\ troubles < MaxTroubles /\ troubles' = troubles + 1
  BY DEF Launch, history
<1>3. beside' \in BOOLEAN /\ troubles' \in 0 .. MaxTroubles
  <2>1. beside \in BOOLEAN /\ troubles \in 0 .. MaxTroubles
    BY DEF StoreInv, TypeOK
  <2>2. beside' \in BOOLEAN
    BY <1>2, <2>1
  <2>3. troubles' \in 0 .. MaxTroubles
    BY <1>2, <2>1, MaxTroublesAssumption
  <2> QED BY <2>2, <2>3
<1>4. pc' \in [Workers -> Steps] /\ job' \in [Workers -> Commands \cup {Absent}]
  BY <1>1 DEF StoreInv, TypeOK, Steps
<1>5. TypeOK'
  BY <1>1, <1>3, <1>4 DEF StoreInv, TypeOK
<1>6. Pending' = Pending /\ JournalFits'
  BY <1>1 DEF Pending, StoreInv, JournalFits, Open
<1>7. FilesFit'
  BY <1>1, <1>6 DEF StoreInv, FilesFit, Exported
<1>8. /\ pc'[w] = "open" /\ job'[w] = s
      /\ \A v \in Workers \ {w} : pc'[v] = pc[v] /\ job'[v] = job[v]
  BY <1>1 DEF StoreInv, TypeOK
<1>9. InTurn'
  BY <1>1, <1>2, <1>8 DEF StoreInv, InTurn, Looking
<1>10. ASSUME NEW v \in Workers PROVE Ready(v, pc[v])' /\ InOrder(v)'
  <2>1. Ready(v, pc[v]) /\ InOrder(v)
    BY DEF StoreInv
  <2>2. InOrder(v)'
    BY <1>1, <2>1 DEF InOrder
  <2>3. CASE v = w
    BY <1>8, <2>2, <2>3 DEF Ready, Attempting, Sealing
  <2>4. CASE v # w
    BY <1>1, <1>6, <1>8, <2>1, <2>2, <2>4 DEF Ready
  <2> QED BY <2>3, <2>4
<1> QED BY <1>5, <1>6, <1>7, <1>9, <1>10 DEF StoreInv

-----------------------------------------------------------------------------
(* The theorems.                                                            *)

LEMMA InitInv == Init => StoreInv
<1> SUFFICES ASSUME Init PROVE StoreInv
  OBVIOUS
<1> USE DEF Init
<1>1. attempts \in Journals /\ outcome \in Tables
  BY DEF Journals, Tables
<1>2. DiskOK
  <2>1. troubles \in 0 .. MaxTroubles
    BY MaxTroublesAssumption
  <2>2. {sealed, superseded, sealHolds, beside} \subseteq BOOLEAN /\ spec \in BOOLEAN
    OBVIOUS
  <2> QED BY <1>1, <2>1, <2>2 DEF DiskOK
<1>3. MemoryOK
  BY DEF MemoryOK, Steps
<1>4. JournalFits
  <2>1. \A p \in Pairs : attempts[p] = <<>> /\ outcome[p] = Absent
    OBVIOUS
  <2> QED BY <2>1 DEF JournalFits, Shape, Open
<1>5. FilesFit /\ InTurn
  BY DEF FilesFit, InTurn, Exported, Looking
<1>6. \A w \in Workers : Ready(w, pc[w]) /\ InOrder(w)
  BY DEF Ready, InOrder, Attempting, Sealing
<1> QED BY <1>2, <1>3, <1>4, <1>5, <1>6, TypeIsBoth DEF StoreInv

LEMMA StepInv ==
  ASSUME StoreInv, NEW w \in Workers, Step(w) \/ Fault(w) \/ Crash(w)
  PROVE  StoreInv'
  BY OpeningInv, CreationInv, AdmitInv, InterruptInv, SelectInv, WalkInv, BeginInv,
     RecordTerminalInv, RecordFailureInv, SealingInv, FreezeInv, ExportInv, HashInv,
     PublishInv, TroubleInv
  DEF Step

LEMMA NextInv == StoreInv /\ [Next]_vars => StoreInv'
<1> SUFFICES ASSUME StoreInv, [Next]_vars PROVE StoreInv'
  OBVIOUS
<1>1. CASE Next
  BY <1>1, SupersedeInv, LaunchInv, StepInv DEF Next
<1>2. CASE UNCHANGED vars
  BY <1>2
  DEF vars, journal, files, checksums, memory, history, StoreInv, TypeOK, JournalFits,
      Open, FilesFit, Exported, InTurn, Ready, InOrder, Pending
<1> QED BY <1>1, <1>2

LEMMA StoreInvariant == Spec => []StoreInv
  BY InitInv, NextInv, PTL DEF Spec

\* Whatever processes do to a run, at once or in turns, crashing and failing
\* anywhere, its journal passes _verify_existing_records: it can be opened again.
THEOREM JournalStaysSound == Spec => []JournalIsSound
<1>1. StoreInv => JournalIsSound
  BY FitsVerifies DEF StoreInv, JournalIsSound, JournalAlwaysOpens
<1> QED BY <1>1, StoreInvariant, PTL

\* However many processes export, and whoever else still writes, an export that
\* exists is the complete journal, and stays it.
THEOREM ExportsMatch == Spec => []ExportIsTheJournal
<1>1. StoreInv => ExportIsTheJournal
  BY OneAttemptIsOpen DEF StoreInv, ExportIsTheJournal, FilesFit
<1> QED BY <1>1, StoreInvariant, PTL

\* The rows that are exported are a sealable run, once every pair has its outcome.
LEMMA CompleteSeals ==
  ASSUME StoreInv, sealed, sealHolds
  PROVE  SealVerifies
<1>1. /\ TypeOK /\ outcomesFile = outcome /\ attemptsFile = attempts
      /\ outcome # Absent /\ attempts # Absent
  BY AbsentAssumption DEF StoreInv, TypeOK, FilesFit
<1>2. Pending = {}
  BY <1>1 DEF StoreInv, FilesFit, Exported
<1>3. ASSUME NEW p \in Pairs
      PROVE  /\ outcome[p] \in Outcomes
             /\ outcome[p].attempt = Len(attempts[p])
             /\ outcome[p].status = attempts[p][Len(attempts[p])]
             /\ \A n \in 1 .. Len(attempts[p]) - 1 : attempts[p][n] \in Closed \ Terminal
  <2>1. attempts[p] \in Seq(Classifications) /\ outcome[p] \in Outcomes \cup {Absent}
    BY <1>1 DEF TypeOK, Journals, Tables
  <2>2. outcome[p] # Absent /\ Shape(attempts[p], outcome[p])
    BY <1>2 DEF Pending, StoreInv, JournalFits
  <2>3. outcome[p] \in Outcomes
    BY <2>1, <2>2
  <2>4. outcome[p] = [attempt |-> Len(attempts[p]), status |-> attempts[p][Len(attempts[p])]]
    BY <2>2 DEF Shape
  <2>5. \A n \in 1 .. Len(attempts[p]) - 1 : n \in DOMAIN attempts[p] /\ n # Len(attempts[p])
    BY <2>1
  <2> QED BY <2>2, <2>3, <2>4, <2>5 DEF Shape
<1>4. outcome \in [Pairs -> Outcomes]
  BY <1>1, <1>3 DEF TypeOK, Tables
<1> QED BY <1>1, <1>3, <1>4 DEF SealVerifies

\* While processes take turns, crashing anywhere, a seal that is published
\* verifies, then and ever after.
THEOREM SealHoldsInTurn == Spec => []SealHoldsAlone
<1>1. StoreInv => SealHoldsAlone
  BY CompleteSeals DEF StoreInv, InTurn, SealHoldsAlone
<1> QED BY <1>1, StoreInvariant, PTL

LEMMA StepMovesJournal ==
  ASSUME StoreInv, [Next]_vars PROVE JournalMoves
<1>1. CASE UNCHANGED <<attempts, outcome>>
  BY <1>1, SameJournal DEF StoreInv
<1>2. ASSUME NEW w \in Workers, Interrupt(w) PROVE JournalMoves
  BY <1>2, InterruptMoves DEF StoreInv
<1>3. ASSUME NEW w \in Workers, BeginAttempt(w) \/ RecordTerminal(w) \/ RecordFailure(w)
      PROVE  JournalMoves
  <2>1. pc[w] \in {"insert", "outcome", "failure"}
    BY <1>3 DEF BeginAttempt, RecordTerminal, RecordFailure
  <2>2. TypeOK /\ JournalFits /\ Ready(w, pc[w]) /\ InOrder(w)
    BY <2>1, AtStep
  <2>3. todo[w] # {} /\ (pc[w] = "outcome" => verdict[w] \in Terminal)
    BY <2>1, <2>2 DEF Ready, Attempting
  <2>4. CASE BeginAttempt(w)
    BY <2>2, <2>3, <2>4, BeginMoves
  <2>5. CASE RecordTerminal(w)
    <3>1. CASE Mine(w)
      <4>1. verdict[w] \in Closed /\ verdict[w] \in Terminal
        BY <2>3, <2>5, Words DEF RecordTerminal
      <4> QED BY <2>2, <2>3, <2>5, <3>1, <4>1, ClosingMoves DEF RecordTerminal
    <3>2. CASE ~Mine(w)
      BY <2>2, <2>5, <3>2, SameJournal DEF RecordTerminal
    <3> QED BY <3>1, <3>2
  <2>6. CASE RecordFailure(w)
    <3>1. CASE Mine(w)
      BY <2>2, <2>3, <2>6, <3>1, Words, ClosingMoves DEF RecordFailure
    <3>2. CASE ~Mine(w)
      BY <2>2, <2>6, <3>2, SameJournal DEF RecordFailure
    <3> QED BY <3>1, <3>2
  <2> QED BY <1>3, <2>4, <2>5, <2>6
<1>4. \/ UNCHANGED <<attempts, outcome>>
      \/ \E w \in Workers : \/ Interrupt(w) \/ BeginAttempt(w)
                             \/ RecordTerminal(w) \/ RecordFailure(w)
  <2>1. CASE UNCHANGED vars \/ Supersede
    BY <2>1 DEF vars, journal, Supersede
  <2>2. ASSUME NEW w \in Workers, NEW s \in Commands, Launch(w, s)
        PROVE  UNCHANGED <<attempts, outcome>>
    BY <2>2 DEF Launch, journal
  <2>3. ASSUME NEW w \in Workers, Step(w) \/ Fault(w) \/ Crash(w)
        PROVE  \/ UNCHANGED <<attempts, outcome>>
               \/ Interrupt(w) \/ BeginAttempt(w) \/ RecordTerminal(w) \/ RecordFailure(w)
    BY <2>3 DEF Step, Fault, Crash, journal, OpenStore, ClaimSpec, LookAtRun, Admit,
      CreateSchema, WriteInitialState, VerifyBinding, Opened, Select, NextPair, Answer,
      Cleanup, BeginSeal, AuditRun, Freeze, FreezeLockedOut, ReadJournal, ExportOutcomes,
      ExportAttempts, HashDatabase, PublishSeal, VerifySeal
  <2> QED BY <2>1, <2>2, <2>3 DEF Next
<1> QED BY <1>1, <1>2, <1>3, <1>4

\* No step, of whichever process, replaces a terminal outcome or rewrites the
\* attempts of a pair that has one.
THEOREM OutcomesStay == Spec => OutcomesAreFinal
<1>1. StoreInv /\ [Next]_vars =>
        [\A p \in Pairs : outcome[p] # Absent =>
           outcome'[p] = outcome[p] /\ attempts'[p] = attempts[p]]_vars
  BY StepMovesJournal DEF JournalMoves
<1> QED BY <1>1, StoreInvariant, PTL DEF Spec, OutcomesAreFinal
=============================================================================
