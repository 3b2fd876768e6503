\* Processes open, resume, share, supersede and seal one run.
CONSTANTS
  unlimited = unlimited
  Workers = {w1, w2}
  NPairs = 2
  Limits <- OneOrUnlimited
  NoLimit = unlimited
  Superseding = TRUE
  MaxTroubles = 2
  Absent = Absent
SPECIFICATION FairSpec
INVARIANTS
  JournalIsSound
  ExportIsTheJournal
  SealHoldsAlone
PROPERTIES
  OutcomesAreFinal
  EventuallySealed
