\* Two finalizers race, crash and are started again from later commits, over results that change.
CONSTANTS
  e1 = e1  e2 = e2  e3 = e3  none = none  timeouts = timeouts  rejections = rejections
  Finalizers = {w1, w2}
  Evidence <- TwoEvidences
  Counts <- CountsByCode
  Totals <- FailuresCounted
  Broken = Broken
  MaxHead = 1
  MaxChanges = 1
  Upgrade = {TRUE, FALSE}
  Truncated = Truncated
  Earlier = Earlier
  Absent = Absent
SPECIFICATION Spec
SYMMETRY Symmetry
INVARIANTS
  InvalidIsUnfinished
  MarkerCitesTheChain
  ExportIsTrue
PROPERTIES
  VerifierIsAttested
  HistoryIsKept
