\* One finalizer, and results that come to fail for another reason.
CONSTANTS
  e1 = e1  e2 = e2  e3 = e3  none = none  timeouts = timeouts  rejections = rejections
  Finalizers = {w1}
  Evidence = {e2, e3}
  Counts <- CountsByCode
  Totals <- FailuresCounted
  Broken = Broken
  MaxHead = 0
  MaxChanges = 1
  Upgrade = {FALSE}
  Truncated = Truncated
  Earlier = Earlier
  Absent = Absent
SPECIFICATION Spec
INVARIANT
  CopiedCountsAreTheSets
