\* Two finalizers upgrade the same receipt.
CONSTANTS
  e1 = e1  e2 = e2  e3 = e3  none = none  timeouts = timeouts  rejections = rejections
  Finalizers = {w1, w2}
  Evidence = {e1}
  Counts <- CountsByCode
  Totals <- FailuresCounted
  Broken = Broken
  MaxHead = 0
  MaxChanges = 0
  Upgrade = {TRUE}
  Truncated = Truncated
  Earlier = Earlier
  Absent = Absent
SPECIFICATION Spec
SYMMETRY Symmetry
PROPERTIES
  MarkedReceiptIsFrozen
