\* A process that looked before the seal writes after it.
CONSTANTS
  unlimited = unlimited
  Workers = {w1, w2}
  NPairs = 1
  Limits <- OnlyUnlimited
  NoLimit = unlimited
  Superseding = FALSE
  MaxTroubles = 1
  Absent = Absent
SPECIFICATION Spec
INVARIANTS
  SealIsStable
