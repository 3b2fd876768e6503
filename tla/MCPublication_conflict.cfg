\* One mount without hard links and two publishers of the same bytes.
CONSTANTS
  Published = {"file"}
  w1 = w1  w2 = w2
  Publishers <- Two
  Mounts = {{}}
  Bytes = {a}
  ClaimAttempts = 1
  NoFile = NoFile
  Nobody = Nobody
  s1 = s1  s2 = s2  x = x  y = y  z = z
  e = e  c = c  Broken = Broken  Truncated = Truncated  Earlier = Earlier
  Writers <- Two
  Sets <- TwoSets
  NBodies = 2
  Values <- ThreeValues
  Content <- TwoBodies
  Absent = Absent
SPECIFICATION PublicationSpec
INVARIANT ConflictMeansDifferentBytes
CHECK_DEADLOCK FALSE
