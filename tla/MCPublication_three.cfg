\* A file: mounts with hard links for everybody and with none, two rounds.  A set: two
\* publishers of two overlapping sets that retry, over any earlier bodies.  A research
\* run: two finalizers, over a run that is new or that an earlier release finalized.
CONSTANTS
  Published = {"file", "set", "research"}
  w1 = w1  w2 = w2
  Publishers <- Two
  Mounts <- UniformMounts
  Bytes = {a, b}
  ClaimAttempts = 2
  NoFile = NoFile
  Nobody = Nobody
  s1 = s1  s2 = s2  x = x  y = y  z = z
  e = e  c = c  Broken = Broken  Truncated = Truncated  Earlier = Earlier
  Writers <- Two
  Sets <- TwoSets
  NBodies = 2
  Values <- ThreeValues
  Content <- TwoBodies
  Absent = Absent
SPECIFICATION PublicationSpec
INVARIANTS
  AnswersAreTrue
  SetsAreSound
PROPERTIES
  ImplementsFileRegister
  FileCallsEnd
  FinalizationEnds
  NoBodyBeforeTheClaim
  ImplementsRegister
  ClaimedSetIsFinished
CHECK_DEADLOCK FALSE
