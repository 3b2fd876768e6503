\* Two executors race over one plan, crash, drift and resume.
CONSTANTS
  p1 = p1  p2 = p2  c1 = c1  c2 = c2
  Workers = {w1, w2}
  NJobs = 2
  Preparers <- OnePreparer
  Closures <- NoClosure
  ResearchRun = FALSE
  Scores = {1}
  Budgets = {1, 2}
  Finalizing = {TRUE, FALSE}
  Tampering = {}
  Unsound = Unsound
  Absent = Absent
SPECIFICATION FairSpec
INVARIANTS
  CountedResultsAreStored
  ReportsAreTrue
PROPERTIES
  ProgressOnlyAdvances
  RunIsEventuallyVerified
