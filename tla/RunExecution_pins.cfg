\* A stored result is removed after completion and executed again.
CONSTANTS
  p1 = p1  p2 = p2  c1 = c1  c2 = c2
  Workers = {w1}
  NJobs = 2
  Preparers <- OnePreparer
  Closures <- NoClosure
  ResearchRun = FALSE
  Scores = {1, 2}
  Budgets = {2}
  Finalizing = {TRUE, FALSE}
  Tampering = {"delete"}
  Unsound = Unsound
  Absent = Absent
SPECIFICATION Spec
SYMMETRY Symmetry
INVARIANTS
  CompletionPinsResults
