\* Executors with different preparers and closures; bindings are removed between
\* invocations and results damaged or lost at any moment.
CONSTANTS
  p1 = p1  p2 = p2  c1 = c1  c2 = c2
  Workers = {w1, w2}
  NJobs = 2
  Preparers <- TwoPreparers
  Closures <- TwoClosures
  ResearchRun = TRUE
  Scores = {1}
  Budgets = {1, 2}
  Finalizing = {FALSE}
  Tampering = {"unbind", "damage", "delete"}
  Unsound = Unsound
  Absent = Absent
SPECIFICATION Spec
SYMMETRY Symmetry
INVARIANTS
  OnePreparation
  OneClosure
  DamageStopsWork
