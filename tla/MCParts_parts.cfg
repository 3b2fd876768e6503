\* Every part in turn, whole.
CONSTANTS
  Foci = {"flx", "bridge", "tree", "bundle", "images", "protocol", "evaluation", "threshold"}
  NComparisons = 3   FlxMaxFaults = 1
  NBridgeJobs = 3    BridgeMaxFaults = 2
  NProcesses = 3     OsMaxFaults = 1
  Materializers = {1, 2}  NRoles = 2  MaxBuilds = 1  BundleMaxFaults = 1
  Preparers = {1, 2}  NImages = 2  PrepMaxEvents = 2
  DatasetReleases = {"a", "b"}  NSubjects = 3  NFingers = 3  CohortSize = 2
  MaxFlaws = 1       MaxAlterations = 2
  EvReleases = {"a", "b"}  NEvFingers = 2  MaxOddities = 2
  NGenuine = 2       NImpostor = 3  MaxScore = 3  TargetUnit = 6
SPECIFICATION PartsSpec
INVARIANTS
  ScoreIsItsOwn
  AnswersAreForThePair
  FailuresAreExplained
  NobodyIsLeftBehind
  BundlesAreSound
  PreparationsAreSound
  RostersAreWhole
  RatesAreSound
  ThresholdsAreOptimal
PROPERTIES
  LossIsForGood
  AlarmHasACause
  CallersEnd
CHECK_DEADLOCK FALSE
