\* Two comparisons over one bridge.
CONSTANTS
  Foci = {"bridge"}
  NComparisons = 1   FlxMaxFaults = 0
  NBridgeJobs = 2    BridgeMaxFaults = 1
  NProcesses = 1     OsMaxFaults = 0
  Materializers = {1}  NRoles = 1  MaxBuilds = 0  BundleMaxFaults = 0
  Preparers = {1}  NImages = 1  PrepMaxEvents = 0
  DatasetReleases = {"a"}  NSubjects = 1  NFingers = 1  CohortSize = 1
  MaxFlaws = 0       MaxAlterations = 0
  EvReleases = {"a"}  NEvFingers = 2  MaxOddities = 0
  NGenuine = 1       NImpostor = 1  MaxScore = 1  TargetUnit = 1
SPECIFICATION PartsSpec
INVARIANT MachineFailureStopsTheRun
CHECK_DEADLOCK FALSE
