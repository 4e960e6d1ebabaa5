CONSTANTS
  Networks = {n1}
  Failures <- MCAllFail
  MaxInstances = 2
  MaxJobs = 2
SPECIFICATION EngineSpec
INVARIANTS DestroyedIsSilent ConnectedWorks StoppedClean
PROPERTIES StopCompletes
CHECK_DEADLOCK FALSE
