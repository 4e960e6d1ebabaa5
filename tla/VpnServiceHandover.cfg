CONSTANTS
  Networks = {n1, n2}
  Failures <- MCNoFailure
  MaxInstances = 1
  MaxJobs = 2
SPECIFICATION FairSpec
PROPERTIES Reconnects
CHECK_DEADLOCK FALSE
