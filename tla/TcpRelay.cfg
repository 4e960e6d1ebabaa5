CONSTANTS
  Flows = {f1}
  Fds = {d1, d2}
  Faults <- MCBenign
  Isns = {0}
  MaxUp = 3
  MaxDown = 3
  MaxResend = 0
  MaxRead = 2
  PendingMax = 1
  BatchMax = 2
SPECIFICATION FairSpec
PROPERTIES RelayIsTransparent HalfOpenEnds EofReachesClient FinIsAnswered
CHECK_DEADLOCK FALSE
