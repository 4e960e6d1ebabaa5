CONSTANTS
  Flows = {f1}
  Fds = {d1}
  Faults = {}
  Isns = {0}
  MaxUp = 0
  MaxDown = 0
  MaxResend = 1
  MaxRead = 1
  PendingMax = 1
  BatchMax = 2
SPECIFICATION Spec
INVARIANT SynAckMeansConnected
CHECK_DEADLOCK FALSE
