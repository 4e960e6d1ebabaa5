CONSTANTS
  Flows = {f1}
  Fds = {d1, d2}
  Faults <- MCAll
  Isns = {0, 1}
  MaxUp = 2
  MaxDown = 2
  MaxResend = 1
  MaxRead = 2
  PendingMax = 1
  BatchMax = 3
SPECIFICATION Spec
SYMMETRY MCSymmetry
INVARIANTS SessionsSound DownstreamIntact 
CHECK_DEADLOCK FALSE
