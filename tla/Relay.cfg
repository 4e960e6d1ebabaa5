CONSTANTS
  Flows = {f1}
  Fds = {d1, d2}
  Faults <- MCReuse
  Isns = {0}
  MaxUp = 0
  MaxDown = 0
  MaxResend = 0
  MaxRead = 2
  PendingMax = 1
  BatchMax = 3
  UdpFlows = {u1}
  UdpFaults <- MCAllUdp
  MaxAsk = 2
  MaxReply = 2
SPECIFICATION RelaySpec
INVARIANTS RelaySound DatagramsIntact
PROPERTIES ReplyReachesDevice
CHECK_DEADLOCK FALSE
