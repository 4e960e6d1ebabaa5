CONSTANTS
  NsPerSec = 1000
  UsPerSec = 1000
  BurstDivisor = 100
  MinCapacity = 3
  MinWait = 2
  MaxWait = 8
  SmallPktThreshold = 0
  WordMax = 100000000
  Callers = {c1}
  Rates <- MCRates
  InitialRate = 1000
  UlSizes <- MCUlSizes
  Mtu = 3
  BufSize = 8
  DlMaxSleep = 5
  MaxIdle = 12
  MaxDebt = 20
SPECIFICATION Spec
INVARIANTS TypeOK DlDebtBounded UlDebtBounded
CHECK_DEADLOCK FALSE
