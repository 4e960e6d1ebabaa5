CONSTANTS
  NsPerSec = 10
  UsPerSec = 10
  BurstDivisor = 2
  MinCapacity = 3
  MinWait = 2
  MaxWait = 6
  SmallPktThreshold = 2
  WordMax = 127
  Rates <- MCRates
  InitialRate = 25
  PacketSizes <- MCPacketSizes
  MaxTime = 14
  MaxDebt = 12
SPECIFICATION Spec
INVARIANTS TypeOK WithinBounds
PROPERTIES RefillExact SteadyRefill WaitRepaysDebt
CHECK_DEADLOCK FALSE
