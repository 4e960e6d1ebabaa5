CONSTANTS
  Reads <- MCReads
  Writes <- MCWrites
  MaxPacket = 63
  SeqSpace = 256
SPECIFICATION Spec
INVARIANTS ParseSound WholePacketsTaken ChecksumsVerify SegmentsAdjoin SegmentsWhole
CHECK_DEADLOCK FALSE
