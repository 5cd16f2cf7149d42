\* Reliable messages of both orderings on one channel.
CONSTANTS
  SeqPeriod = 8
  PacketPeriod = 16
  MaxFragments = 2
  MaxUnacked = 3
  LogCapacity = 4
  Plans <- MixedPlans
  HistoryBits = 6
  RunMax = 3
  MaxReassemblies = 1
  MaxBlocks = 3
  Reportable = 6
  MaxLag = 5
  MaxSeqLag = 4
  AckCapacity = 1
SPECIFICATION Spec
INVARIANTS
  AckedMeansDelivered
CHECK_DEADLOCK FALSE
