\* Every mode of delivery over a wire of four message numbers.
CONSTANTS
  SeqPeriod = 4
  PacketPeriod = 16
  MaxFragments = 2
  MaxUnacked = 3
  LogCapacity = 4
  Plans <- SafetyPlans
  HistoryBits = 6
  RunMax = 3
  MaxReassemblies = 1
  MaxBlocks = 3
  Reportable = 6
  MaxLag = 5
  MaxSeqLag = 2
  AckCapacity = 1
SPECIFICATION Spec
INVARIANTS
  AckedMeansDelivered
  ReadExactlyOnce
PROPERTIES
  DeliveryModes
CHECK_DEADLOCK FALSE
