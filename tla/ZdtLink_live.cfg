\* Every reliable message is delivered or the connection closed.
CONSTANTS
  SeqPeriod = 4
  PacketPeriod = 16
  MaxFragments = 2
  MaxUnacked = 3
  LogCapacity = 4
  Plans <- LivePlans
  HistoryBits = 6
  RunMax = 3
  MaxReassemblies = 1
  MaxBlocks = 3
  Reportable = 6
  MaxLag = 5
  MaxSeqLag = 2
  AckCapacity = 1
SPECIFICATION FairSpec
PROPERTIES
  DeliveredOrClosed
CHECK_DEADLOCK FALSE
