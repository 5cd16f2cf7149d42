\* A server session: two application threads, the worker the only drainer.
CONSTANTS
  Producers = {p1, p2}
  Workers = {w}
  Encoders = {}
  Slots = 2
  MaxPushes = 2
  MayClose = TRUE
SPECIFICATION FairSpec
INVARIANTS
  CellExclusive
PROPERTIES
  EventuallyDrained
CHECK_DEADLOCK FALSE
