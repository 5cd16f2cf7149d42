\* A client session: the loop and the SessionEncoder both drain, and the session is
\* closed and its encoder stopped at any point.
CONSTANTS
  Producers = {p1}
  Workers = {w}
  Encoders = {e}
  Slots = 4
  MaxPushes = 2
  MayClose = TRUE
SPECIFICATION FairSpec
INVARIANTS
  OneEncoder
PROPERTIES
  ImplementsFifo
  StopReturns
CHECK_DEADLOCK FALSE
