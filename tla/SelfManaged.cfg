\* One message queued at each end and one keepalive ping, on the blocking socket
\* that the punch hands over.
CONSTANTS
  Blocking = TRUE
  MaxSends = 1
  MaxPings = 1
SPECIFICATION SelfSpec
PROPERTIES
  QueuedLeaves
CHECK_DEADLOCK FALSE
