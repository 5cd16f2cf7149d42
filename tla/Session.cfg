\* Three packets on two streams whose counters end at 2; a client that connects
\* up to three times and calls Bind or Disconnect up to four.
CONSTANTS
  Streams = {0, 1}
  Kinds = {"ordered", "unreliable"}
  Encryption = {TRUE, FALSE}
  Compression = "Lz4"
  EarlySend = FALSE
  MayFail = TRUE
  MaxCounter = 2
  MaxSends = 3
  KWidth = 1
  MaxConnects = 3
  MaxCalls = 4
  HasTimeout = TRUE
SPECIFICATION MCSpec
INVARIANTS
  NoncesUnique
  StreamsAgree
PROPERTIES
  BothConnect
  ConnectionsAccounted
CHECK_DEADLOCK FALSE
