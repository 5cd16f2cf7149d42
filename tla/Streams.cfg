\* Buffers and messages: a buffer that must grow, a heap that runs out, and a
\* connection closed at the second invalid frame.
CONSTANTS
  MinGrowth = 4
  Heap = 80
  MaxElements = 0
  BufferScripts <- MCBufferScripts
  SendHeadroom = 4
  Policies <- MCPolicies
  Scripts <- MCScripts
  MaxInvalidFrames = 2
\* Bit fields, and snapshots over six sequence numbers and histories of three.
  FieldScripts <- MCFieldScripts
  Period = 6
  Capacity = 3
  Snapshots <- MCSnapshots
  Lag = 1
  MaxQuiet = 1
  MaxTicks = 8
  MaxRejoins = 1
\* TCP: frames longer than what one write or one read takes.
  RecvCapacity = 5
  Header = 0
  Room = 3
  Loads <- MCLoads
  MaxPath = 108
  AcceptPlans <- MCAcceptPlans
  MaxTrackedSources = 2
  Descriptors <- MCDescriptors
  MaxClock = 4
  NumPaths = 2
  PunchPlans <- MCPunchPlans
  MaxLinks = 3
\* The ZDT sender against a peer that may acknowledge or report any number;
\* three packet numbers, so they are reused while still tracked.
  SeqPeriod = 8
  PacketPeriod = 4
  MaxFragments = 2
  MaxUnacked = 3
  LogCapacity = 5
  Plans <- SenderPlans
INIT StreamsInit
NEXT StreamsNext
INVARIANTS
  ReadsWhatWasWritten
  Transparent
  FieldsReadBack
  PacksToNearest
  DecodesWhatWasSent
  StreamIntact
  AcceptsJustly
  SameConnection
  LocatorOutcome
  TrackingExact
CHECK_DEADLOCK FALSE
