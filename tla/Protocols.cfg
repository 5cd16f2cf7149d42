\* Two peers and the broker.
CONSTANTS
  Clients <- MCClients
  Budgets <- MCBudgets
\* Gathering: two local candidates and eight in all, ports up to 65.
  MaxPath = 108
  MaxTrackedSources = 2
  GatherPlans <- MCGatherPlans
  MaxLocal = 2
  MaxCandidates = 8
  PredictedPortCount = 3
  MaxPortStride = 8
  MaxPort = 65
  ReflectInterval = 1
  ReflectSize = 8
\* The relay: room for one pairing, two tokens, two runs of the server.
  Endpoints = {"a", "b", "c"}
  MaxAllocations = 1
  MaxRelayChannel = 2
  BindTimeout = 1
  IdleTimeout = 2
  MaxTokens = 2
  MaxRelayStarts = 2
  MaxRelayClock = 3
\* Fourteen datagrams over a wire of twelve numbers: they wrap, runs hit their
\* byte's limit and datagrams fall off the end of the history.  Nine counters over
\* a window of three.
  SeqPeriod = 2
  PacketPeriod = 12
  HistoryBits = 5
  RunMax = 2
  MaxPacket = 14
  MaxLag = 4
  KWidth = 3
  MaxCounter = 9
\* Congestion: at most a tenth of the code's times and windows.
  Paths <- MCPaths
  RttMinWindow = 16
  QueueingWindowFloor = 4
  InitialWindow = 6
  MaxInFlight = 8
  RtoMin = 10
  RtoMax = 20
\* Datagrams of up to three records.
  MinGrowth = 4
  Heap = 100
  MaxElements = 0
  Datagrams <- MCDatagrams
  CidSize = 3
  CookieLen = 2
  Magic <- MCMagic
  MaxAckBlocks = 2
\* The chat example: two users, who may be given the same name in turn.
  Users = {1, 2}
  Leavers = {1}
  Names = {"x"}
  Rooms <- MCRooms
  Scrollback = 1
  MaxDoings = 2
INIT ProtocolsInit
NEXT ProtocolsNext
INVARIANTS
  AsksAnsweredFresh
  GatheredTruth
  PairingsSound
  ReportFaithful
  ReplayExact
  CutsJustified
  ReadAsWritten
  ScreensTrue
CHECK_DEADLOCK FALSE
