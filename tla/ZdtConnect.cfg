CONSTANTS
  Clients = {"c1", "c2"}
  Addresses = {"a1", "a2", "a3"}
  Home <- MCHome
  Ladder <- MCLadder
  PathMtu = 2
  RetriesPerRung = 1
  MaxRetries = 1
  Plans <- MCPlans
SPECIFICATION FairSpec
INVARIANTS
  SessionsConsistent
PROPERTIES
  RouteFollows
CHECK_DEADLOCK FALSE
