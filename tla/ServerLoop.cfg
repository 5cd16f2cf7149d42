CONSTANTS
  Sessions = {s1, s2}
  NumWorkers = 2
  Stoppers = {"a", "b"}
  Plans <- CheckedPlans
SPECIFICATION FairSpec
INVARIANTS
  EventsPaired
  ServerHolds
PROPERTIES
  DisconnectReported
  StopCompletes
CHECK_DEADLOCK FALSE
