\* Two agents with five plans of offers; two with a session, of whom one moves twice.
CONSTANTS
  Ends <- MCEnds
  Plans <- MCPlans
  Hub = "h"
  Peers = {"b"}
  Places = {1, 2, 3}
  StartsAt <- Starts
  Movers = {{"h"}, {"b"}}
  MaxMoves = 2
SPECIFICATION MCAgentsSpec
INVARIANTS
  AnsweredTruly
PROPERTIES
  AnsweredEventually
  SessionsFollow
CHECK_DEADLOCK FALSE
