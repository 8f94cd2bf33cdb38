SPECIFICATION FairSpec
CONSTANTS
  OnLoads <- AllOnLoads
  Flows <- AllFlows
  Callbacks <- AllCallbacks
CHECK_DEADLOCK FALSE
INVARIANTS TypeOK SuccessHeard PollStarted FalseIsTrue
PROPERTY InitEnds
