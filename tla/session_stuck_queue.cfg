SPECIFICATION FairSpec
CONSTANTS
  c1 = c1
  c2 = c2
  c3 = c3
  Poll = Poll
  Calls <- TwoCalls
  Forced <- ForcedCalls
  IframeEnabled = FALSE
  LoginRequired = FALSE
  Faults = {"badBody"}
CHECK_DEADLOCK FALSE
PROPERTY CallsSettle
