SPECIFICATION FairSpec
CONSTANTS
  c1 = c1
  c2 = c2
  c3 = c3
  Poll = Poll
  Calls <- TwoCalls
  Forced <- ForcedCalls
  IframeEnabled = TRUE
  LoginRequired = FALSE
  Faults = {}
CHECK_DEADLOCK FALSE
PROPERTIES CallsSettle LogoutNoticed RefresherLive
