SPECIFICATION Spec
CONSTANTS
  c1 = c1
  c2 = c2
  c3 = c3
  Poll = Poll
  Calls <- AllCalls
  Forced <- ForcedCalls
  IframeEnabled = TRUE
  LoginRequired = TRUE
  Faults = {"badBody", "listenerThrows"}
CHECK_DEADLOCK FALSE
INVARIANTS SingleFlight OnePlace TimerOfCurrentToken SessionWatched
PROPERTIES AnswersAreTrue NoResurrection
