SPECIFICATION Spec
CONSTANTS
  r1 = r1
  r2 = r2
  u1 = u1
  u2 = u2
  a = a
  b = b
  Resources <- AllResources
  Users <- AllUsers
  Scopes <- AllScopes
  Wanted <- WantedScopes
  Choices <- SomeChoices
  InitShares <- FirstShares
  InitPending <- FirstPending
  MaxJobs = 3
  MaxClicks = 3
  MaxRequests = 1
  MaxFailures = 1
CHECK_DEADLOCK FALSE
INVARIANTS TypeOK SharesShown AnsweredGone
PROPERTY AcceptAdds
