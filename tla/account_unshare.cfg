SPECIFICATION Spec
CONSTANTS
  r1 = r1
  r2 = r2
  u1 = u1
  u2 = u2
  a = a
  b = b
  Resources <- AllResources
  Users <- AllUsers
  Scopes <- AllScopes
  Wanted <- WantedScopes
  Choices <- SomeChoices
  InitShares <- FirstShares
  InitPending <- FirstPending
  MaxJobs = 1
  MaxClicks = 4
  MaxRequests = 1
  MaxFailures = 0
CHECK_DEADLOCK FALSE
PROPERTY UnshareRemovesAll
