SPECIFICATION Spec
CONSTANTS
  t1 = t1
  t2 = t2
  Tabs <- TwoTabs
  States <- FourStates
  Lifetime = 1
  MaxTime = 4
CHECK_DEADLOCK FALSE
INVARIANTS OneTimeUse PendingKept
PROPERTY Cleaned
