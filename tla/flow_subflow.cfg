SPECIFICATION Spec
CONSTANTS
  f = f
  g = g
  x = x
  y = y
  z = z
  Top = Top
  Executions <- AllExecutions
  SubFlows <- AllSubFlows
  Flows <- AllFlows
  MaxChanges = 1
  MaxFailures = 0
CHECK_DEADLOCK FALSE
INVARIANT MoveLosesNothing
