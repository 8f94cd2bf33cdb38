SPECIFICATION Spec
CONSTANTS
  f = f
  g = g
  x = x
  y = y
  z = z
  Top = Top
  Executions <- AllExecutions
  SubFlows <- AllSubFlows
  Flows <- AllFlows
  MaxChanges = 2
  MaxFailures = 1
CHECK_DEADLOCK FALSE
INVARIANTS TypeOK TreeOfRows DiagramIsConnected ViewIsServer
PROPERTY DropLands
