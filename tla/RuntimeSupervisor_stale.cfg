SPECIFICATION Spec
CHECK_DEADLOCK FALSE
CONSTANTS
  Children = {1, 2}
  MaxFaults = 1
  None = 0
INVARIANT StopLeavesNoDaemon
