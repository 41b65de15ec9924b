SPECIFICATION Spec
CHECK_DEADLOCK FALSE
CONSTANTS
  Roles = 2
  TerminalRoles = {2}
  MaxTurns = 4
  MaxRetries = 1
  MaxCrashes = 2
  MaxFaults = 0
INVARIANT PausedIsResumable
