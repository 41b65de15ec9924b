SPECIFICATION FairSpec
CHECK_DEADLOCK FALSE
CONSTANTS
  Roles = 2
  TerminalRoles = {2}
  MaxTurns = 4
  MaxRetries = 1
  MaxCrashes = 2
  MaxFaults = 1
INVARIANT TypeOK
INVARIANT RecoveryAccepts
INVARIANT CursorMatchesLoop
INVARIANT BudgetsKept
INVARIANT ReplayAcknowledged
INVARIANT AnnouncedOnce
PROPERTY OutcomeFinal
PROPERTY ImplementsRoleExecution
PROPERTY RunSettles
