SPECIFICATION FairSpec
CHECK_DEADLOCK FALSE
CONSTANTS
  a = a
  b = b
  c = c
  d = d
  p1 = p1
  p2 = p2
  p3 = p3
  Nodes = {a, b, c, d}
  Participants = {p1, p2, p3}
  Order <- GraphOrder
  Deps <- GraphDeps
  Owner <- GraphOwner
  Terminal <- GraphTerminal
  RetryLimit <- GraphRetries
  Policies <- BothPolicies
  MaxParallel = 2
  MaxTurns = 4
  MaxCrashes = 2
  MaxCancels = 2
INVARIANT TypeOK
INVARIANT RecoveryAccepts
INVARIANT EndedRunSettled
PROPERTY OutcomesFinal
PROPERTY ImplementsDagExecution
PROPERTY RunSettles
