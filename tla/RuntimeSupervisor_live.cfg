SPECIFICATION FairSpec
CHECK_DEADLOCK FALSE
CONSTANTS
  Children = {1, 2, 3}
  MaxFaults = 1
  None = 0
PROPERTY DegradedResolves
PROPERTY CallsAnswered
