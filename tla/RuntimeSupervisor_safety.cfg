SPECIFICATION Spec
CHECK_DEADLOCK FALSE
CONSTANTS
  Children = {1, 2, 3}
  MaxFaults = 2
  None = 0
INVARIANT TypeOK
INVARIANT DaemonHeld
INVARIANT OwnershipRecorded
INVARIANT StoppedStaysStopped
INVARIANT DrainReleased
CONSTRAINT NoneLost
