SPECIFICATION Spec
CONSTANTS
  Sends = {s1, s2, s3}
  Closers = {c1}
  TurnIds = {t1, t2}
  Sessions = {x1, x2}
  MaxActive = 1
  MaxQueued = 1
  MaxCrashes = 1
  None = None
SYMMETRY Symmetric
INVARIANT TypeOK
INVARIANT SerialSessions
INVARIANT SlotsExact
INVARIANT QueuesExact
INVARIANT MemoryMatchesStore
PROPERTY TurnOutcomesFinal
PROPERTY ImplementsSerialTurns
