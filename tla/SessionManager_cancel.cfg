SPECIFICATION Spec
CONSTANTS
  Sends = {s1, s2}
  Closers = {c1}
  TurnIds = {t1, t2}
  Sessions = {x1}
  MaxActive = 2
  MaxQueued = 1
  MaxCrashes = 0
  None = None
INVARIANT RunningTurnCancellable
