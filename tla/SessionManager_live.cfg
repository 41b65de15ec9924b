SPECIFICATION FairSpec
CONSTANTS
  Sends = {s1, s2}
  Closers = {c1, c2}
  TurnIds = {t1}
  Sessions = {x1, x2}
  MaxActive = 1
  MaxQueued = 1
  MaxCrashes = 0
  None = None
CONSTRAINT OneByOne
PROPERTY ClosedIsFinal
PROPERTY CallsReturn
