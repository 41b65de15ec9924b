SPECIFICATION Spec
CHECK_DEADLOCK FALSE
CONSTANTS
  Requests = {r1, r2}
  Answers = {a1, a2}
  None = None
  MaxDisconnects = 1
SYMMETRY Symmetric
INVARIANT TypeOK
INVARIANT LedgerExact
INVARIANT AnswersOwed
INVARIANT JournalMatchesBroker
INVARIANT NoWorkBehindFence
PROPERTY FenceSeesAll
