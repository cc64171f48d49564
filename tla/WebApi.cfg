CONSTANTS
  r1 = r1
  r2 = r2
  Requests = {r1, r2}
  Async = {r2}
  Content = {r2}
  Digits <- MCDigits
  Pieces <- MCPieces
  Sockets = {1, 2}
  Pthreads = {p1, p2}
  None = None
SPECIFICATION Spec
INVARIANTS UsedAlive SentWhole NoLeak
PROPERTIES OwnDescriptor RequestSpec
CHECK_DEADLOCK FALSE
