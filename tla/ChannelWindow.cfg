\* A clear that always works, one exchange.
SPECIFICATION Spec
CONSTANTS
  ECUs = {e1, e2}
  Requests <- TwoRequests
  Deadline = 3
  Coalesce = 2
  P2Max = 1
  ClearResults = {TRUE}
  MaxExchanges = 1
  MaxBuffer = 2
INVARIANTS
  HeardWithinWindow
