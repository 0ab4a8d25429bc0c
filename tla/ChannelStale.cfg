\* A clear that always works, and an ECU that answers late.
SPECIFICATION Spec
CONSTANTS
  ECUs = {e1}
  Requests <- TwoRequests
  Deadline = 3
  Coalesce = 2
  P2Max = 1
  ClearResults = {TRUE}
  MaxExchanges = 2
  MaxBuffer = 2
INVARIANTS
  AskNeverStale
