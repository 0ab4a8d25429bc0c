\* Two ECUs, two exchanges, a clear that works, fails or flickers.
SPECIFICATION Spec
CONSTANTS
  ECUs = {e1, e2}
  Requests <- HarvestRequests
  Deadline = 3
  Coalesce = 2
  P2Max = 1
  ClearResults = {TRUE, FALSE}
  MaxExchanges = 2
  MaxBuffer = 2
INVARIANTS
  TypeOK
  Backstop
  FreshIfClearable
  PromptHeard
  TimeoutMeansSilence
SYMMETRY Symmetry
