SPECIFICATION FairCancelSpec
CONSTANTS
  Workers = {w1, w2, w3}
  Reasons = {jam, outage}
  Timeouts <- MCTimeouts
  MaxClock = 3
INVARIANTS
  CancelInv
PROPERTIES
  FinalIsForever
  RequestedEnds
