SPECIFICATION Spec
CONSTANTS
  Ops = {o1, o2}
  Proofs = {p1}
  Notes = {n1}
  None = None
  MaxRecords = 8
  MaxRetained = 2
  MaxFence = 2
SYMMETRY Symmetry
INVARIANTS
  EffectInv
  HistoryReplays
  DispatchIsRemembered
  AtMostOneDispatch
  RoomToSettle
  FencesInOrder
PROPERTIES
  TerminalStays
