SPECIFICATION Spec
CONSTANTS
  BatchIds = {b1, b2}
  Objects = {o1, o2}
  Contents = {c1, c2}
  Inverted = {c2}
  Sealed = {o2}
  MaxPrepared = 3
SYMMETRY IdContentSymmetry
INVARIANTS
  HistoryReplays
  LedgerInv
  OneRecordPerIdentity
  GenerationsCountWrites
