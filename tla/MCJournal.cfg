SPECIFICATION Spec
CONSTANTS
  Payloads = {p1, p2, p3}
  MaxCells = 9
  MaxForeign = 1
  MaxRepairs = 2
  MaxRot = 0
SYMMETRY PayloadSymmetry
INVARIANTS
  AckedNeverLost
  RetractedNeverCommitted
PROPERTIES
  ImplementsCommitLog
