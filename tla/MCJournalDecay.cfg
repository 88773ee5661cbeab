SPECIFICATION Spec
CONSTANTS
  Payloads = {p1}
  MaxCells = 0
  MaxForeign = 1
  MaxRepairs = 1
  MaxRot = 1
SYMMETRY PayloadSymmetry
INVARIANTS
  CorruptionNeverSkipped
