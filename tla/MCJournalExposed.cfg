SPECIFICATION Spec
CONSTANTS
  Payloads = {p1}
  MaxCells = 0
  MaxForeign = 1
  MaxRepairs = 1
  MaxRot = 0
SYMMETRY PayloadSymmetry
INVARIANTS
  OpenedIsDurable
