SPECIFICATION Spec
CONSTANTS
  Payloads = {p1, p2}
  MaxCells = 5
  MaxForeign = 1
  MaxRepairs = 1
  MaxRot = 2
SYMMETRY PayloadSymmetry
INVARIANTS
  HandleInv
  HandleKeepsAcked
