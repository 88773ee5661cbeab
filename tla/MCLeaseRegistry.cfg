SPECIFICATION Spec
CONSTANTS
  Resources = {r1, r2}
  MaxFence = 4
  MaxTime = 2
SYMMETRY ResourceSymmetry
INVARIANTS
  IndInv
  ZombieNeverActs
PROPERTIES
  EndsAndFencesAreMonotone
