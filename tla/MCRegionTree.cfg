SPECIFICATION FairSpec
CONSTANTS
  Regions = {root, r1, r2, r3}
  Process = root
  r1 = r1
  r2 = r2
  r3 = r3
  Earlier <- MCEarlier
  KindsUsed <- MCKinds
  Tasks = {t1}
  Obligations = {o1}
  Proofs = {p1}
  Notes = {n1}
  None = None
  MaxRegions = 4
  MaxChildren = 2
  MaxTasks = 1
  MaxObligations = 1
  MaxMany = 2
  MaxWork = 2
INVARIANTS
  TreeInv
  ProofsAreExact
PROPERTIES
  DrainEnds
