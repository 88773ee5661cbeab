SPECIFICATION ExecSpec
CONSTANTS
  Regions = {root, r1, r2}
  Process = root
  KindsUsed <- MCKinds
  Tasks = {t1}
  Obligations = {o1}
  Proofs = {}
  Notes = {n1}
  None = None
  MaxRegions = 3
  MaxChildren = 2
  MaxTasks = 1
  MaxObligations = 1
  MaxMany = 1
  MaxWork = 1
  Earlier = {}
  Dims <- MCDims
  Allowances <- MCAllowances
  RootAllowance <- MCRoot
  Costs <- MCCosts
  Deadlines = {1}
  MaxTime = 1
  ScopeTimes = {0}
SYMMETRY MCSymmetry
INVARIANTS
  BudgetInv
  HonestReceipts
  NoTaskLost
