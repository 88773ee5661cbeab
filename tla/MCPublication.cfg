SPECIFICATION Spec
CONSTANTS
  leaf = leaf
  inner = inner
  outer = outer
  None = None
  Torn = Torn
  Slots = {s1, s2}
  Objects = {leaf, inner, outer}
  Children <- TwoLevels
  MaxRoots = 2
  MaxTombs = 1
  Doomed = {leaf, inner}
  MaxFaults = 2
  MaxKills = 1
SYMMETRY SlotSymmetry
CHECK_DEADLOCK FALSE
INVARIANTS
  AnswersSurvive
  PublicationInv
  MarkedStaysBroken
  RecordedBlocks
