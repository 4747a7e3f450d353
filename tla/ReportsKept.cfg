SPECIFICATION Spec
CONSTANTS
  Agent = {a1, a2, a3}
  GoalClass = {audio, unclassified}
  NoClass = NoClass
  Unclassified = unclassified
  Nobody = Nobody
  MaxSeconds = 1
SYMMETRY Symmetry
INVARIANTS
  ReportsStay
  PairsMatch
CHECK_DEADLOCK FALSE
