SPECIFICATION Spec
CONSTANTS
  Polity = {a, b}
  Text = {1, 2}
  MaxSteps = 3
SYMMETRY Symmetry
INVARIANTS ErasureFollowsContent OnlyAliasesCross
CHECK_DEADLOCK FALSE
