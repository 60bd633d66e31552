CONSTANTS
  x = x
  y = y
  z = z
  NB = 3
  Functions <- AllFunctions
  Radius = 1
SPECIFICATION Spec
INVARIANTS BranchMovesHarmless
CHECK_DEADLOCK FALSE
