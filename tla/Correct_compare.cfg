CONSTANTS
  NTmps = 3
  Junk = Junk
  Functions <- Comparisons
SPECIFICATION Spec
INVARIANTS ComparisonKept
CHECK_DEADLOCK FALSE
