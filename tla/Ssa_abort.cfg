CONSTANTS
  NB = 3
  Tmps <- TwoTmps
  Bodies <- LoopBodies
SPECIFICATION DefinedSpec
INVARIANTS NeverAborts
CHECK_DEADLOCK FALSE
