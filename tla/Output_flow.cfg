CONSTANTS
  x = x
  y = y
  z = z
  NB = 3
  Functions <- FlowFunctions
  Radius = 1
SPECIFICATION Spec
PROPERTIES KeepsMeaning
CHECK_DEADLOCK FALSE
