CONSTANTS
  NB = 4
  Tmps <- TwoTmps
  Bodies <- TwoTmpBodies
SPECIFICATION Spec
INVARIANTS TypeOK FinishedIsLive DataflowSolved AbortOnlyOnLoops LayoutSound EdgesMatchParams ParametersAreUsed SingleAssignment ArgumentsAreLocal
PROPERTIES AcyclicDependenciesDone Terminates
CHECK_DEADLOCK FALSE
