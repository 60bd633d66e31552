CONSTANTS
  t0 = t0
  t1 = t1
  s0 = s0
  a0 = a0
  a1 = a1
  TempRegs <- TwoTemps
  CalleeRegs <- OneCallee
  ArgRegs <- TwoArgs
  Functions <- Forms
SPECIFICATION Spec
INVARIANTS TypeOK SameMeaning CallFound RegistersApart SpillNeeded FrameCovers
CHECK_DEADLOCK FALSE
