CONSTANTS
  t0 = t0
  t1 = t1
  s0 = s0
  a0 = a0
  a1 = a1
  TempRegs <- TwoTemps
  CalleeRegs <- OneCallee
  ArgRegs <- TwoArgs
  Functions <- Entries
SPECIFICATION Spec
INVARIANTS NoClash
CHECK_DEADLOCK FALSE
