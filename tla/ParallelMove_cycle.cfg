CONSTANTS
  N = 2
  Regs = {r1, r2}
  Tmp0 = Tmp0
SPECIFICATION Spec
INVARIANTS MovesCorrect
CHECK_DEADLOCK FALSE
