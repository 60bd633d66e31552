CONSTANTS
  N = 4
  Regs = {r1, r2, r3, r4, r5}
  Tmp0 = Tmp0
SPECIFICATION Spec
INVARIANTS TypeOK AcyclicMovesCorrect UnbrokenCorrect
PROPERTIES ScratchHoldsLostValue NothingClobbered Terminates
CHECK_DEADLOCK FALSE
