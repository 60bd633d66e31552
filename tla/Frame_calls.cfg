CONSTANTS
  inner = inner
  leaf = leaf
  Fns <- TwoFns
  CalleeSave <- TwoCalleeSave
  CallSave <- TwoCallSave
  HasCalls <- TwoHasCalls
  NS = 2
  Data = {d0, d1}
  Pointer = Pointer
  Junk = Junk
  Outside = Outside
  StackSize = 25
  MaxLocals = 1
SPECIFICATION Spec
SYMMETRY DataSymmetry
INVARIANTS TypeOK FrameChain
PROPERTIES GivenBack KeepsConvention
CHECK_DEADLOCK FALSE
