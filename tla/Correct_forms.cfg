CONSTANTS
  NTmps = 3
  Junk = Junk
  Functions <- Forms
SPECIFICATION Spec
INVARIANTS TypeOK SameResults Selectable ReadFromMemory WrittenToMemory
PROPERTIES Terminates
CHECK_DEADLOCK FALSE
