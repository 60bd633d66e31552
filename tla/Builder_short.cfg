CONSTANTS
  l = l
  m = m
  Labels = {l, m}
  NoLabel = NoLabel
  Programs <- ShortPrograms
SPECIFICATION Spec
INVARIANTS TypeOK KeepsControlFlow GraphIsShaped CallsEndBlocks ArgumentsFetchedOnce RejectsOnlyMalformed
CHECK_DEADLOCK FALSE
