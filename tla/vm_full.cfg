\* Three processes whose page tables fill the memory.  A panic ends the
\* program.
CONSTANTS
  Pids = {p1, p2, p3}
  Null = Null
  NumPages = 1
  NumFrames = 4
  PageSize = 2
  Byte = {0, 1}
  Replacement = "random"
  RestartCurrent = FALSE
  MaxToken = 2
SYMMETRY Symmetry
SPECIFICATION Spec
INVARIANTS
  PanicsOnlyWhenAllProtected
  CleanPagesAreSaved
  IInv
PROPERTIES
  ImplementsFlatMemory
CHECK_DEADLOCK FALSE
