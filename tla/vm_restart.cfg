\* The process that accessed last may be stopped and started again.
CONSTANTS
  Pids = {p1, p2}
  Null = Null
  NumPages = 1
  NumFrames = 4
  PageSize = 1
  Byte = {0, 1}
  Replacement = "random"
  RestartCurrent = TRUE
  MaxToken = 2
SYMMETRY Symmetry
SPECIFICATION Spec
PROPERTY AccessUsesOwnTable
