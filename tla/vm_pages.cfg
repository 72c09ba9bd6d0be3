\* Two processes with two pages each; when both run one frame is left for
\* their pages.  The bytes do not matter here.
CONSTANTS
  Pids = {p1, p2}
  Null = Null
  NumPages = 2
  NumFrames = 4
  PageSize = 1
  Byte = {0}
  Replacement = "random"
  RestartCurrent = FALSE
  MaxToken = 3
SYMMETRY Symmetry
SPECIFICATION Spec
INVARIANTS
  TypeOK
  CheckValidity
  SwapOwned
  NeverPanics
PROPERTIES
  EvictsOneWhenFull
  AccessUsesOwnTable
