\* Addresses with first-level tag 0.
CONSTANTS
  Addresses <- LowBlocks
  Inputs = {"r", "w", "i"}
  L1Block = 1
  L1Sets = 2
  L2Block = 1
  L2Sets = 1
  Ways = 2
SPECIFICATION Spec
PROPERTY HitsAreFilled
