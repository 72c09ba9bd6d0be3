\* Four blocks compete for the three ways of one set, a fifth is in the other
\* set; no address has the first-level tag 0.
CONSTANTS
  Addresses <- FiveBlocks
  Inputs = {"r", "w", "i"}
  L1Block = 1
  L1Sets = 1
  L2Block <- SmallBlock
  L2Sets <- SmallSets
  Ways = 3
SPECIFICATION Spec
INVARIANTS
  LruPermutation
  EmptyWaysOldest
  NoDuplicateBlock
  IInv
PROPERTIES
  ImplementsRecency
