SPECIFICATION Spec
CONSTANTS
  NumRegs = 3
  WordSize = 4
  WordBytes = 2
  DramSize = 2
  IramSize = 5
  None = None
  Instructions <- MCInstructions
  RegisterInit <- MCRegisters
  DramInit <- MCDram
  BitAnd <- MCAnd
  BitOr <- MCOr
INVARIANTS TypeOK ScheduledProgramsAreExact
PROPERTIES ImplementsSequential
