\* Round robin with a slice of one tick under fair threads: two CPUs, three
\* processes, one of which does I/O.
CONSTANTS
  CpuCount <- Cpus2
  ProcCount = 3
  Program <- ThreePrograms
  Lrtf <- RoundRobinLrtf
  TimeSlice <- RoundRobinSlice
  ScanCount = 0
  CreatePeriod = 2
SPECIFICATION FairSpec
INVARIANTS
  TypeOK
  Placement
  StateMatchesPlace
  NoEarlyExit
  AnsweredWait
  OneEvent
  SchedulerInv
PROPERTIES
  CompletesUnlessLost
  TicksGoOn
  ImplementsScheduler
  LossesFromIdle
  RacesFromIdle
