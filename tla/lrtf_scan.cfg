\* Longest remaining time first with wake_up scanning every CPU, so that it
\* can call force_preempt, and waits of the supervisor that may return
\* without a signal.
CONSTANTS
  CpuCount <- Cpus2
  ProcCount = 3
  Program <- LongPrograms
  Lrtf <- LongFirstLrtf
  TimeSlice <- LongFirstSlice
  ScanCount = 2
  CreatePeriod = 2
SPECIFICATION SSpec
INVARIANTS
  WritersCount
  NoNullPcb
  NoLostWakeup
  Placement
  NoEarlyExit
  ReaderIsReleased
PROPERTIES
  ImplementsScheduler
  PreemptsShorter
  ForcedDelivered
  ScanPreempts
