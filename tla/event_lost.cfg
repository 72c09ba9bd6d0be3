\* The program as shipped, on two CPUs: an event is posted to a CPU thread
\* that is not waiting for it.
CONSTANTS
  CpuCount <- Cpus2
  ProcCount = 8
  Program <- processes
  Lrtf <- FifoLrtf
  TimeSlice <- FifoSlice
  ScanCount = 0
  CreatePeriod = 10
SPECIFICATION Spec
INVARIANT NoEventLost
