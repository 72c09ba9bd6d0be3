\* The program as shipped, on two CPUs: the PCB states change while
\* print_gantt_line counts them.
CONSTANTS
  CpuCount <- Cpus2
  ProcCount = 8
  Program <- processes
  Lrtf <- FifoLrtf
  TimeSlice <- FifoSlice
  ScanCount = 0
  CreatePeriod = 10
SPECIFICATION Spec
PROPERTIES
  NoWriteWhileRead
