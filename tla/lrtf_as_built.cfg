\* The program as shipped with -l, on two CPUs: cpu_count of student.c stays 0.
CONSTANTS
  CpuCount <- Cpus2
  ProcCount = 8
  Program <- processes
  Lrtf <- LongFirstLrtf
  TimeSlice <- LongFirstSlice
  ScanCount = 0
  CreatePeriod = 10
SPECIFICATION Spec
PROPERTIES
  LrtfPreempts
