CONSTANTS
  CpuByte = 2
  CpuStarts <- Starts
  CpuProgram <- Compare
SPECIFICATION MCCpuSpec
CHECK_DEADLOCK FALSE
INVARIANT NeverMisexecutes
