SPECIFICATION Spec
CONSTANTS
  U32 = 32
  Levels <- MCLevels
  CpuinfoMin = 4
  CpuinfoMax = 10
  Snap <- RoundUp
  FREQ_NEXT_DEFAULT = 2
  StepFreq = 4
  ArgMinFreqs <- NoArg
  ArgMaxFreqs <- NoArg
  StartingFreqs = {"leave", "min", "max"}
  Systems <- RootSystems
  Daemon = FALSE
  FdLimit = 6
  CountFds = TRUE
INVARIANTS
  StaysAlive
CHECK_DEADLOCK FALSE
