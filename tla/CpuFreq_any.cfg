SPECIFICATION Spec
CONSTANTS
  U32 = 32
  Levels <- MCLevels
  CpuinfoMin = 4
  CpuinfoMax = 10
  Snap <- RoundDown
  FREQ_NEXT_DEFAULT = 2
  StepFreq = 4
  ArgMinFreqs = {0, 7}
  ArgMaxFreqs = {0, 9}
  StartingFreqs = {"leave", "min", "max"}
  Systems <- AllSystems
  Daemon = FALSE
  FdLimit = 6
  CountFds = TRUE
INVARIANTS
  TypeOK
  Synced
PROPERTIES
  StaysWithinLimits
  MovesOneLevel
  LoopsEnd
CHECK_DEADLOCK FALSE
