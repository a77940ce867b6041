SPECIFICATION LoopSpec
CONSTANTS
  U32 = 32
  Levels <- MCLevels
  CpuinfoMin = 4
  CpuinfoMax = 10
  Snap <- RoundUp
  FREQ_NEXT_DEFAULT = 2
  StepFreq = 3
  ArgMinFreqs <- NoArg
  ArgMaxFreqs <- NoArg
  StartingFreqs = {"leave"}
  Systems <- RootUserspace
  Daemon = FALSE
  FdLimit = 0
  CountFds = FALSE
  Gaps <- MCGaps
  MaxBack = 1
  Clicks <- MCClicks
  BatteryPeriod = 2
  Percentages = {99, 100}
  PARADISIAC_ON = TRUE
PROPERTIES
  SavedIsKept
