SPECIFICATION DockSpec
CONSTANTS
  U32 = 32
  Levels <- MCLevels
  CpuinfoMin = 4
  CpuinfoMax = 4
  Snap <- RoundUp
  FREQ_NEXT_DEFAULT = 2
  StepFreq = 4
  ArgMinFreqs <- NoArg
  ArgMaxFreqs <- NoArg
  StartingFreqs = {"leave"}
  Systems <- RootUserspace
  Daemon = TRUE
  FdLimit = 0
  CountFds = FALSE
  Gaps <- MCGaps
  MaxBack = 1
  Clicks <- MCClicks
  BatteryPeriod = 2
  Percentages <- MCPercentages
  PARADISIAC_ON = FALSE
  ShutdownAt = 1
  AlarmAt = 2
  MaxSleep = 1
  MaxSong = 1
  MoveTime = 2
INVARIANTS
  ShutdownInTime
PROPERTIES
  NothingSkipped
  EmptyShutsDown
  ServesAfterAlarm
