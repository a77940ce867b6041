SPECIFICATION LoopSpec
CONSTANTS
  U32 = 32
  Levels <- MCLevels
  CpuinfoMin = 4
  CpuinfoMax = 10
  Snap <- RoundUp
  FREQ_NEXT_DEFAULT = 2
  StepFreq = 3
  ArgMinFreqs <- NoArg
  ArgMaxFreqs = {0, 7}
  StartingFreqs = {"leave", "min", "max"}
  Systems <- ThreeSystems
  Daemon = FALSE
  FdLimit = 0
  CountFds = FALSE
  Gaps <- MCGaps
  MaxBack = 1
  Clicks <- MCClicks
  BatteryPeriod = 2
  Percentages = {99, 100}
  PARADISIAC_ON = TRUE
INVARIANTS
  LoopTypeOK
PROPERTIES
  ManualStaysManual
  OneStepPerSecond
  FollowsLoad
  KeepsServing
  LooksAtBattery
