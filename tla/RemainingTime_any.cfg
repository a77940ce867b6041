SPECIFICATION Spec
CONSTANTS
  Depth = 3
  U32 = 256
  U16 = 32
  Minute = 4
  Percents <- MCPercents
  MaxTime = 4
  MaxCalls = 7
  Gaps <- MCGaps
  Counts = {0, 1}
  Gauges = {"bouncing", "apart"}
INVARIANTS
  TypeOK
  DisplayCatchesUp
  RealDifference
PROPERTIES
  ImplementsWindow
CHECK_DEADLOCK FALSE
