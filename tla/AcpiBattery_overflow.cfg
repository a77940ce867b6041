SPECIFICATION Spec
CHECK_DEADLOCK FALSE
CONSTANTS
  U32 = 4295
  nBatt = 1
  UseLFC <- NoLFC
  Contents <- FiftyWh
  Garbage = {0, 1}
PROPERTY Average
