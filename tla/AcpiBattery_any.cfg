SPECIFICATION Spec
CHECK_DEADLOCK FALSE
CONSTANTS
  U32 = 4295
  nBatt = 2
  UseLFC <- MCUseLFC
  Contents <- AnyFile
  Garbage = {0, 1}
INVARIANT TypeOK
INVARIANT Divisible
PROPERTY Average
