SPECIFICATION Spec
CONSTANTS
  Default <- MCDefault
  DefaultLfc <- MCLfc
  Words <- MCWords
  MaxWords = 3
  Machines <- MCMachines
  MaxFailures = 2
INVARIANTS
  StartupTypeOK
  GivenWins
  RightInterface
  VectorReady
  FreedOnce
PROPERTIES
  StartsOrEnds
CHECK_DEADLOCK FALSE
