SPECIFICATION Spec
CONSTANTS
  Wrap = 512
  Starts <- MCStarts
  Ticks = {1, 4, 511}
  MaxTicks = 1022
  MaxMoves = 3
  Scenes <- MCScenes
  dontBlink100 = FALSE
INVARIANTS
  CanBeRead
PROPERTIES
  LoadIsTrue
  Blinks
