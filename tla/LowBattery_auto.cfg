SPECIFICATION Spec
CONSTANTS
  ShutdownAt = 1
  AlarmAt = 5
  Percentages <- MCPercentages
  Jump = 1
INVARIANT TypeOK
INVARIANT NothingLeft
INVARIANT ShutdownAsked
PROPERTY WarnedFirst
PROPERTY FlashingEnds
PROPERTY ClickEndsFlashing
