SPECIFICATION Spec
CONSTANTS
  Chips <- MCChips
  FirstRanges <- MCRanges
  ArgSteps = {0, 1, 100000}
  StartingFreqs = {"leave", "min", "max"}
  Percentages = {98, 99, 100}
  PARADISIAC_ON = TRUE
INVARIANTS
  TableRight
  RangeFollows
PROPERTIES
  ComesDown
