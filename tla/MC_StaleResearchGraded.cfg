CONSTANTS
  TileNames = {"research"}
  MaxOff = 2
SPECIFICATION Spec
INVARIANT StaleResearchDoesNotMatter
CHECK_DEADLOCK FALSE
