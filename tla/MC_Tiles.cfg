CONSTANTS
  TileNames = {"research", "backtester", "predictor", "executor", "portfolio_outcome", "substrate", "agent", "behavioral", "director_quality", "contribution_lift"}
  MaxOff = 2
SPECIFICATION Spec
INVARIANTS StaleBodiesDoNotMatter CriticalKeepsItsWeight RedUnlessSpanning
PROPERTIES NoPassByLosingAnInput
CHECK_DEADLOCK FALSE
