CONSTANTS
  Declared <- MCDeclared
  Roster <- MCRoster
  Critical <- MCCritical
  Cascade <- MCCascade
  GateOrder <- MCGateOrder
  Cadence <- MCCadence
  Weight <- MCWeight
  OverallWeight <- MCOverallWeight
  Low = 2
  High = 6
  MaxOff = 2
SPECIFICATION Spec
INVARIANTS FailureNeverRaises
CHECK_DEADLOCK FALSE
