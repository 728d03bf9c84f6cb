SPECIFICATION Spec
CONSTANTS
  i1 = i1
  i2 = i2
  NoItem = NoItem
  Items = {i1}
  StaleAfter = 1
  MaxActive = 1
  CarryCap = 2
  MaxDay = 2
  MaxIssues = 3
  ListMax = 3
  Threshold = 2
  PlanEntries <- EntriesNoResolve
  Readings = {"adverse"}
  Verdicts = {TRUE}
  Holdable = {}
  HumanActs = {"comment"}
  Faults = {}
  MaxFaults = 0
INVARIANTS
  OneRetrack
