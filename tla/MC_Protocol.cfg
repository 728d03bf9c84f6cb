SPECIFICATION Spec
CONSTANTS
  i1 = i1
  i2 = i2
  NoItem = NoItem
  Items = {i1}
  StaleAfter = 5
  MaxActive = 1
  CarryCap = 2
  MaxDay = 2
  MaxIssues = 3
  ListMax = 3
  Threshold = 2
  PlanEntries <- EntriesNoResolve
  Readings = {"adverse", "recovered", "unverifiable", "not_valid"}
  Verdicts = {TRUE, FALSE}
  Holdable = {i1}
  HumanActs = {"merge", "label", "not_planned", "comment", "reply", "ungate"}
  Faults = {}
  MaxFaults = 0
INVARIANTS
  OneNotice
  OneRetrack
  OneAsk
PROPERTIES
  HumanRuledStaysClosed
