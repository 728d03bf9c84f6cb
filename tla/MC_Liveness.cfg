SPECIFICATION FairSpec
CONSTANTS
  i1 = i1
  i2 = i2
  NoItem = NoItem
  Items = {i1}
  StaleAfter = 1
  MaxActive = 1
  CarryCap = 2
  MaxDay = 0
  MaxIssues = 3
  ListMax = 3
  Threshold = 2
  PlanEntries <- EntriesAll
  Readings = {"adverse"}
  Verdicts = {TRUE, FALSE}
  Holdable = {}
  HumanActs = {"merge", "label", "comment", "reopen"}
  Faults = {"crash", "skip", "get", "list", "comments", "refused", "raised", "lost"}
  MaxFaults = 1
INVARIANTS
  TypeOK
  RetrackFollowsNotice
PROPERTIES
  WithheldRunMutatesNothing
  UnrecoveredCloseIsReopened
  RuledCloseIsRetracked
  CarriedItemIsQueued
  BackfillEvenWhenWithheld
