SPECIFICATION Spec
CONSTANTS
  i1 = i1
  i2 = i2
  NoItem = NoItem
  Items = {i1, i2}
  StaleAfter = 1
  MaxActive = 1
  CarryCap = 1
  MaxDay = 2
  MaxIssues = 3
  ListMax = 3
  Threshold = 1
  PlanEntries <- EntriesNoResolve
  Readings = {"adverse"}
  Verdicts = {TRUE}
  Holdable = {}
  HumanActs = {"comment"}
  Faults = {"crash", "comments", "raised", "lost"}
  MaxFaults = 1
SYMMETRY Symmetric
INVARIANTS
  TracksOwnIssue
  OneIssuePerSlug
  ActiveBounded
  RenewedOutlivesOlder
PROPERTIES
  NoReopenOfRecordedRuling
  LedgerNeverForgets
