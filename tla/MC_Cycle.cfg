SPECIFICATION Spec
CONSTANTS
  None = None
  Runs = {r1, r2}
  Directors = {g1, g2}
  RunDates = {0, 1}
  MaxDay = 2
  RewriteWindow = 1
  EscapeHatch = FALSE
SYMMETRY Symmetric
INVARIANTS
  TypeOK
  MutationRestsOnEvidence
  AdvisesOnFrozenCard
  RecordLeadsToACard
  TrendRowsGradeEarlierPlans
PROPERTIES
  AsOfRecordStands
CHECK_DEADLOCK FALSE
