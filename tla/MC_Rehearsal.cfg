CONSTANTS
    Keys = {k1, k2}
    Rehearsals = {r1, r2}
    Absent = Absent
    Idle = Idle
    Production = Production
    OtherRun = OtherRun
    MaxInvocations = 2
SPECIFICATION Spec
INVARIANTS
    TypeOK
PROPERTIES
    IsPrivateView
    DegradedStaysPrivate
    ProductionLeavesNamespaces
CHECK_DEADLOCK FALSE
