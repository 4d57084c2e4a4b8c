SPECIFICATION Spec
CONSTANTS
    MaxRelease = 2
    Paths = {"g0", "g1", "g2"}
    BasePath = "g0"
    PathOf <- MCPathOf
    Timer = Timer
    Operator = Operator
    NoOne = NoOne
    Other = Other
    MaxDisruptions = 3
INVARIANTS
    Consistent
    RollbackTargetKept
    RollbackComplete
    NothingHalfDeployed
    NoticesTruthful
PROPERTIES
    AcceptedNeverRegresses
    AcceptanceEarned
    UnforcedDeploysOnlyNew
    Supervised
