SPECIFICATION Spec
CONSTANTS
    MaxRelease = 1
    Paths = {"g0", "g1", "g2"}
    BasePath = "g0"
    PathOf <- MCPathOf
    Timer = Timer
    Operator = Operator
    NoOne = NoOne
    Other = Other
    MaxDisruptions = 1
INVARIANT AcceptOrRestore
