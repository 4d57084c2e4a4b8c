SPECIFICATION FairSpec
CONSTANTS
    Interfaces = {"lan", "radio", "wire"}
    Uplinks = {"lan"}
    Invalid = "invalid"
    MaxDisruptions = 6
INVARIANTS
    Consistent
    Confined
    StopReturns
PROPERTIES
    Recovers
