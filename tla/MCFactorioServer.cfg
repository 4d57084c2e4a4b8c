SPECIFICATION FairSpec
CONSTANTS
    Sessions = {s1, s2}
    Names = {"Ann", "ann"}
    Lower <- MCLower
    Guard = "guard"
    Worlds = {w1, w2}
    Mods = {m}
    Legacy = Legacy
    None = None
    Deployment = Deployment
    NoOne = NoOne
    Keep = 1
    MaxCommands = 2
    MaxDisruptions = 2
INVARIANTS
    Consistent
    ChangedWhileDown
    LeftAsFound
PROPERTIES
    ProgressKept
    ComesUp
CHECK_DEADLOCK FALSE
