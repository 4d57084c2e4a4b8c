SPECIFICATION FairSpec
CONSTANTS
    MaxEvents = 3
    Announcements = {1}
    Drains = {timer, hand}
    Timer = timer
    NoOne = NoOne
    Window = 2
    Horizon = 1
    Batch = 2
    MaxClock = 3
    MaxSteps = 1
    MaxFaults = 1
INVARIANTS
    Consistent
PROPERTIES
    Promise
    QueueDrains
CHECK_DEADLOCK FALSE
