SPECIFICATION Spec
CONSTANTS
    Releases = {1, 2, 3}
    None = None
    Retain = 2
INVARIANTS
    ServedIntact
    JournalAgrees
    RollbackPossible
PROPERTIES
    HeldStaysDown
    NoDowngrade
    QuarantineNotServed
    Implements
