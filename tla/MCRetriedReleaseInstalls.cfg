SPECIFICATION Spec
CONSTANTS
    Releases = {1, 2}
    None = None
    Retain = 2
INVARIANT
    RetriedReleaseInstalls
