SPECIFICATION LiveSpec
CONSTANTS
    Releases = {1, 2}
    None = None
    Retain = 2
PROPERTY
    UpdateSettles
