SPECIFICATION LiveSpec
CONSTANTS
  Units = {u1, u2}
  Archives = {a1, a2, a3}
  Retention = 1
  None = None
INVARIANTS
  ImagesKept
  PausedStayDown
  NoUnitLeftDown
PROPERTIES
  NewestArchivesKept
  LockUsersProceed
