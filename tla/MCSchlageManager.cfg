SPECIFICATION Spec
CONSTANTS
  Sessions = {s1, s2}
  Ids = {i1, i2}
  Pins = {p1, p2}
  Names = {n1}
  Timeouts = {t1, t2}
  LogSize = 2
  None = None
  MaxCommands = 4
  MaxKeypad = 1
  MaxFaults = 1
  MaxReloads = 1
SYMMETRY Symmetry
INVARIANTS
  Consistent
PROPERTIES
  ChangeVerified
  WriteAsShown
CHECK_DEADLOCK FALSE
