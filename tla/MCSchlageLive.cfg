SPECIFICATION LiveSpec
CONSTANTS
  Sessions = {s1, s2}
  Ids = {i1}
  Pins = {p1}
  Names = {n1}
  Timeouts = {t1}
  LogSize = 3
  None = None
  MaxCommands = 3
  MaxKeypad = 1
  MaxFaults = 1
  MaxReloads = 1
PROPERTIES
  CommandsEnd
CHECK_DEADLOCK FALSE
