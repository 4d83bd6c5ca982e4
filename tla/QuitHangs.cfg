\* The quit key while a control port that never speaks first is rotated.
CONSTANTS
  Controls = {"silent"}
  Addresses = {a1}
  NoAddress = none
  DnsSecure = TRUE
  AutoRotate = FALSE
  MaxChanges = 0
  MaxPresses = 2
  MaxRotations = 0
SPECIFICATION DashSpec
PROPERTIES QuitQuits
CHECK_DEADLOCK FALSE
