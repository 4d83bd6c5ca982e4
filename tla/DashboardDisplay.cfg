\* All three tasks write what is displayed, and a key and the timer may have a
\* rotation under way at the same time.
CONSTANTS
  Controls <- MCControls
  Addresses = {a1, a2}
  NoAddress = none
  DnsSecure = TRUE
  AutoRotate = TRUE
  MaxChanges = 1
  MaxPresses = 1
  MaxRotations = 2
SPECIFICATION DashSpec
INVARIANTS FlagAgrees RotationsCounted
PROPERTIES DisplaySettles
CHECK_DEADLOCK FALSE
