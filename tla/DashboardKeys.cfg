\* The operator at the keyboard, two keys pressed, while the poller watches.
CONSTANTS
  Controls <- MCControls
  Addresses = {a1}
  NoAddress = none
  DnsSecure = TRUE
  AutoRotate = FALSE
  MaxChanges = 1
  MaxPresses = 2
  MaxRotations = 0
SPECIFICATION DashSpec
INVARIANTS DashTypeOK
PROPERTIES TorNoticed QuitServed
CHECK_DEADLOCK FALSE
