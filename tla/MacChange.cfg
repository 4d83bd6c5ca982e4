\* Two commands on one machine, in every order, whatever fails.
CONSTANTS
  Addresses <- MCAddresses
  Second <- MCSecond
  NoAddress = none
  Malformed = malformed
  NoTarget = nothing
  Machines <- MCMachines
  Procs = {p1, p2}
  Given <- MCGiven
  Drawn <- MCDrawn
  Faults = {"down", "set", "up", "spawn", "kill"}
SPECIFICATION MacSpec
INVARIANTS MacTypeOK DownHasOwner ListingServes
PROPERTIES SuccessIsTrue
