\* One operator who follows the README, every fault but an unnoticed one.
CONSTANTS
  UserAccepts <- MCUserAccepts
  UserRules <- MCUserRules
  Own <- MCOwn
  InitLoaded <- BothTables
  Procs = {p1}
  Sequential = TRUE
  Careful = TRUE
  StartOptions <- Options
  StopKill = {TRUE, FALSE}
  Faults <- NoticedFaults
  MaxChain = 20
SPECIFICATION Spec
INVARIANTS TypeOK Recoverable LanExcluded
PROPERTIES StopRestores KeepsUserRules
