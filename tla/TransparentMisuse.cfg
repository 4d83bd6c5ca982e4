\* Any sequence of commands, one at a time, a start on top of a start included,
\* and a cleaning of the session at any point of them.
CONSTANTS
  UserAccepts <- MCUserAccepts
  UserRules <- MCUserRules
  Own <- MCFilterOwn
  InitLoaded <- BothTables
  Procs = {p1}
  Sequential = TRUE
  Careful = FALSE
  StartOptions <- TwoOptions
  StopKill = {FALSE}
  Faults <- HalfwayFaults
  MaxChain = 3
  TmpFiles = {"other"}
  InitFiles <- MCTwoFiles
  Resisting = {"other", "dataDir"}
SPECIFICATION CSpec
INVARIANTS CleanTypeOK OkMeansClean TorReachesNetwork Anonymous KillSwitchHolds
