\* The cleaning removes the backup the next stop needs.
CONSTANTS
  UserAccepts <- MCUserAccepts
  UserRules <- MCUserRules
  Own <- MCOwn
  InitLoaded <- BothTables
  Procs = {p1}
  Sequential = TRUE
  Careful = TRUE
  StartOptions <- TwoOptions
  StopKill = {FALSE}
  Faults = {"append"}
  MaxChain = 1
  TmpFiles = {"other"}
  InitFiles <- MCInitFiles
  Resisting = {"other"}
SPECIFICATION CSpec
PROPERTIES StopRestores
