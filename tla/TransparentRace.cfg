\* Two commands at a time, in any order, with a save or a
\* restore that may fail.
CONSTANTS
  UserAccepts <- MCUserAccepts
  UserRules <- MCUserRules
  Own <- MCFilterOwn
  InitLoaded <- BothTables
  Procs = {p1, p2}
  Sequential = FALSE
  Careful = FALSE
  StartOptions <- PlainOnly
  StopKill = {FALSE}
  Faults = {"save", "restore"}
  MaxChain = 1
SPECIFICATION Spec
INVARIANTS UserFilterKept
