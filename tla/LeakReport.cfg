\* Every reply, and every failure, for two test domains.
CONSTANTS
  N = 2
  Answers <- MCAnswers
SPECIFICATION Spec
INVARIANTS DnsLeakReported EveryProbeTried
PROPERTIES CheckEnds
CHECK_DEADLOCK FALSE
