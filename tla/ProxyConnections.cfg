\* Three browsers and three descriptors; browsers and Tor may wait for ever.
CONSTANTS
  Conns = {c1, c2, c3}
  Limit = 3
  NoAnswer = none
SPECIFICATION FairProxySpec
INVARIANTS ProxyTypeOK StopHolds AnswerFramed
PROPERTIES IsConnection Served NotBehindOthers PlainEnds
CHECK_DEADLOCK FALSE
