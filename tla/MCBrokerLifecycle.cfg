SPECIFICATION Spec
CONSTANTS
  Commands = {c1, c2}
  Brokers = {b1, b2}
  Pids = {p1, p2}
  Other = Other
  Nobody = Nobody
  MaxReconciliations = 1
  MaxRewrites = 1
SYMMETRY Alike
INVARIANTS
  OneBrokerAnswers
  ServingIsRecorded
  OnlyBrokerSignalled
  StoppedHasExited
CHECK_DEADLOCK FALSE
