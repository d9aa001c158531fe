SPECIFICATION PartsSpec
CONSTANTS
  Calls = {w1, r1, r2, r3}
  Abortable = {r1, r2, r3}
  Nobody = Nobody
  N = 3
  D = 2
  Op <- MCOp
  Home <- MCHome
  Above <- MCAbove
  MaxEdits = 2
  MaxFaults = 2
  Texts <- MCTexts
  Requests <- MCRequests
  Wanted <- MCWanted
  Context = 1
  MaxChanges = 1
  Absent = Absent
  Commands = {c1}
  Brokers = {b1, b2}
  Pids = {p1, p2}
  Other = Other
  MaxReconciliations = 2
  MaxRewrites = 1
INVARIANTS
  CompleteOutputWasSeen
  FailuresAreAccounted
  PreparedAsProposed
PROPERTIES
  FirstClaimWins
  EveryRunEnds
  ImplementsRun
  ImplementsFifoLock
  ImplementsTransaction
  CommandsEnd
\* A run, a call, a patch and a command end.
CHECK_DEADLOCK FALSE
