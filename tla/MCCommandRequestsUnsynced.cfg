SPECIFICATION Spec
CONSTANTS
  Ids = {c1, c2}
  Nobody = Nobody
  Window = 1
  MaxTime = 2
  MaxFaults = 1
  MaxRestarts = 0
INVARIANTS
  OneRunningRecord
CHECK_DEADLOCK FALSE
