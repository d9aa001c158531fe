SPECIFICATION BoundedSpec
CONSTANTS
  Requests = {r1}
  Legacy = {}
  MaxAttempts = 2
  MaxPairings = 1
  MaxGrants = 1
  MaxFaults = 1
  MaxStarts = 2
  MaxLapses = 0
SYMMETRY RequestsAlike
INVARIANTS
  RevokedIsRefused
CHECK_DEADLOCK FALSE
