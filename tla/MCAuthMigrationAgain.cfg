SPECIFICATION BoundedSpec
CONSTANTS
  Requests = {r1}
  Legacy = {l1, l2}
  MaxAttempts = 1
  MaxPairings = 1
  MaxGrants = 1
  MaxFaults = 0
  MaxStarts = 2
  MaxLapses = 0
SYMMETRY LegacyAlike
INVARIANTS
  MergedStaysEnded
CHECK_DEADLOCK FALSE
