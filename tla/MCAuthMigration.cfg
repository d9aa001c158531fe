SPECIFICATION BoundedSpec
CONSTANTS
  Requests = {r1, r2}
  Legacy = {l1}
  MaxAttempts = 2
  MaxPairings = 2
  MaxGrants = 2
  MaxFaults = 2
  MaxStarts = 2
  MaxLapses = 1
SYMMETRY RequestsAlike
INVARIANTS
  OneGrantPerPairing
  NothingSurvivesRevokeAll
  EndedStaysEnded
  KeptUntilEnded
  MigratedAreRecognized
CHECK_DEADLOCK FALSE
