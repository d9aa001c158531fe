SPECIFICATION FairSpec
CONSTANTS
  m1 = m1
  h1 = h1
  Ids = {m1, h1}
  Mode <- MCMode
  Touches <- MCTouches
  M = 2
  Handlers = {x1, x2}
  Nobody = Nobody
  PendingTtl = 1
  Retention = 1
  MaxTime = 2
  MaxEdits = 1
  MaxCrashes = 1
  MaxFaults = 1
INVARIANTS
  EveryEffectAccounted
PROPERTIES
  WritesAreAuthorized
  ImplementsLifecycle
  MutexIsReleased
CHECK_DEADLOCK FALSE
