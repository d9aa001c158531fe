SPECIFICATION FairSpec
CONSTANTS
  Ids = {c1, c2}
  Nobody = Nobody
  Window = 1
  MaxTime = 3
  MaxFaults = 2
  MaxRestarts = 1
INVARIANTS
  OneUnresolvedRun
PROPERTIES
  NoLaunchAfterLostResult
  ReadsNeverGoBack
  ImplementsLifecycle
  SlotIsFreed
  ShutdownEnds
CHECK_DEADLOCK FALSE
