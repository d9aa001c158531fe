\* The bounded commands run out: CHECK_DEADLOCK is off.
SPECIFICATION RepairSpec
CONSTANTS
  MaxSpawns = 2
  MaxBrokers = 2
  MaxCommands = 2
  Admins = {a1, a2}
INVARIANTS
  NoStrayTunnel
  FilesAreEarned
  AskedWasServed
PROPERTY LoneStartIsAnswered
CHECK_DEADLOCK FALSE
