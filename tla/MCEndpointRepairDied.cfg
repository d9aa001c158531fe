\* A tunnel that ends by itself, then a repair.
SPECIFICATION RepairSpec
CONSTANTS
  MaxSpawns = 2
  MaxBrokers = 2
  MaxCommands = 2
  Admins = {a1, a2}
INVARIANT RepairedWasServed
CHECK_DEADLOCK FALSE
