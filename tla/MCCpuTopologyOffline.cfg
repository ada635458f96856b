SPECIFICATION Spec
CONSTANTS
  Cpu = {0, 1, 2}
  Machines <- MCMachines
  MaxPackages = 2
  MaxCores = 4
  MaxMoves = 2
  None = None
INVARIANTS
  OfflineIsSkipped
