SPECIFICATION Spec
CONSTANTS
  Machines <- MCMachines
  SmcArgs <- MCSmcArgs
  ToshArgs <- MCToshArgs
  Families <- MCFamilies
  Garbage = {7}
INVARIANTS ConfiguredWhenDone LeavesLocked ReportsTrue
PROPERTIES ValidLast OnlyLooks
