SPECIFICATION MCSpec
CONSTANTS
  MaxDevice = 2
  Files = {f1, f2}
  MaxFds = 2
  MaxLoads = 2
  None = None
  Programs = {p1, p2}
  n0 = n0
  n1 = n1
  a0 = a0
  Names = {n0, n1, a0}
  Board <- MCBoard
  MaxSessions = 2
SYMMETRY Sym
INVARIANTS
  ModuleSound
  HandleWorks
  Undisturbed
CHECK_DEADLOCK FALSE
