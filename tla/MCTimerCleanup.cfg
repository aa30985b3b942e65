SPECIFICATION Spec
CONSTANTS
  SMP = FALSE
INVARIANTS
  NothingAfterCleanup
