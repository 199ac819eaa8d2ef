CONSTANTS
  k1 = k1
  k2 = k2
  Kids = {k1, k2}
  Piped = FALSE
  Faults = TRUE
SPECIFICATION Spec
SYMMETRY Symmetry
INVARIANTS PassedIsEarned FailureReachesVerdict NoOrphanedGroup
PROPERTY SupervisionHolds
CHECK_DEADLOCK FALSE
