CONSTANTS
  k1 = k1
  k2 = k2
  Kids = {k1}
  Piped = FALSE
  Faults = FALSE
SPECIFICATION Spec
INVARIANT PriorEvidenceUntouched
CHECK_DEADLOCK FALSE
