CONSTANT MaxStrays = 0
SPECIFICATION Spec
INVARIANT EveryTrialParses
CHECK_DEADLOCK FALSE
