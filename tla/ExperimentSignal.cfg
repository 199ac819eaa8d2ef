CONSTANT MaxStrays = 1
SPECIFICATION Spec
INVARIANT EveryManifestGetsVerdict
CHECK_DEADLOCK FALSE
