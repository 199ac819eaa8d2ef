CONSTANTS
  Kids = {"k1"}
  Piped = TRUE
  Faults = TRUE
  Invocations = {"i1", "i2"}
  SuiteRepeats = 1
  CampaignLength = 3
  Jars = {"a", "b", "c"}
  MaxRuntimeFiles = 3
  MaxStrays = 1
SPECIFICATION Spec
INVARIANTS VerdictMatchesResult JournalIsTrue SuiteIsEarned CampaignIsEarned DriverIsConfined
PROPERTIES PassedAfterAllGates EveryRunIsJudged OperationsEnd
CHECK_DEADLOCK FALSE
