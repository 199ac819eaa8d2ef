CONSTANTS
  N = 2
  MinValid = 1
  None = None
  e1 = e1
  e2 = e2
  engine = engine
  Envs = {e1, e2}
  SharedInputs = {engine}
  MaxUpsets = 2
  Arms <- MCArms
  Modes <- MCModes
SPECIFICATION FairSpec
INVARIANTS SeriesIsHonest DriftVoidsSeries PassedRunVerifies ABIsEarned
PROPERTY RunsTakeTurns
CHECK_DEADLOCK FALSE
