CONSTANTS
  metrics = metrics
  j1 = j1
  Collector = metrics
  Jobs = {j1}
  Sampled = {TRUE, FALSE}
  Waits = {TRUE, FALSE}
  Faults = TRUE
  Contained = FALSE
SPECIFICATION BothSpec
INVARIANTS  SampledRunsOut ChildrenEndWithRun ChildFailureCounts
PROPERTIES StopNeverLost ReadinessFailureIsTrue
CHECK_DEADLOCK FALSE
