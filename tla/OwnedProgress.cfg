CONSTANTS
  metrics = metrics
  j1 = j1
  Collector = metrics
  Jobs = {j1}
  Sampled = {FALSE}
  Waits = {FALSE}
  Faults = FALSE
  Contained = FALSE
SPECIFICATION ProgressSpec
PROPERTIES  StopTakesEffect
CHECK_DEADLOCK FALSE
