CONSTANTS
  MaxSwaps = 2
  Samples = 2
  MaxTouches = 2
  Interval = 2
  Resolution = 2
  RequiredSamples = 2
  MaxNow = 5
  MaxWork = 1
  MaxResets = 2
  Clients = {"c1", "c2"}
  TxPerClient = 2
  MaxClock = 3
  MaxSpoiled = 1
  MaxFaults = 2
  Users = {"u1", "u2"}
  Pids = {"p1", "p2"}
  MaxCommands = 4
SPECIFICATION Spec
INVARIANTS RunIsOneWriting TrialIsWhole ControlsAreOwn  PgbenchIsJudged OneWorkloadAtMost
CHECK_DEADLOCK FALSE
