CONSTANTS
  CapsuleTrials = 2
  MaxLiveEdits = 1
  MaxCapsuleEdits = 2
  OperationTrials = 2
  MaxOperationEdits = 2
  DecisionGates = {"load", "clock"}
  UnitsPlanned = 2
  MinUnits = 2
  Threshold = 1
  MaxGap = 5
  MaxSteps = 1
  Losses = {3}
  Gains = {2}
  Writers = {"w1", "w2"}
  SeriesNames = {"s1", "s2", "s3"}
  Attachers = {"a1", "a2"}
  MaxRevision = 3
  MaxMeddles = 1
  Chains = {"ours", "other"}
  MaxEdits = 3
  Platforms = {"p1", "p2"}
  Builds = {"a", "b", "c", "d"}
  MaxSwaps = 2
SPECIFICATION Spec
INVARIANTS SeriesRanItsPlan DecisionIsEarned ImportIsTrue HistoryIsTrue OperationRanWhatItKeeps ArchivesAreWhole ReleaseChainIsHonest DistributionIsOne
PROPERTY PublishedOnce
CHECK_DEADLOCK FALSE
