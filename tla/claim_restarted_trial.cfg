SPECIFICATION Spec
CONSTANTS
  Repeats = 2
  MaxTrials = 3
  MaxProduct = 40
  HasDeadline = FALSE
  Widest = 0
  Requested <- NoSettings
  Scores = {10}
  Sizes = {1}
  RepsModulus = 1024
  MaxInt = 100000
INVARIANT
  RestartedTrialFails
