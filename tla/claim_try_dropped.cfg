SPECIFICATION Spec
CONSTANTS
  Repeats = 2
  MaxTrials = 4
  MaxProduct = 40
  HasDeadline = TRUE
  Widest = 0
  Requested <- MixedSettings
  Scores = {10}
  Sizes = {1}
  RepsModulus = 1024
  MaxInt = 100000
INVARIANT
  AllRequestedTried
