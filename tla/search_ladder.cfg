SPECIFICATION Spec
CONSTANTS
  Repeats = 1
  MaxTrials = 0
  MaxProduct = 40
  HasDeadline = FALSE
  Widest = 1
  Requested <- NoSettings
  Scores = {1, 2, 4, 8, 16}
  Sizes = {1}
  RepsModulus = 64
  MaxInt = 100000
INVARIANTS
  BisectConverges
PROPERTIES
  Terminates
  KeepsPromise
