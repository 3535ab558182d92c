SPECIFICATION Spec
CONSTANTS
  Repeats = 2
  MaxTrials = 6
  MaxProduct = 80
  HasDeadline = FALSE
  Widest = 15
  Requested <- NoSettings
  Scores = {10, 12, 14}
  RepsModulus = 1024
  MaxInt = 100000
  Sizes = {1, 3}
  Limit = 2
INVARIANTS
  TypeOK
  NeverAboveFailed
  NoEscalationUnderStress
  BudgetsHold
  Bracket
  SplitWithinClean
  AbortNamesLastTrial
  CleanIsComplete
  WidthMeasured
  WholeUnlessTold
  PlanKept
  BelowFailuresOfItsWidth
  OneDatagram
  OneNotch
PROPERTIES
  CondemnedNotRecommended
