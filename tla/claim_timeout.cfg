SPECIFICATION Spec
CONSTANTS
  RTTs <- Times
  MostOf <- Counts
  TicksPerMs = 10
INVARIANT
  TimeoutCoversP99
