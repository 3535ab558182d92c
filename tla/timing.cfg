SPECIFICATION Spec
CONSTANTS
  RTTs <- Times
  MostOf <- Counts
  TicksPerMs = 10
INVARIANTS
  TimeoutFits
  TimeoutEarned
