SPECIFICATION Spec
CONSTANTS
  Modulus = 6
  Rtts = {1, 9, 40}
  MaxReboots = 1
  MaxPause = 3
INVARIANTS
  TypeOK
PROPERTIES
  RestartIsReal
  RebootFound
  BaselineIsMedian
  SeenAsView
