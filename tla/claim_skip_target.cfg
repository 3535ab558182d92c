SPECIFICATION Spec
CONSTANTS
  ArcModulus = 6
  MaxVars = 2
  Reps = 2
  Tolerance = 1
  ReferenceRepetitions = 3
  Lines <- SomeLines
  Profiles <- SomeProfiles
INVARIANT
  SkippedIsListed
