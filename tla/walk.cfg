SPECIFICATION Spec
CONSTANTS
  ArcModulus = 4
  Surveys <- WholeTable
  MaxVars = 2
  Reps = 2
  Mib <- Ragged
  Tolerance = 1
  Oids <- AnyOids
  Stems <- TheColumns
  Orders <- SomeOrders
INVARIANTS
  TypeOK
  NoRowTwice
  LossIsReported
  HonestNotBlamed
PROPERTIES
  WalkEnds
  Advances
