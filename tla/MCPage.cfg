SPECIFICATION PageSpec
CONSTANTS
  Request = {q1, q2}
  Addr = {a1}
  Answer <- Responses
  Capacity <- Capacities
  Wrap = 1
  MaxBuild = 2
  Fragile = {"city"}
  None = None
SYMMETRY Symmetry
INVARIANTS
  TypeOK
  CompleteOnly
  AnswersSinceMiss
  FieldIsAnswered
  StaleBound
PROPERTY PageAgrees
