SPECIFICATION Spec
CONSTANTS
  Request = {q1, q2}
  Addr = {a1}
  Answer <- Responses
  Capacity = {1}
  Wrap = 1
  MaxBuild = 2
  Fragile = {"city", "asn"}
  None = None
SYMMETRY Symmetry
PROPERTY
  ReloadClears
