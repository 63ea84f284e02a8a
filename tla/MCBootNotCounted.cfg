SPECIFICATION Spec
CONSTANTS
  Interval = 4
  MaxBuild = 1
  MaxExits = 0
  Faulty = {"city"}
INVARIANT
  PacedFromTheStart
