SPECIFICATION Spec
CONSTANTS
  Interval = 2
  MaxBuild = 2
  MaxExits = 0
  Faulty = {}
INVARIANT
  ConfirmedIsCurrent
