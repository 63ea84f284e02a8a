SPECIFICATION UseSpec
CONSTANTS
  Addr = {a1, a2, a3, a4}
  Answer = {r1, r2}
  Capacity <- CapacityRange
  Wrap = 4
INVARIANTS
  CacheTypeOK
  Agreement
  WithinCapacity
PROPERTIES
  RecentlyUsedSurvive
  ImplementsLRU

