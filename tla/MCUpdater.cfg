SPECIFICATION FairSpec
CONSTANTS
  Interval = 4
  MaxBuild = 2
  MaxExits = 1
  Faulty = {"asn", "city"}
INVARIANTS
  TypeOK
  Paced
  TempsRemoved
  LoadedAfterCheck
PROPERTIES
  OnlyNewerBuilds
  RenameHidesNothing
  ChecksGoOn
