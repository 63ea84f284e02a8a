SPECIFICATION FairSpec
CONSTANTS
  Client = {c1, c2}
  Handle = {h1, h2, h3, h4}
  Build = {b1}
  Broken = {}
  Foreign = Foreign
  Error = Error
  None = None
PROPERTIES
  ReloadEnds
  LookupEnds
