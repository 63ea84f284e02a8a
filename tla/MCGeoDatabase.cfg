SPECIFICATION Spec
CONSTANTS
  Client = {c1, c2}
  Handle = {h1, h2, h3, h4}
  Build = {b1, b2}
  Broken = {x1}
  Foreign = Foreign
  Error = Error
  None = None
SYMMETRY Symmetry
INVARIANTS
  TypeOK
  NoUseAfterClose
  NoLeak
PROPERTIES
  StaysLoaded
  ImplementsGeoService
