SPECIFICATION Spec
CONSTANTS
  Instance = {i1, i2}
  Kid = {k1, k2, k3}
  Client = {admin, app}
  Proc = {p1, p2}
  Seeded = {admin}
  Asks <- SomeAsks
  RequiredScope <- CatalogWrite
  NoKid = NoKid
  None = None
  NoRow = NoRow
  NoScope = NoScope
  MaxBoots = 3
  MaxRequests = 3
  MaxFaults = 1
SYMMETRY Symmetry
INVARIANTS TypeOK TokensOutliveRestarts WriteNeedsItsScope
PROPERTIES RegisteredOnce
CHECK_DEADLOCK FALSE
