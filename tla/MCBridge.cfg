SPECIFICATION Spec
CONSTANTS
  Scopes = {"branch", "screen"}
  Screens = {"screen"}
  NumEffects = 5
  Kind <- KindOf
  Home <- HomeOf
  MaxCalls = 1
  MaxWrites = 2
  MaxReloads = 1
  MaxQueue = 1
  MaxPasses = 1
INVARIANTS TypeOK NothingOutlivesItsScope WaitsAreHeldAndEnd MountedIsTheTree
