\* Failing commands, failing mounts and outages; every subvolume has a store of its own.
SPECIFICATION Spec
CONSTANTS
  None = None
  r = r
  w = w
  sr = sr
  sw = sw
  Subvols = {r, w}
  Root = r
  Stores = {sr, sw}
  StoreOf <- OwnStores
  Keep <- KeepTwoOne
  NixMount = "/nix"
  Faults = TRUE
  MaxSeq = 4
INVARIANTS TypeOK RecentRootsKept StoreIsBounded ComesUpFresh
