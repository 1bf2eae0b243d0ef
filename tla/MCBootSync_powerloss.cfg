\* One script at a time; EFI stub, unsigned; an outage loses unsynced writes.
SPECIFICATION Spec
CONSTANTS
  None = None
  Torn = Torn
  Systems = {A, B, C}
  UkiSystems = {A}
  First = A
  Scripts = {p1}
  MaxGen = 3
  Gens <- MCGens
  MaxNum = 5
  Capacity = 9
  Loader = "efistub"
  FirstToken = 0
  MaxToken = 0
  Rekeying = "never"
  PowerLoss = TRUE
  Rollback = FALSE
INVARIANTS SyncedMenu
PROPERTY RetainedStaysBootable
\* With no script running and the bound on generations reached the machine idles.
CHECK_DEADLOCK FALSE
