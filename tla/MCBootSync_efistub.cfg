\* One script at a time; EFI stub; UKIs and kernel + initrd systems mixed; no key at
\* first, then at any time a first certificate and another one after it.
SPECIFICATION Spec
CONSTANTS
  None = None
  Torn = Torn
  Systems = {A, B, C}
  UkiSystems = {A}
  First = A
  Scripts = {p1}
  MaxGen = 3
  Gens <- MCGens
  MaxNum = 5
  Capacity = 9
  Loader = "efistub"
  FirstToken = 0
  MaxToken = 2
  Rekeying = "fresh"
  PowerLoss = FALSE
  Rollback = FALSE
INVARIANTS SyncedMenu 
PROPERTIES  SkippedImagesAreCurrent
\* With no script running and the bound on generations reached the machine idles.
CHECK_DEADLOCK FALSE
