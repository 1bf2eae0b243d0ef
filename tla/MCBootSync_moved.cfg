\* One script at a time; limine, unsigned; the profile may be moved back, so numbers are reused.
SPECIFICATION Spec
CONSTANTS
  None = None
  Torn = Torn
  Systems = {A, B, C}
  UkiSystems = {A, B}
  First = A
  Scripts = {p1}
  MaxGen = 2
  Gens <- MCGens
  MaxNum = 5
  Capacity = 9
  Loader = "limine"
  FirstToken = 0
  MaxToken = 0
  Rekeying = "never"
  PowerLoss = FALSE
  Rollback = TRUE
INVARIANTS ConfIsWhole
PROPERTY RetainedStaysBootable
\* With no script running and the bound on generations reached the machine idles.
CHECK_DEADLOCK FALSE
