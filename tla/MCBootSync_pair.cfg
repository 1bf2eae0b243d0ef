\* Two scripts at once, EFI stub.
SPECIFICATION Spec
CONSTANTS
  None = None
  Torn = Torn
  Systems = {A, B}
  UkiSystems = {B}
  First = A
  p1 = p1
  p2 = p2
  Scripts = {p1, p2}
  MaxGen = 2
  Gens <- MCGens
  MaxNum = 3
  Capacity = 9
  Loader = "efistub"
  FirstToken = 0
  MaxToken = 0
  Rekeying = "never"
  PowerLoss = FALSE
  Rollback = FALSE
SYMMETRY ScriptSymmetry
INVARIANTS EntriesAreCurrent
\* With no script running and the bound on generations reached the machine idles.
CHECK_DEADLOCK FALSE
