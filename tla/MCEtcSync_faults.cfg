\* Failing calls, and names that change the way they are provided.
SPECIFICATION Spec
CONSTANTS
  None = None
  a = a
  b = b
  c = c
  d = d
  f = f
  s1 = s1
  s2 = s2
  s3 = s3
  Systems = {s1, s2, s3}
  Names = {a, b, c, d, f}
  Parent <- Flat
  Etc <- ChangingEtc
  Aborts = TRUE
  Faults = TRUE
  Admin = {a, b, c, d, f}
PROPERTIES LinksStay LocalFilesSurvive
