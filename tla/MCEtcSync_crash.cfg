\* Activations cut short anywhere, files of the administrator; every name is provided in one way.
SPECIFICATION Spec
CONSTANTS
  None = None
  a = a
  b = b
  c = c
  d = d
  f = f
  s1 = s1
  s2 = s2
  s3 = s3
  Systems = {s1, s2, s3}
  Names = {a, b, c, d, f}
  Parent <- Flat
  Etc <- StableEtc
  Aborts = TRUE
  Faults = FALSE
  Admin = {a, b, c, f}
INVARIANTS TypeOK Installed NothingLeft CopiesAreListed
PROPERTIES CopiesStay LinksStay
