CONSTANTS
  a = a
  b = b
  c = c
  None = None
  Systems <- MCSystems
  Secrets <- MCSecrets
  OwnPath <- MCOwnPath
  InEnv <- MCInEnv
SPECIFICATION SecretSpec
INVARIANT ServedIsWhole
PROPERTY WithdrawnOnlyWhenReady
