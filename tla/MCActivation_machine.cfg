CONSTANTS
  a = a
  b = b
  c = c
  d = d
  None = None
  Systems <- MCSystems
  ByName <- MCByName
  BootedFiles <- MCBootedFiles
  Modules <- MCModules
  Databases <- MCDatabases
  Firmware <- MCFirmware
  StateDirs <- MCStateDirs
  Volatile <- MCVolatile
  WrapperDir = "/run/wrappers/bin"
  Wrappers <- MCWrappers
  Commands <- MCCommands
  PasswordFrom <- MCPasswordFrom
  Forced = FALSE
SPECIFICATION Spec
INVARIANTS SwitchedWhole KernelMatches
