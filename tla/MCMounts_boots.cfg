\* Boots that fail anywhere, of live systems and of volatile roots with kept directories.
SPECIFICATION Spec
CONSTANTS
  None = None
  root = root
  boot = boot
  dev = dev
  home = home
  nix = nix
  persist = persist
  run = run
  varlog = varlog
  phome = phome
  pvarlog = pvarlog
  upper = upper
  squash = squash
  Paths <- MCPaths
  Root = root
  Persist = persist
  Nix <- MCNix
  Api <- MCApi
  Above <- MCAbove
  Depth <- MCDepth
  Rank <- MCRank
  Plans <- SoundPlans
INVARIANTS TypeOK NothingShadowed BindsReachTheirSource DataPersists SoundPlansBoot
PROPERTIES BootEnds
