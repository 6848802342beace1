\* One protected file and a worktree; two Macs with two edits of the catalog; a review of
\* two files; small disks with one scan each.
SPECIFICATION ControlSpec
CONSTANTS
  Source = p
  FileWorktrees = {w}
  FileEnvironments = {1, 2}
  Data = {1, 2}
  MaxFileSaves = 2
  MaxRequests = 3
  MaxCrashes = 1
  CatalogMacs = {"a", "b"}
  Projects = {"p", "q"}
  Worktrees = {"w"}
  Environments = {"dev", "test"}
  EnvironmentNames = {1, 2}
  ResourceRows <- TheResources
  BindingRows <- TheBindings
  SurfaceRows <- TheSurfaces
  Seed <- TheSeed
  None = None
  MaxCatalogEdits = 2
  EnvFiles = {"e", "f", "g"}
  KeyFiles = {"k"}
  OtherKeys = {}
  Unsupported = {}
  OutputPaths = {"o"}
  Folder <- TheFolder
  Tokens = {1, 2}
  Menu <- TheMenu
  MaxFiles = 2
  Absent = Absent
  MaxCommands = 2
  MaxSaves = 1
  MaxFaults = 1
  Saves <- TheSaves
  InitialContent <- TheContent
  Guarded = "g"
  Disks <- TheDisks
  Requested <- TheRequests
  DirectoryRank <- TheRanks
  IgnoredNames = {"node_modules"}
  GeneratedNames = {"target"}
  TemporaryNames = {"tmp"}
  SecretKeys = {"s", "t"}
  KnownValues <- TheKnown
  ManagedKeys <- TheManaged
  MaxScanDepth = 2
  MaxCandidates = 5
  NoProject = NoProject
CONSTRAINTS OneTrouble FiveEvents OneDown
INVARIANTS
  CatalogsAreValid
  
  
PROPERTIES
  
  ChangesAreRevealed
CHECK_DEADLOCK FALSE
