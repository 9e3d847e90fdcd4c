SPECIFICATION MCSpec
CONSTANTS
  Clients <- MCClients
  Plans <- MCPlans
  MaxLaunches = 2
  Handlers = {"int", "term", "hup"}
  Spellings = {"s1", "s2"}
  Projects = {"p", "q"}
  BoxArgs <- MCArgs
  ManifestNames <- MCManifests
  OldDirectories <- MCOld
  ReservedNames <- MCReserved
  DeviceNames <- MCDevices
  RecipeExtension <- MCExt
  MaxNameLength = 3
  MaxBoxCommands = 2
  SetUpBoxes <- MCSetUp
  MaxRelinks = 1
  PinScripts <- MCScripts
  RecipeTexts <- MCTexts
  HostTargets <- MCTargets
  TerraPaths <- MCTerra
  BinaryPath <- MCBin
  SensitivePaths <- MCSens
  MaxVcpus = 2
  MinMemory = 1
  MaxStorageDevices = 3
  MaxEdits = 2
  MountTexts <- MCMounts
  MaxMounts = 2
  EnvTexts <- MCLines
  RecipeEnv <- MCEnv
  EnvKeys = {"K", "L"}
  MaxEnvLines = 2
  MaxSwaps = 2
  Recipes = {1, 2}
  VolumeRecipes = {1}
  MaxCommands = 2
  MaxFaults = 1
  Images <- MCImages
  NamedVolumes <- MCNamed
  BootVolumes = {"b"}
  RecipeLength = 1
  MaxRecipeLength = 2
  ReadLimit = 3
  MaxResizes = 1
INVARIANTS OneVmPerBox StampMeansBaked BoxesAreAsMade
PROPERTIES ImportIsAtomic
CHECK_DEADLOCK FALSE
