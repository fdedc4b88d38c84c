CONSTANTS
  Pkg = {"host-tool", "app"}
  Host = {"host-tool"}
  Override = {"app"}
  Staging = {"app"}
  Target = {"app"}
  Images = {}
  Deps <- PairDeps
  Selected <- PairSelected
  NPatches <- PairPatches
  Goals <- PairGoals
  Breakable <- HalfDone
  UserRemoves = {}
  MaxVersion <- PairVersions
SPECIFICATION Spec
INVARIANTS
  TypeOK
  InstalledFilesExist
  ConfigureSeesDeps
  WalkInvariant
PROPERTIES
  StepsInOrder
  SuccessIsComplete
  RebuildInstallsCurrent
