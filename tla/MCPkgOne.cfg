CONSTANTS
  Pkg = {"app"}
  Host = {}
  Override = {}
  Staging = {}
  Target = {}
  Images = {"app"}
  Deps <- OneDeps
  Selected <- OneSelected
  NPatches <- OnePatches
  Goals <- OneGoals
  Breakable <- HalfRemoved
  UserRemoves = {"patched"}
  MaxVersion <- OneVersions
SPECIFICATION LiveSpec
INVARIANTS
  PatchedOnce
  InstalledIsBuilt
PROPERTIES
  BrokenPatchSticks
  Recovers
