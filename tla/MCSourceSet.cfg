CONSTANTS
  TargetPkg = {"app"}
  HostPkg = {"host-a", "host-b", "host-c"}
  Rank <- SmallRank
SPECIFICATION Spec
CHECK_DEADLOCK FALSE
INVARIANTS
  NothingSpurious
PROPERTIES
  OneLevelBuildSucceeds
