CONSTANTS
  Builder = {b1}
  PrimarySites = {"none", "wget"}
  SiteMethods = {"wget"}
  Chunks = 6
SPECIFICATION LiveSpec
CHECK_DEADLOCK FALSE
INVARIANTS
  TypeOK
PROPERTIES
  AppearsWhole
  Succeeds
