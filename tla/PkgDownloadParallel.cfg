CONSTANTS
  Builder = {b1, b2}
  PrimarySites = {"none"}
  SiteMethods = {"wget"}
  Chunks = 2
SPECIFICATION Spec
CHECK_DEADLOCK FALSE
INVARIANTS
  DownloadedIsWhole
