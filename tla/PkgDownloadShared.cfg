CONSTANTS
  Builder = {b1, b2}
  PrimarySites = {"none", "scp", "wget"}
  SiteMethods = {"wget", "scp", "file", "bzr", "git", "hg", "svn"}
  Chunks = 2
SPECIFICATION Spec
CHECK_DEADLOCK FALSE
INVARIANTS
  QuietIsWhole
