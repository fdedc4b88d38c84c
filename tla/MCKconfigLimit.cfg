SPECIFICATION Spec
CONSTANTS
  Versions <- LimitVersions
  Answers <- MCAnswers
  Modes <- LimitModes
  MaxFaults = 0
INVARIANTS NothingNew
