SPECIFICATION FairSpec
CONSTANTS
  Versions <- MCVersions
  Answers <- MCAnswers
  Modes <- MCModes
  MaxFaults = 1
INVARIANTS TypeOK ReadsBack RoundTrip Legal UpToDate AsksOnlyNew
PROPERTIES TouchedBefore Kept Ends
