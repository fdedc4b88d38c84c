SPECIFICATION Spec
CONSTANTS
  Statements <- MCFile
  Order <- MCOrder
  Text <- MCText
  Fronts = {"mconf", "nconf"}
  ConfigName = "a"
  FirstDisk <- MCFirstDisk
  Terminals = {9, 17, 21}
  Keys <- MCKeys
  NKeys <- MCNKeys
  MaxText <- MCMaxText
  FieldWidth = 2
  ListRows = 1
  HelpLines = 6
  MaxCommands = 2
  Faults = {"none", "open", "rename"}
INVARIANTS OnScreen ShownIsCurrent NothingLost
PROPERTY ActsOnHighlighted
