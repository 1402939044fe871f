SPECIFICATION FairSpec
CONSTANTS
  Positions = {1, 2}
  MaxVersion = 2
  TearsAtNewline = FALSE
INVARIANTS
  SettledIsOnFile
  NothingForgotten
  ClosedWhole
PROPERTIES
  EventuallySaved
