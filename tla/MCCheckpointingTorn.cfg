SPECIFICATION Spec
CONSTANTS
  Positions = {1, 2}
  MaxVersion = 2
  TearsAtNewline = TRUE
INVARIANTS
  SettledIsOnFile
