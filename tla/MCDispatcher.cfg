SPECIFICATION MCSpec
CONSTANTS
  Total = 5
  Walks <- MCWalks
  BatchSize = 2
INVARIANTS
  EmittedOnce
  TallyAddsUp
  WalkedWhole
PROPERTIES
  WalkEnds
CONSTRAINT MCBound
CHECK_DEADLOCK FALSE
