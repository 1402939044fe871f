SPECIFICATION ForeignSpec
CONSTANTS
  Total <- MCTotal
  Orders <- MCOrders
  NoWalk = NoWalk
  MARKED_AT_MOST = 2
INVARIANTS
  CaughtUp
  ResumeAsksWhatIsLeft
  BothWaysAgree
  IndexReadsTheOrderBack
PROPERTIES
  ResumeReadsTheFile
