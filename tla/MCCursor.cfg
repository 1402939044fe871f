SPECIFICATION FairSpec
CONSTANTS
  Total <- MCTotal
  Orders <- MCOrders
  NoWalk = NoWalk
INVARIANTS
  CountExact
  SavedCountExact
  CaughtUp
PROPERTIES
  CatchUpConserves
  CatchUpReturns
  ImplementsSettledSet
