SPECIFICATION FairSpec
CONSTANTS
  a1 = a1
  a2 = a2
  a3 = a3
  p = p
  q = q
  r = r
  None = None
  Actors <- MCActors
  PidOf <- Threads
  Modes = {"Dead"}
  HasBootId = TRUE
  ReadsFail = TRUE
  MaxBoot = 1
INVARIANTS
  ExclusiveUnlessMistaken
PROPERTIES
  AttemptsEnd
