SPECIFICATION Spec
CONSTANTS
  a1 = a1
  a2 = a2
  a3 = a3
  p = p
  q = q
  r = r
  None = None
  Actors <- MCActors
  PidOf <- Apart
  Modes = {"Dead"}
  HasBootId = TRUE
  ReadsFail = FALSE
  MaxBoot = 1
INVARIANTS
  MutualExclusion
