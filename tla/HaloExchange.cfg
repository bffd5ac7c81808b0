CONSTANTS
  nprocs = 3
  Owned <- MCOwned
  Halo <- MCHalo
  Layers <- MCLayers
  Inner <- MCInner
  Program <- MCProgram
SPECIFICATION Spec
INVARIANTS HaloIsCurrent MessagesFitReceives
PROPERTIES UpdatesHalo Terminates
CHECK_DEADLOCK FALSE
