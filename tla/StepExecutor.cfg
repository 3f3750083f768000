SPECIFICATION FairSpec
CONSTANTS
    Plan <- WholePlan
    MaxBurst = 1
    MaxControls = 1
INVARIANTS
  AttemptsNeverExhausted
  FramesAreOnDisk
  SavedActionsCoverInputs
PROPERTIES
  DisciplineHolds
  Terminates
