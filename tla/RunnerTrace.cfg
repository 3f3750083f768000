SPECIFICATION Spec
CONSTANTS
    MaxTasks = 2
    MaxSteps = 2
    Capacity = 1
    MaxErrors = 1
CHECK_DEADLOCK FALSE
INVARIANTS
  EventsInOrder
  InputIsAimed
PROPERTIES
  SavedRunIsFinalized
