SPECIFICATION HarmonySpec
CONSTANTS
    MaxCalls = 2
    MaxRequests = 2
    Kinds = {"owned", "native", "bridge", "local"}
    Cases <- OneCase
    Begins <- Continues
    Length = 2
    Contents <- ManyContents
    SavedExecutions <- SomeExecutions
INVARIANTS
  ObservationIsOfOneScreen
  ReportsAreTakenOnce
  SavedExecutionTellsItself
PROPERTIES
  CallEnds
CHECK_DEADLOCK FALSE
