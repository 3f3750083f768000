SPECIFICATION SessionSpec
CONSTANTS
    Devices <- MCDevices
    NoTarget = NoTarget
    MaxRuns = 2
    MaxEvents = 1
    MaxScans = 1
    MaxFaults = 1
INVARIANTS
  ConfirmedSerialExecutes
  ScreenFollowsTheJournal
PROPERTIES
  EvaluationIsShown
