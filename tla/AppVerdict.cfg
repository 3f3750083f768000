CONSTANTS
    Routes <- MCRoutes
    MaxSteps = 2
    RetryBudget = 1
    BurstLength = 2
    Screens <- VisitScreens
    ExpectedOffsets = {1}
    TestCases <- MCTestCases
    Executions <- MCExecutions
    LegacyAnswers = {"NONE", "VIOLATED"}
    VisionAnswers = {"OFF", "VISIBLE"}
SPECIFICATION VerdictSpec
INVARIANTS
  SufficientMeansSeen
  AbsenceNeedsTheWindow
  CompletedFollowsContract
PROPERTIES
  PromiseHolds
