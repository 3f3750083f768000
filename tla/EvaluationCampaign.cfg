SPECIFICATION CampaignSpec
CONSTANTS
    Plan <- MCPlan
    Modes <- MCModes
    Trees = {t1, t2}
    JitContracts = {j1}
    Judgements = {"correct"}
    Absent = Absent
    MaxCrashes = 2
    MaxJudgements = 1
    MaxEdits = 1
INVARIANTS
  CollectedOnce
  DecisiveVerdictsAreBound
PROPERTIES
  RowsOutliveCalls
  EvaluationCompletes
