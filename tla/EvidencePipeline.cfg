SPECIFICATION PipelineSpec
CONSTANTS
    i1 = i1
    i2 = i2
    i3 = i3
    NoImage = NoImage
    NoParent = NoParent
    NoPlan = NoPlan
    NoManifest = NoManifest
    NoReceipt = NoReceipt
    NoReport = NoReport
    MaxJobsPerShard = 1
    MaxAttempts = 2
    Budgets = {4}
    MaxSessions = 2
    Repositories <- MCRepositories
    Replies <- MCReplies
    MayBeHeldOut <- MCMayBeHeldOut
CHECK_DEADLOCK FALSE
INVARIANTS
  PassIsWitnessed
  ReceiptTellsTheCache
  HeldoutImagesStayOut
