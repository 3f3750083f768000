\* The single-operator studies and the double-blind review.
SPECIFICATION Spec
CONSTANTS
  r1 = r1
  r2 = r2
  alice = alice
  bob = bob
  carol = carol
  None = None
  Nobody = Nobody
  Disposition = "RETIRED"
  MaxTouches = 1
  MaxReceipts = 2
  MaxTruths = 2
  MaxReports = 1
  MaxReruns = 1
  Runs <- MCRuns
  Studies <- MCStudies
  TaskOrdinal <- MCTaskOrdinal
  Manifests <- MCManifests
  Probes <- MCProbes
  Reviews <- MCReviews
  Actions <- MCActions
  Reviewers <- MCReviewers
  LiveArms <- MCLiveArms
SYMMETRY MCSymmetry
INVARIANTS
  TruthIsOfAFinishedRun
  ReportsAreOfReviewedRuns
  HumanVerdictIsIndependent
CHECK_DEADLOCK FALSE
