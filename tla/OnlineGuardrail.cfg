SPECIFICATION Spec
CONSTANTS
    Setups <- MCSetups
    Shows <- MCShows
    Circumstances <- MCCircumstances
INVARIANTS
  TraceGrammar
  ProtectedRegressionEndsTheRun
  AllowedDoneIsEvidenced
PROPERTIES
  NegotiationHolds
