SPECIFICATION Spec
CONSTANTS
    MaxMicro = 2
    MaxRetries = 1
INVARIANTS
  ContinueIsEarned
  InputContinuesOnEditableEvidence
CHECK_DEADLOCK FALSE
