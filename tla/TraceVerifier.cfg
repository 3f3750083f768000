SPECIFICATION VerifierSpec
CONSTANT MaxCompiles = 2
CHECK_DEADLOCK FALSE
INVARIANTS
  PassIsEarned
  ActionFactsDecide
PROPERTIES
  FrozenContractStands
