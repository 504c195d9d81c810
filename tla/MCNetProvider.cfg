SPECIFICATION ProviderSpec
CONSTANTS
  Work = {w1, w2}
  AutoDefault = TRUE
  Reader = {r1}
  Result = {x1, x2}
  NULL = NULL
INVARIANTS
  ProviderTypeOK
  PlainWorkIsDurable
  TransactionIsIsolated
  ResultsHaveOneOwner
  ClosedReadersAreSafe
PROPERTIES
  CloseDiscards
  AbandonedIsDisconnected
CHECK_DEADLOCK FALSE
