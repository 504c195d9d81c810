SPECIFICATION DriverSpec
CONSTANTS
  Work = {w1}
  AutoDefault = TRUE
  Stmt = {s1, s2}
  Obj = {o1, o2}
  NULL = NULL
SYMMETRY DriverSymmetry
INVARIANTS
  StatementTypeOK
  AcknowledgedIsDurable
  EmptyOnlyWithoutConnection
  ObjectsAreOwned
  FetchFindsResults
  CursorFlagIsExact
PROPERTY HandleSpec
CHECK_DEADLOCK FALSE
