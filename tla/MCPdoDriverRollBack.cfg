SPECIFICATION DriverSpec
CONSTANTS
  Work = {w1, w2}
  AutoDefault = TRUE
  Stmt = {s1}
  Obj = {o1, o2}
  NULL = NULL
PROPERTY RollBackUndoes
CHECK_DEADLOCK FALSE
