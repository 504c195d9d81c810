SPECIFICATION AdapterSpec
CONSTANTS
  Work = {w1, w2}
  Stmt = {s1, s2, s3, s4}
  Key = {pid, q1, q2}
  MaxPool = 2
INVARIANT OutsideWorkIsDurable
CHECK_DEADLOCK FALSE
