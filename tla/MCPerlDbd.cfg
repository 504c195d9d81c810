SPECIFICATION PerlSpec
CONSTANTS
  Work = {w1, w2}
  Sth = {s1, s2}
  MaxExec = 2
SYMMETRY Symmetry
INVARIANTS
  PerlTypeOK
  ResultIsCurrent
  SessionFollowsHandle
  StatementsAreClosed
PROPERTY ImplementsContract
CHECK_DEADLOCK FALSE
