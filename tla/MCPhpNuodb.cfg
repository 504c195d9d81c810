SPECIFICATION PhpSpec
CONSTANTS
  Hash = {h1, h2}
  Conn = {c1, c2}
  Res = {r1, r2, r3, r4}
  NULL = NULL
SYMMETRY PhpSymmetry
INVARIANTS
  PhpTypeOK
  MapIsExact
  ConnectionsAreFound
  DefaultIsLive
  OneResultIsSafe
CHECK_DEADLOCK FALSE
