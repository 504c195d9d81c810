SPECIFICATION DataSpec
CONSTANTS
  Letter = {"a", "b"}
  ParamName <- MCParamName
  Literal <- MCLiteral
  Bound = {v1, v2}
  MaxToken = 4
  Param = {p1, p2, p3}
  Name = {n1, n2}
  NoName = none
  Type = {"Integer"}
  Value = {"1"}
  MaxList = 3
  Whole <- MCWhole
  ShortHalf = 1
  IntHalf = 3
  Res = {r1, r2}
  MaxRow = 3
  MaxConn = 2
INVARIANTS
  NamesFindTheirPlace
  NamesAreUnique
  ValuesSurvive
  NodeRowsAreOwned
CHECK_DEADLOCK FALSE
