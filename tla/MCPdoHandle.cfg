SPECIFICATION HandleSpec
CONSTANTS
  Work = {w1, w2, w3}
  AutoDefault = FALSE
SYMMETRY WorkSymmetry
INVARIANTS
  HandleTypeOK
  OpenWorkSurvives
PROPERTY IdleLosesNothing
