SPECIFICATION ConnectionSpec
CONSTANTS
  Work = {w1, w2}
  AutoDefault = TRUE
INVARIANT RunsOnce
