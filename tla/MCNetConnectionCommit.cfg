SPECIFICATION ConnectionSpec
CONSTANTS
  Work = {w1, w2}
  AutoDefault = TRUE
PROPERTY CommitEndsTransaction
