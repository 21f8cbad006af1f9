\* One TERM, nothing fails and every process is scheduled.
CONSTANTS
  N = 2
  MaxCrashes = 1
  MaxSignals = 1
  Failures = FALSE
SPECIFICATION FairSpec
PROPERTY TermEnds
CHECK_DEADLOCK FALSE
