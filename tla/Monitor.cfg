\* Two workers, so that one may hold the other's pipe.
CONSTANTS
  N = 2
  MaxCrashes = 2
  MaxSignals = 3
  Failures = TRUE
SPECIFICATION FairSpec
INVARIANTS TypeOK CountsWorkers RunningHoldsNothing NoOrphans ExitClosesPipes
PROPERTIES CrashedIsReplaced ExitEnds FailureEndsWorkers
CHECK_DEADLOCK FALSE
