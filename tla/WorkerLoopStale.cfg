CONSTANTS
  MaxSessions = 2
  InitSessions = 1
  IncreSessions = 2
  Timeout = 1
  Input = {"part", "full", "more", "bad"}
  HashSize = 2
  MaxBacklog = 1
  MaxRelog = 1
  ErrorAlone = FALSE
SPECIFICATION Spec
INVARIANT NeverReleasedTwice
CHECK_DEADLOCK FALSE
