\* One session, everything a peer may send, and fairness.
CONSTANTS
  MaxSessions = 1
  InitSessions = 1
  IncreSessions = 1
  Timeout = 1
  Input = {"part", "full", "more", "bad"}
  HashSize = 2
  MaxBacklog = 1
  MaxRelog = 1
  ErrorAlone = TRUE
SPECIFICATION FairSpec
INVARIANT ReplyArmed
PROPERTIES TimeoutReclaims DrainsUnlessBusy
CHECK_DEADLOCK FALSE
