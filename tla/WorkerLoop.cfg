\* Two sessions, the second allocated on demand; one deadline step.
CONSTANTS
  MaxSessions = 2
  InitSessions = 1
  IncreSessions = 2
  Timeout = 1
  Input = {"full"}
  HashSize = 2
  MaxBacklog = 1
  MaxRelog = 1
  ErrorAlone = TRUE
SPECIFICATION Spec
INVARIANTS TypeOK EachSessionInOnePlace CountersAgree SocketsMatchSessions ExitIsDrained
PROPERTIES NoAcceptAfterExit ContractBrokenBySweepOnly
CHECK_DEADLOCK FALSE
