SPECIFICATION Spec
CONSTANTS
  Conns = {c1, c2}
  Ports = {80, 81, 82}
  Configs <- MCConfigs
  MaxGenerations = 3
  Fds = {3, 4, 5}
  ForkFails = {"sig_proc", "daemon"}
  Patient = TRUE
CHECK_DEADLOCK FALSE
INVARIANTS HandoverTypeOK HoldsItsOwn
PROPERTIES IsListenService
