SPECIFICATION Spec
CONSTANTS
  Conns = {c1}
  Ports = {80}
  Configs <- MCBoundConfigs
  MaxGenerations = 3
  Fds = {3, 4}
  ForkFails = {}
  Patient = TRUE
CHECK_DEADLOCK FALSE
INVARIANT SameConfigStarts
