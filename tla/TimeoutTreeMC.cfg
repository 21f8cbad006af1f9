SPECIFICATION Spec
CONSTANTS
  Session = {s1, s2, s3, s4, s5, s6}
  Stamp = {1, 2, 3, 4}
  Null = Null
SYMMETRY Sessions
INVARIANTS TreeTypeOK RedBlack WalksAgree ExpiryExact
PROPERTIES IsTimeoutQueue
