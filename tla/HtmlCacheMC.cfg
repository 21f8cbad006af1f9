\* Three paths to one file, whose entries share a watch descriptor, and a
\* directory.
CONSTANTS
  home = home
  alias = alias
  third = third
  dir = dir
  homeFile = homeFile
  Paths <- MCPaths
  Files = {homeFile}
  FileOf <- MCFileOf
  Dir = dir
  Index <- MCIndex
  OthersHold = TRUE
  MaxChanges = 2
SPECIFICATION FairSpec
INVARIANTS TypeOK TreesAgree NoMissedChange NoIdleWatch
PROPERTY ChangesReachCache
