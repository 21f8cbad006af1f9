\* Requests of every kind, cut by recv() anywhere but within the blank line.
CONSTANTS
  Symbols <- MCSymbols
  Number <- MCNumber
  BufSize = 64
  HeaderArraySize = 5
  HeaderArrayMax = 20
  OtherVersions <- MCOtherVersions
  Conversations <- MCConversations
  BlankLineCut = FALSE
SPECIFICATION Spec
INVARIANTS ParserTypeOK BodyWithin OutcomesMatch NextRequestIntact WaitsForMissing
CHECK_DEADLOCK FALSE
