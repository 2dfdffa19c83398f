SPECIFICATION ParsingSpec
CONSTANTS
  Files <- MCFiles
  Reads = {1, 2, 7}
  MaxRestarts = 1
  ReadChunk = 3
  GuardZone = 3
  Pooled = {0, 8}
  Signatures = {2, 5, 6, 9, 13}
  SigSlots = 4
  GenLimit = 4
  MaxNames = 4
  Texts <- MCTexts
  Date <- MCDate
  UintMax = 70
  Statements <- MCStatements
  ListDepth = 3
INVARIANT EmittedAreEvents
INVARIANT NoEventMissed
INVARIANT ScanIsSplit
INVARIANT TableHoldsEvent
INVARIANT QuotingUndone
INVARIANT NoKeyTwice
INVARIANT ReplayIsDirect
INVARIANT RepeatsKept
INVARIANT NormIsKey
INVARIANT ValuesAreParams
CHECK_DEADLOCK FALSE
