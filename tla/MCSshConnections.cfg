CONSTANTS
  ws = ws
  k1 = k1
  k2 = k2
  NoId = NoId
  NoKey = NoKey
  Ids <- MCIds
  HostKeys <- MCHostKeys
  MaxAttempts = 2
  MaxCalls = 2
  MaxDrops = 2
  MaxKeyChanges = 1
SPECIFICATION FairSpec
INVARIANTS SupervisionSound ConnectedUsesCurrentSession ReconnectKeepsHostKey
PROPERTIES DropResolved
CHECK_DEADLOCK FALSE
