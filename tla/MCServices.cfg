CONSTANTS
  Kinds = {"webview"}
  Panes = {p1}
  Exits <- MCExits
  MaxRetries = 2
  CdpAttempts = 2
  Base = 200
  Cap = 300
  Factor = 2
  MaxFailures = 3
  Shells = {p1, p2}
  Noise <- MCNoise
  Requests <- MCRequests
  MaxPending = 6
  MaxItems = 3
  Clients = {c1}
  Scripts <- MCScripts
  Addresses <- MCAddresses
  MaxSessions = 2
  NotText = 255
  TokenKinds = {"key", "auth", "bearer", "word", "colon", "space", "quote", "comma", "semi", "eol", "pem", "cert", "end", "home"}
  MaxTokens = 4
  KeepFiles = 2
  MaxAge = 2
  LastDay = 3
  Workspaces = {w1}
  Panels = {q1, q2}
  Values = {v1, v2}
  ScanOutput <- MCScanOutput
  Checkouts <- MCCheckouts
  LogTailMax = 2
  MaxLines = 3
  Unset = Unset
  Platform = "linux"
  Roots <- MCRoots
  DomainSets <- MCDomainSets
  Holds <- MCHolds
  EpochDelta = 10
  PerMs = 2
  SessionPanes <- MCSessionPanes
  Commands = {"make"}
  NoCommand = "nothing"
  MaxSaves = 2
SPECIFICATION ServicesSpec
INVARIANTS RecoverySound DownIsAccounted
INVARIANTS DeliveredAsBuilt ProxyKeepsItsWord  RowsShowTheLatest ImportedAsStored
PROPERTIES BudgetsKept
PROPERTIES SweepKeepsTheNewest StartsAsSaved
CONSTRAINT ScansApart
CHECK_DEADLOCK FALSE
