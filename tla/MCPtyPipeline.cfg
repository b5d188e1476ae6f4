CONSTANTS
  p1 = p1
  p2 = p2
  NoPane = NoPane
  Eof = Eof
  Panes <- MCPanes
  Cap = 1
  SizeCap = 2
  PipeCap = 1
  MaxSpawns = 2
  MaxOut = 2
SPECIFICATION FairSpec
INVARIANTS SlotAccounting OutputFaithful NothingAfterEof
CHECK_DEADLOCK FALSE
PROPERTIES DeadShellFreesSlot ClosedEntryFinalised
CONSTRAINT FirstPane
