CONSTANTS
  p1 = p1
  
  NoPane = NoPane
  Eof = Eof
  Panes <- MCPanes
  Cap = 1
  SizeCap = 2
  PipeCap = 2
  MaxSpawns = 1
  MaxOut = 4
  High = 3
  Low = 1
SPECIFICATION FairFlowSpec
PROPERTY DisposeFreesSlot
CHECK_DEADLOCK FALSE
