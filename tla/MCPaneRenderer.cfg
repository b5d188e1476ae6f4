CONSTANTS
  a = a
  b = b
  c = c
  e1 = e1
  e2 = e2
  e3 = e3
  e4 = e4
  Panels <- MCPanels
  Printing <- MCPrinting
  Positions <- MCPositions
  Elements <- MCElements
  MaxPanes = 3
  None = None
SPECIFICATION RendererSpec
INVARIANT DrawnAsLaidOut
PROPERTY RendererImplementsPanes
SYMMETRY Alike
