CONSTANTS
  a = a
  b = b
  c = c
  Panels <- MCPanels
  Printing <- MCPrinting
  Positions <- MCPositions
  MaxPanes = 3
  MaxCalls = 1
  MaxEvents = 1
  None = None
  NoReply = NoReply
SPECIFICATION Spec
INVARIANTS LayoutSound RingSettles
PROPERTIES OthersStay
SYMMETRY Silent
