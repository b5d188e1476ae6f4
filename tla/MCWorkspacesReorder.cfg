CONSTANTS
  a = a
  b = b
  c = c
  drag = drag
  step = step
  NoId = NoId
  Ids <- MCIds
  Gestures <- MCGestures
SPECIFICATION Spec
PROPERTY ReorderKeepsLooking
CHECK_DEADLOCK FALSE
