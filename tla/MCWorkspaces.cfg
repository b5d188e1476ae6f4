CONSTANTS
  a = a
  b = b
  c = c
  drag = drag
  step = step
  NoId = NoId
  Ids <- MCIds
  Gestures <- MCGestures
SPECIFICATION Spec
INVARIANTS RowsSound
PROPERTIES RowsMoveAsAsked
CHECK_DEADLOCK FALSE
