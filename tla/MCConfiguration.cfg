CONSTANTS
  Actions <- MCActions
  Typed <- MCTyped
  DefaultChord <- MCDefaultChord
  Layouts <- MCLayouts
  DefaultLayout <- MCDefaultLayout
  Commands <- MCCommands
  NoFile = NoFile
  Torn = Torn
  Closed = Closed
  Loading = Loading
  MaxQueue = 2
SPECIFICATION Spec
INVARIANTS CrashSafe MemoryOnDisk GateHolds
PROPERTIES NewerConfigUntouched
CONSTRAINT OneAtATime
