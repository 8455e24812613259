SPECIFICATION Spec
CONSTANTS
  Builds = {"ansi", "legacy"}
  Layouts <- MCLayouts
  GraphLen = 2
  Keys = {"pause", "cycle", "quit"}
  MaxTicks = 3
INVARIANTS TypeOK FrameWhole GraphInOrder
PROPERTIES FramesNeverGoBack PressesServed QuitEndsBoth
