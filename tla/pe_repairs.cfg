SPECIFICATION Spec
CONSTANTS
  Dilate = 1
  Feather = 2
  Margin = 10
  Videos = 2
  Frames = 3
  Hold = 2
  Tolerance = 1
  Sizes = {20, 24, 64}
  Levels = {0, 1, 2}
  Env = {"each", "preset", "box", "unblend", "grow"}
  Boxes <- MCBoxes
  NoBox = NoBox
  NoPreset = NoPreset
  NoRegion = NoRegion
  NoPatch = NoPatch
  NoEngine = NoEngine
CHECK_DEADLOCK FALSE
INVARIANT Repaired
INVARIANT OwnMemory
