SPECIFICATION Spec
CONSTANTS
  MAX_WINDOW = 3
  Window = 2
  FrameLen = {1, 2}
  ShmSize = 6
  BogusLimit = 1
  WithReset = FALSE
  MaxFrames = 4
INVARIANT SafeToChangeSpeed
