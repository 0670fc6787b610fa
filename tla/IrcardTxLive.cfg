SPECIFICATION FairSpec
CONSTANTS
  MAX_WINDOW = 3
  Window = 2
  FrameLen = {1}
  ShmSize = 3
  BogusLimit = 1
  WithReset = FALSE
  MaxFrames = 3
PROPERTIES Drains ListensAgain
