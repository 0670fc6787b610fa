SPECIFICATION Spec
CONSTANTS
  Programs = {"capture"}
  Files = 2
  MaxSize = 3
  MaxChange = 1
  BufLen = 2
  Cap = 2
  Batch = TRUE
  Options <- MCOptions
  FrameSize = 2
  SockCap = 1
  MaxFds = 2
  MaxKeys = 2
  MaxDowns = 1
  MaxUnread = 2
  MaxFrames = 3
  MaxShort = 1
  MaxTime = 5
  Second = 2
INVARIANT ReadBack
CHECK_DEADLOCK FALSE
