SPECIFICATION Spec
CONSTANTS
  MAX_WINDOW = 3
  Window = 2
  FrameLen = {1, 2}
  ShmSize = 6
  BogusLimit = 1
  WithReset = TRUE
  MaxLen = 2
  MaxFrames = 4
INVARIANTS IInv RingFits CountsAgree Transmitting HalfDuplex TxRegisters
PROPERTY InOrder
