SPECIFICATION Spec
CONSTANTS
  UART_TX_BUFFER_SIZE = 3
  UART_RX_BUFFER_SIZE = 2
  FifoDepth = 2
  FifoLevel = 1
  Texts <- MCTexts
  Inputs <- MCInputs
  LineLen = 3
  MaxCalls = 2
INVARIANTS
  BytesInOrder
  ScreenShowsLine
PROPERTIES
  RingDrains
CHECK_DEADLOCK FALSE
