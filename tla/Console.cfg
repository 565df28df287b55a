SPECIFICATION Spec
CONSTANTS
  NULL = NULL
  Proc = {p1}
  INPUT_BUF_SIZE = 2
  UART_TX_BUF_SIZE = 2
  UINT = 4
  UINT64 = 4
  FIFO = 2
  MaxTyped = 1
  Counts = {2}
  Lengths = {2}
INVARIANTS NoLostWakeup
PROPERTIES ConsoleIsTty WriteEnds
CHECK_DEADLOCK FALSE
