SPECIFICATION Spec
CONSTANTS
  Keys = {"b", "c"}
  CR = "CR"
  NUL = "NUL"
  Words <- MCWords
  UART_BUF_SIZE = 4
  RX_FIFO = 3
  MaxKeys = 7
INVARIANTS ExecutesTyped PagesArrive
PROPERTY PollEnds
