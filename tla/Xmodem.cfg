SPECIFICATION Spec
CONSTANTS
  FILE = 3
  RX_FIFO = 7
  SECTOR = 2
  PAGES = 3
  XMODEM_TIME_1SEC = 2
  TRIES = 2
  MaxLosses = 1
  MaxResends = 1
INVARIANTS TypeOK CleanInOrder FlashHoldsAccepted AcceptedAccounted ChipObeys
PROPERTY CleanCompletes
