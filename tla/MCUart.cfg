\* One writer, whose writes together fill the ring, one hart in printf() or panic(),
\* and keys that are echoed by nothing or by several characters.  Deadlock is not
\* checked: every hart may have stopped after a panic.
CONSTANTS
  w1 = w1 p1 = p1 Intr = Intr None = None
  Writers = {w1}
  Printers = {p1}
  UART_TX_BUF_SIZE = 2
  WRAP = 4
  Lengths = {2}
  KeyEchoes = {0, 2}
CHECK_DEADLOCK FALSE
SPECIFICATION FairSpec
INVARIANTS OutputInOrder
PROPERTIES WriteEnds
