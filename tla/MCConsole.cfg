\* Two readers; the indices wrap around after two rounds of the buffer.
CONSTANTS
  r1 = r1 r2 = r2 Intr = Intr None = None
  Readers = {r1, r2}
  Keys = {"a", "nl", "cr", "eof", "bs", "kill", "list", "nul"}
  INPUT_BUF = 3
  WRAP = 6
  Lengths = {2}
  Killable = {r1}
SPECIFICATION FairSpec
PROPERTIES IsTerminal ReadEnds
