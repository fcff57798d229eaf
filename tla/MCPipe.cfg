\* Two readers and one writer, whose writes can be longer than the pipe; any of
\* them may be killed; the counters wrap around at 4.
CONSTANTS
  r1 = r1 r2 = r2 w1 = w1 NoProc = NoProc
  Readers = {r1, r2}
  Writers = {w1}
  PIPESIZE = 2
  WRAP = 4
  Bytes = {0, 1}
  Lengths = {1, 3}
  Killable = {r1, r2, w1}
SPECIFICATION FairSpec
INVARIANTS NoLostWakeup
PROPERTIES IsFifo WriteEnds
