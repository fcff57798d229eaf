\* Main and the handler may arm, shorten and disarm the alarm.
CONSTANTS
  Harts = {0, 1}
  Words = {0, 1}
  Intervals = {0, 1, 3}
  MAXDEPTH = 2
SPECIFICATION FairSpec
INVARIANTS HartidFresh NoReentry AlarmOnTime
PROPERTIES ContextRestored AlarmRepeats
