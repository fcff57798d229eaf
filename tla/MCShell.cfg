\* Deadlock is not checked: the system stops when init cannot fork.
CONSTANTS
  Words = {"a"}
  MAXARGS = 3
  NPROC = 7
  NOFILE = 8
  Input <- MCInput
SPECIFICATION FairSpec
CHECK_DEADLOCK FALSE
INVARIANTS ForegroundDone ProgramFiles
PROPERTIES ParsesLine PromptReturns
