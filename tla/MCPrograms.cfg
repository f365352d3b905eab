SPECIFICATION ProgramsSpec
CONSTANTS
  Task = {init, t1, t2, t3}
  INITPROC = init
  None = None
  ExitCode = {0}
  Tests <- MCTests
  MaxLine = 1
ACTION_CONSTRAINT SameHeap
INVARIANTS
  WaitsForOwnChild
PROPERTIES
  ZombieReaped
  ReadyRuns
