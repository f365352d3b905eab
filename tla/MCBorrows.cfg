SPECIFICATION BorrowsSpec
CONSTANTS
  Task = {init, t1, t2}
  INITPROC = init
  None = None
  ExitCode = {0}
SYMMETRY Addresses
INVARIANT NoDoubleBorrow
