SPECIFICATION Spec
CONSTANTS
  Task = {init, t1, t2, t3}
  INITPROC = init
  None = None
  ExitCode = {0, 7}
SYMMETRY Addresses
INVARIANTS
  NoPanic
  SchedulerExact
  FamilyTree
  PidsExact
  PidsConserved
PROPERTIES
  StackOutlivesExit
  ZombieUntilReaped
  ChildrenGrowByFork
