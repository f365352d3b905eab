SPECIFICATION Spec
CONSTANTS
  Pid = {0, 1, 2}
  ENTRIES = 4
  EKERNEL = 2
  strampoline = 0
  MEMORY_END = 52
  STACK_PAGES = 1
  QUEUE_PAGES = 2
  Program <- MCProgram
  Word <- MCWord
  MaxOps = 5
INVARIANTS FramesExact UserSpaceExact KernelSpaceExact TrapContextOwn PanicsOnlyWhenFull
PROPERTIES ImplementsAddressSpaces WritesOwnedFrames
