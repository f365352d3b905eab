SPECIFICATION FilesSpec
CONSTANTS
  Task = {init, t1}
  INITPROC = init
  None = None
  ExitCode = {0}
  Handle = {h1, h2}
  Name = {a}
  Flags <- MCFlags
  Fd = {1, 3, 4}
  Shapes <- MCShapes
  MaxSize = 6
  MaxOps = 4
SYMMETRY Addresses
PROPERTIES
  FilesImplementStore
  SameOpenNeverOverwrites
  OffsetMovesByResult
  TablesPrivate
