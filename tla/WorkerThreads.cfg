\* Two connections or two burn tests, two frames, two signals under way, and a
\* socket of its own to send from.
SPECIFICATION Spec
CONSTANTS
  MaxSends = 2
  MaxPosted = 2
  MaxWorkers = 2
  SplitPorts = TRUE
  MaxRuns = 2
  MaxRows = 2
  None = None
INVARIANTS
  PortIsFree
  RowsSound
  FramesAccounted
  LogIsComplete
PROPERTIES
  NothingLingers
\* The operator may stop using the program.
CHECK_DEADLOCK FALSE
