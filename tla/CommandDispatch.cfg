\* One command of each shape, two QTRMs, two frames in the event queue.
SPECIFICATION FairSpec
CONSTANTS
  Kinds <- MCKinds
  AutoKinds <- MCAutoKinds
  EarlyKinds <- MCEarlyKinds
  TargetKinds <- MCTargetKinds
  BareKinds <- MCBareKinds
  QTRM = {q0, q1}
  None = None
  MaxPosted = 2
INVARIANTS
  TypeOK
  WatchdogMatches
  TargetLatched
  SessionHoldsLock
  VerdictIsEarned
  LogFollowsRun
PROPERTIES
  NoStealing
  WaitsEnd
