\* The whole session with one chunk and one single shot, and uploads of up to
\* three chunks with two single shots pending.
SPECIFICATION ScopedSpec
CONSTANTS
  NumQtrm = 2
  MaxChunks = 3
  MaxAnnounces = 2
INVARIANTS
  TypeOK
  LockMatchesSession
  TimerMatchesOp
  TabMirrorsController
  StepOneTargetHeld
PROPERTIES
  SessionsEnd
  StreamIsAckDriven
