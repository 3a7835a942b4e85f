SPECIFICATION Spec
CONSTANTS
  Kinds <- MCKinds
  AutoKinds <- MCAutoKinds
  EarlyKinds <- MCEarlyKinds
  TargetKinds <- MCTargetKinds
  BareKinds <- MCBareKinds
  QTRM = {q0}
  None = None
  MaxPosted = 1
INVARIANT
  SilenceIsReal
