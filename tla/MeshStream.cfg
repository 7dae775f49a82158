SPECIFICATION FairSpec
CONSTANTS
  Routes = {"forward", "reverse_local", "relay"}
  Openers = {"waits", "eager"}
  MaxUp = 3
  MaxDown = 2
  MaxPending = 2
  Faults = {"tunnel", "idle"}
INVARIANT StreamInvariant
INVARIANT InOrder
INVARIANT ResponseComplete
INVARIANT NoHalfOpen
PROPERTY EndsTogether
PROPERTY PausedResumes
CHECK_DEADLOCK FALSE
