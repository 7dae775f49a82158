SPECIFICATION Spec
CONSTANTS
  Routes = {"forward", "reverse_local", "relay"}
  Openers = {"waits", "eager"}
  MaxUp = 3
  MaxDown = 2
  MaxPending = 2
  Faults = {"tunnel", "idle"}
INVARIANT EarlyDataInOrder
CHECK_DEADLOCK FALSE
