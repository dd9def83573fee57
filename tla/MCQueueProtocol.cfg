SPECIFICATION Spec
CONSTANTS
  Channel = {c1, c2}
  None = None
  DropMode = FALSE
  MaxPending = 2
  MaxBatch = 2
  MaxRetries = 1
  BaseRetryDelay = 1
  MaxRetryDelay = 2
  MaxTurn = 1
  DeadlineBuffer = 1
  MaxEvents = 3
  CreatedAt <- Stamps
SYMMETRY Sym
INVARIANTS
  TypeOK
  WithinCap
  InFlightHasDeadline
  ReasonForCancelled
  OnePlace
  SettledIsGone
  OnlyInterruptedLost
PROPERTIES
  RetryAccounting
  Implements
