SPECIFICATION Spec
CONSTANTS
  Channel = {c1}
  Agent = {a1, a2}
  None = None
  DropMode = FALSE
  Handling = "queue"
  InitialMessage = TRUE
  Heartbeats = FALSE
  LoopTimers = TRUE
  MaxPending = 2
  MaxBatch = 2
  MaxRetries = 1
  BaseRetryDelay = 1
  MaxRetryDelay = 2
  MaxTurn = 1
  DeadlineBuffer = 1
  MaintInterval = 1
  CircuitThreshold = 2
  MaxEvents = 2
  CreatedAt = {1}
  MaxControls = 0
  MaxMoves = 0
SYMMETRY Sym
INVARIANTS
  OneTurnPerChannel
CHECK_DEADLOCK FALSE
