SPECIFICATION Spec
CONSTANTS
  Channel = {c1, c2}
  Agent = {a1, a2}
  None = None
  DropMode = TRUE
  Handling = "owner_interrupt"
  InitialMessage = FALSE
  Heartbeats = TRUE
  LoopTimers = TRUE
  MaxPending = 2
  MaxBatch = 2
  MaxRetries = 1
  BaseRetryDelay = 1
  MaxRetryDelay = 2
  MaxTurn = 1
  DeadlineBuffer = 1
  MaintInterval = 1
  CircuitThreshold = 2
  MaxEvents = 3
  CreatedAt = {1}
  MaxControls = 1
  MaxMoves = 0
SYMMETRY Sym
INVARIANTS
  NothingLost
  OneAgentPerSlot
  HeartbeatFlag
CHECK_DEADLOCK FALSE
