SPECIFICATION Spec
CONSTANTS
  p1 = p1
  p2 = p2
  c1 = c1
  c2 = c2
  c3 = c3
  c4 = c4
  Pods = {p1, p2}
  Conns = {c1, c2, c4}
  PodOf <- Near
  MaxGenerations = 2
  MaxRooms = 3
  MaxStalls = 0
  MaxSlowJoins = 0
  MaxErrors = 0
  MaxDrains = 1
  None = None
SYMMETRY Sym
CHECK_DEADLOCK FALSE
INVARIANTS
  OwnerPeerWatched
