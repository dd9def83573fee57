SPECIFICATION Spec
CONSTANTS
  p1 = p1
  p2 = p2
  c1 = c1
  c2 = c2
  c3 = c3
  c4 = c4
  Pods = {p1, p2}
  Conns = {c1, c2, c3}
  PodOf <- Near
  MaxGenerations = 2
  MaxRooms = 3
  MaxStalls = 1
  MaxSlowJoins = 1
  MaxErrors = 1
  MaxDrains = 1
  None = None
SYMMETRY Sym
CONSTRAINT FewFaults
CHECK_DEADLOCK FALSE
INVARIANTS
  TypeOK
  RegistryLive
  OneRenewer
  OnlyLateLose
  DrainedPodIsQuiet
