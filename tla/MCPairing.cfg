SPECIFICATION Spec
CONSTANTS
  Source = source
  Target = {t1, t2}
  None = None
  ForeignSource = TRUE
  MaxRedelivered = 2
SYMMETRY Sym
INVARIANTS
  TypeOK
  OneApprovedImport
  CompletedTogether
PROPERTIES
  Final
CHECK_DEADLOCK FALSE
