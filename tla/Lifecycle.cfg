\* Every command, every failing call, one interruption.
SPECIFICATION Spec
CONSTANTS
  v1 = v1
  v2 = v2
  bad = bad
  u1 = u1
  u2 = u2
  None = None
  Version = {v1, v2, bad}
  Healthy = {v1, v2}
  Unit = {u1, u2}
  MaxInterrupts = 1
INVARIANT TypeOK
PROPERTIES InstallTransactional UpdateAllOrNothing RollbackRestarts
SYMMETRY Symmetric
