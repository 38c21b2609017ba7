\* An update of a stopped service, a start, and a rollback: the old version does not run.
SPECIFICATION Spec
CONSTANTS
  v1 = v1
  v2 = v2
  bad = bad
  u1 = u1
  u2 = u2
  None = None
  Version = {v1, v2, bad}
  Healthy = {v1, v2}
  Unit = {u1, u2}
  MaxInterrupts = 0
PROPERTY RollbackRestores
