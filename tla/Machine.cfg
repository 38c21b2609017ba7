\* Four parts side by side.
SPECIFICATION Spec
CONSTANTS
  None = None
  Missing = Missing
  Nobody = Nobody
  Bad = Bad
  Absent = Absent
  Refused = Refused
  install1 = install1
  install2 = install2
  safe = safe
  unsafe = unsafe
  old = old
  other = other
  local = local
  public = public
  p7335 = p7335
  p9000 = p9000
  r1 = r1
  r2 = r2
  agentUser = agentUser
  another = another
  Host = {local, public}
  Port = {p7335, p9000}
  DefaultHost = local
  DefaultPort = p7335
  Loopback = {local}
  Written <- WrittenAddresses
  Contents <- Files
  Installer = {install1, install2}
  Parent = {safe, unsafe}
  SafeParent = {safe}
  Found = {old, other}
  Request = {r1, r2}
  MaxIssues = 2
  MaxAdmins = 2
  MaxResets = 1
  Service = agentUser
  Other = another
  MaxRecoveries = 3
  MaxEdits = 2
SYMMETRY Symmetric
INVARIANTS TypeOK RefusalLeavesNothing RuntimeIsRecorded TokenUsedOnce KeyForTheDoor OriginalRetained FailureRestores SuccessPreserves
PROPERTIES SelectionHonoured NeverAdopts CleanupRemovesOwn Established LoopbackComesUp FirstAdministratorKept LastTokenOnly
CHECK_DEADLOCK FALSE
