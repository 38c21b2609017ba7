SPECIFICATION Spec
CONSTANTS
  service = service
  cli = cli
  loop = loop
  web = web
  command = command
  p1 = p1
  p2 = p2
  None = None
  Service = service
  Loop = loop
  Process = {service}
  Task = {loop, web}
  ProcessOf <- WebProcessOf
  Operations <- UnpairOperations
  Events = {"age", "revoke", "lapse"}
  StartPaired = TRUE
  DiskFaults = TRUE
  Posts = {p1}
  MaxRequests = 1
  MaxCredentials = 2
  MaxCrashes = 1
  MaxQueue = 2
  MaxBytes = 3
  Widths = {1, 2}
  MaxClock = 3
  MaxDropped = 3
INVARIANTS HeadAcceptable OldestFirst ConnectionWhole QueueBounded
PROPERTIES NoSilentLoss OverlapKept AuthorityRetained
