SPECIFICATION FairSpec
CONSTANTS
  service = service
  cli = cli
  loop = loop
  web = web
  command = command
  p1 = p1
  p2 = p2
  None = None
  Service = service
  Loop = loop
  Process = {service}
  Task = {loop}
  ProcessOf <- LoopProcessOf
  Operations = {}
  Events = {"age", "revoke", "lapse"}
  StartPaired = TRUE
  DiskFaults = TRUE
  Posts = {p1}
  MaxRequests = 1
  MaxCredentials = 2
  MaxCrashes = 1
  MaxQueue = 3
  MaxBytes = 9
  Widths = {1}
  MaxClock = 2
  MaxDropped = 3
PROPERTIES ImplementsChannel QueueDrains RevocationCompletes
