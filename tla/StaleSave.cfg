SPECIFICATION Spec
CONSTANTS
  service = service
  cli = cli
  loop = loop
  web = web
  command = command
  p1 = p1
  p2 = p2
  None = None
  Service = service
  Loop = loop
  Process = {service, cli}
  Task = {loop, web, command}
  ProcessOf <- CliProcessOf
  Operations <- SaveOperations
  Events = {"approve"}
  StartPaired = FALSE
  DiskFaults = FALSE
  Posts = {p1}
  MaxRequests = 2
  MaxCredentials = 2
  MaxCrashes = 0
  MaxQueue = 1
  MaxBytes = 4
  Widths = {1}
  MaxClock = 1
  MaxDropped = 1
PROPERTY AuthorityRetained
