SPECIFICATION Spec
CONSTANTS
  service = service
  cli = cli
  loop = loop
  web = web
  command = command
  p1 = p1
  p2 = p2
  None = None
  Service = service
  Loop = loop
  Process = {service, cli}
  Task = {loop, web, command}
  ProcessOf <- CliProcessOf
  Operations <- CliOperations
  Events = {"approve"}
  StartPaired = FALSE
  DiskFaults = TRUE
  Posts = {p1}
  MaxRequests = 1
  MaxCredentials = 2
  MaxCrashes = 0
  MaxQueue = 2
  MaxBytes = 3
  Widths = {1, 2}
  MaxClock = 2
  MaxDropped = 1
INVARIANTS TypeOK SequencesDisjoint
CONSTRAINT ReloadOrRotate
