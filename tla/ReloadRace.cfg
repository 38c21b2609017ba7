SPECIFICATION Spec
CONSTANTS
  service = service
  cli = cli
  loop = loop
  web = web
  command = command
  p1 = p1
  p2 = p2
  None = None
  Service = service
  Loop = loop
  Process = {service}
  Task = {loop, web}
  ProcessOf <- WebProcessOf
  Operations <- RepairOperations
  Events = {"approve"}
  StartPaired = TRUE
  DiskFaults = FALSE
  Posts = {p1}
  MaxRequests = 2
  MaxCredentials = 2
  MaxCrashes = 0
  MaxQueue = 2
  MaxBytes = 9
  Widths = {1}
  MaxClock = 3
  MaxDropped = 2
PROPERTY NoSilentLoss
