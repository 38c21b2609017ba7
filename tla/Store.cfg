\* Saves, reloads, opens and a recovery of two processes, step by step.
SPECIFICATION Spec
CONSTANTS
  service = service
  command = command
  handler = handler
  loop = loop
  main = main
  agent = agent
  root = root
  damaged = damaged
  None = None
  MaxChanges = 2
  Process <- Processes
  Task <- Tasks
  ProcessOf <- TaskProcess
  UserOf <- User
  Owner = agent
  Root = root
  Valid <- Counts
  Damaged = {damaged}
  First <- Fresh
  Change <- Changes
  Completed <- Complete
INVARIANT FileWhole
PROPERTY ImplementsAtomicStore
