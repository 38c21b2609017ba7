\* Access: forged entries and proxies, two of each, and five configurations.
\* Sessions: two requests at a time, two accounts, failing saves and restarts.
SPECIFICATION Spec
CONSTANTS
  listed = listed
  stranger = stranger
  here = here
  local = local
  edge = edge
  rogue = rogue
  Malformed = Malformed
  None = None
  Unresolved = Unresolved
  Address = {listed, stranger, here, local, edge, rogue}
  Loopback = {here, local}
  Proxy = {local, edge, rogue}
  Config <- Configs
  Claim <- Claims
  ForgedEntry = {listed, edge, Malformed}
  Host = {"agent.example"}
  AgentHost = "127.0.0.1:7335"
  MaxForged = 2
  MaxHops = 2
  t1 = t1
  t2 = t2
  admin = admin
  other = other
  NoTask = NoTask
  Task = {t1, t2}
  Account = {admin, other}
  Admin = admin
  Limit = 1
  MaxLogins = 1
  MaxPasswords = 2
SYMMETRY Symmetric
INVARIANTS ClientIsReal PolicyOnRealClient OwnPageOnly FailuresBounded LockOrder
PROPERTY SavedFirst
