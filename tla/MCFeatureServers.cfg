CONSTANTS
  server = server
  grant = grant
  Loader = {l1}
  Restorer = {r1}
  Connector = {}
  Unloader = {u1}
  Disconnector = {}
  Stopper = {s1}
  Starter = {i1}
  Server = {server}
  Grant = {grant}
  Target <- MCTarget
  Nobody = Nobody
SPECIFICATION Spec
INVARIANTS
  NoConnectionLeaked
  MountedIsOwned
  NoStaleGeneration
  QuietAfterShutdown
\* Every call ends, and none is made again.
CHECK_DEADLOCK FALSE
