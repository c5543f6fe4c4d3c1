CONSTANTS
  server = server
  grant = grant
  Loader = {}
  Restorer = {}
  Connector = {c1, c2}
  Unloader = {}
  Disconnector = {d1}
  Stopper = {s1}
  Starter = {}
  Server = {server}
  Grant = {grant}
  Target <- MCTarget
  Nobody = Nobody
SPECIFICATION FairSpec
INVARIANTS
  NoConnectionLeaked
PROPERTIES
  EverySettles
\* Every call ends, and none is made again.
CHECK_DEADLOCK FALSE
