CONSTANTS
  server = server
  grant = grant
  Loader = {l1}
  Restorer = {}
  Connector = {c1}
  Unloader = {}
  Disconnector = {}
  Stopper = {}
  Starter = {i1}
  Server = {server}
  Grant = {grant}
  Target <- MCTarget
  Nobody = Nobody
SPECIFICATION FairSpec
PROPERTIES
  EverySettles
\* Every call ends, and none is made again.
CHECK_DEADLOCK FALSE
