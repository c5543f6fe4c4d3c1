CONSTANTS
  Acquirer = {a1}
  Acknowledging = {a1}
  Refresher = {r1, r2}
  Disconnector = {d1}
  Nobody = Nobody
  Seed = Seed
SPECIFICATION Spec
INVARIANTS
  NoRefreshReplay
PROPERTIES
  ImplementsCustody
\* Every actor ends; none is started again.
CHECK_DEADLOCK FALSE
