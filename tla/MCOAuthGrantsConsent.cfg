CONSTANTS
  Acquirer = {a1, a2}
  Acknowledging = {a2}
  Refresher = {r1}
  Disconnector = {d1}
  Nobody = Nobody
  Seed = Seed
SPECIFICATION Spec
INVARIANTS
  UnknownOutcomeVisible
  DisconnectIsFinal
PROPERTIES
  TokensRemovedOnPurpose
\* Every actor ends; none is started again.
CHECK_DEADLOCK FALSE
