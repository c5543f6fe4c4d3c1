CONSTANTS
  Files = 3
  Network = {origin}
  Device = {camera}
  MaxEdits = 1
  MaxBuilds = 2
  MaxStarts = 2
  MaxPolicies = 1
  Allowed = {origin, camera}
SPECIFICATION Spec
INVARIANTS
  ServedIsOneBuild
  BuildIsStartable
  GrantsAgreed
\* Edits, builds and starts are bounded.
CHECK_DEADLOCK FALSE
