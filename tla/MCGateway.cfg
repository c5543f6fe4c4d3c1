CONSTANTS
  Server = {a, b}
  MaxLaunches = 3
SPECIFICATION Spec
INVARIANTS
  MountedIsServed
  RemovedStaysRemoved
  EveryProcessTold
  OwnersInCustody
\* Launches are bounded.
CHECK_DEADLOCK FALSE
