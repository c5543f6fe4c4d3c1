CONSTANTS
  a = a
  x = x
  Agent = {a, b}
  Account = {x, y}
  Home <- MCHome
  MaxOps = 3
  MaxChanges = 2
  MaxMounts = 1
SPECIFICATION FairSpec
INVARIANTS
  ShownIsOwn
  OneAtATime
  NoOrphan
PROPERTIES
  BusyEnds
\* Operations are bounded, and nobody has to click.
CHECK_DEADLOCK FALSE
