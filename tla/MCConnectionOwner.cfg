CONSTANTS
  Caller = {t1, r1}
  Reader = {r1}
  MaxRounds = 1
  MaxIncarnation = 2
SPECIFICATION Spec
INVARIANTS
  ErrorsHaveNoEffects
  SameSession
  NoReplay
  NoOwnerLost
PROPERTIES
  ValuesAreCurrent
\* A call ends, and the connection is closed for good.
CHECK_DEADLOCK FALSE
