CONSTANTS
  Batch = {b1}
  Publication = {p1}
  View = {v1}
  Request = {c1}
  Delivery = {c2}
  Closer = {d1}
  Maintenance = m
  MaxPublications = 1
  MaxViews = 1
  MaxPending = 2
  None = None
SPECIFICATION FairServerSpec
INVARIANTS
  DefiniteMeansNothingRan
  JoinedBeforeClosed
PROPERTIES
  DeliveredInTime
  PlacesReturn
\* Calls and closers are not made again, and the maintenance may end with a failed drain.
CHECK_DEADLOCK FALSE
