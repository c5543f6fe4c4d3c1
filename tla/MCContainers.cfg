CONSTANTS
  Name = {m, n}
  MaxContainers = 2
  MaxLate = 1
SYMMETRY Symmetry
SPECIFICATION Spec
INVARIANTS
  StartedIsOwned
  ForeignUntouched
\* Containers are bounded.
CHECK_DEADLOCK FALSE
