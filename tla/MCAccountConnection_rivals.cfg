\* A probe whose connection outlives the start that cancelled it.
SPECIFICATION Spec
CONSTANTS
  p1 = p1  p2 = p2
  Probes = {p1, p2}
  Timeouts = {1, 2}
  MaxStarts = 2
  None = None
INVARIANTS
  OneConnection
CHECK_DEADLOCK FALSE
