\* Two sessions that the host routes to one key.
SPECIFICATION Spec
CONSTANTS
  r1 = r1  r2 = r2 
  s1 = s1  s2 = s2
  k1 = k1  k2 = k2  k3 = k3
  Runs = {r1, r2}
  Sessions = {s1, s2}
  Keys = {k1, k2, k3}
  Provisional <- OwnKeyOfEach
  Routes <- SharedRoute
  None = None
INVARIANTS
  RunIsReachable
CHECK_DEADLOCK FALSE
