\* Output of an aborted run after the next one has begun.
SPECIFICATION Spec
CONSTANTS
  r1 = r1  r2 = r2 
  s1 = s1  s2 = s2
  k1 = k1  k2 = k2  k3 = k3
  Runs = {r1, r2}
  Sessions = {s1}
  Keys = {k1, k2}
  Provisional <- OwnKey
  Routes <- RoutedKey
  None = None
INVARIANTS
  OutputStaysHome
CHECK_DEADLOCK FALSE
