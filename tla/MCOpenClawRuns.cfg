\* Two chats of a session, with aborts and closes.
SPECIFICATION FairSpec
CONSTANTS
  r1 = r1  r2 = r2 
  s1 = s1  s2 = s2
  k1 = k1  k2 = k2  k3 = k3
  Runs = {r1, r2}
  Sessions = {s1}
  Keys = {k1, k2}
  Provisional <- OwnKey
  Routes <- RoutedKey
  None = None
INVARIANTS
  RunIsReachable
  NothingIsLeft
PROPERTIES
  ImplementsProviderRun
  RunsSettle
CHECK_DEADLOCK FALSE
