\* Two runs under the default policy; a run and two emissions that are
\* forwarded; a gateway that drops, sessions closed while busy.
SPECIFICATION FairSpec
CONSTANTS
  s1 = s1
  s2 = s2
  r1 = r1
  r2 = r2
  b1 = b1
  o1 = o1
  q1 = q1
  p1 = p1
  Sessions = {s1, s2}
  Runs = {r1, r2}
  Outbounds = {b1}
  OutboundRuns = {o1}
  Messages = {m1}
  Questions = {q1}
  Permissions = {p1}
  Settings <- BothSettings
  None = None
INVARIANTS
  ActiveRunsAreInFlight
  OneTerminalPerRun
  CardsAreAnswerable
  OutboundIsHeld
PROPERTIES
  RunsComeFree
\* Runs and emissions are named once, so a run of the model ends.
CHECK_DEADLOCK FALSE
