\* An account that is started twice, and two probes of it.
SPECIFICATION FairSpec
CONSTANTS
  p1 = p1  p2 = p2
  Probes = {p1, p2}
  Timeouts = {1, 2}
  MaxStarts = 2
  None = None
INVARIANTS
  RivalsAreUnseen
  StoppedAccountIsFree
PROPERTIES
  ProbesAnswer
  AccountsStop
CHECK_DEADLOCK FALSE
