\* An automatic start and explicit restarts and stops.
SPECIFICATION FairPluginSpec
CONSTANTS
  MaxStarts = 3
INVARIANTS
  StopIsHeeded
  ConnectionIsHeld
PROPERTIES
  StopSticks
  AbortedStartsEnd
\* Initializations are bounded, so a run of the model ends.
CHECK_DEADLOCK FALSE
