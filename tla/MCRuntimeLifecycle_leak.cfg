\* start() while the runtime is reconnecting, then stop().
SPECIFICATION Spec
CONSTANTS
  MaxTokens = 5
  MaxWaiting = 1
  Hosts <- OnlyHasty
INVARIANTS
  IdleHostHoldsNothing
\* Start tokens are bounded, so a run of the model ends.
CHECK_DEADLOCK FALSE
