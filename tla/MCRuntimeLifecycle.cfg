\* Careful hosts and any host, five lifecycle attempts.
SPECIFICATION FairSpec
CONSTANTS
  MaxTokens = 5
  MaxWaiting = 1
  Hosts <- AllHosts
INVARIANTS
  IdleHoldsNothing
PROPERTIES
  StopIsNotOverruled
  StopSettles
  StartSettles
\* Start tokens are bounded, so a run of the model ends.
CHECK_DEADLOCK FALSE
