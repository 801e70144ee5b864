\* A start whose handshake is rejected.
SPECIFICATION Spec
CONSTANTS
  MaxTokens = 5
  MaxWaiting = 1
  Hosts <- OnlyCareful
PROPERTIES
  StartReportsFailure
\* Start tokens are bounded, so a run of the model ends.
CHECK_DEADLOCK FALSE
