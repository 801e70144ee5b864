\* The host of bridge-runtime-sdk: no connect() while reconnecting, no abort
\* signal, a valid URL.
SPECIFICATION FairSpec
CONSTANTS
  MaxSession = 4
  MaxGeneration = 1
  MaxElapsed = 2
  Delays = {0, 1}
  ReconnectEnabled = TRUE
  HandshakeTimer = TRUE
  ConnectFrom = {"closed", "connecting"}
  OpenMayThrow = FALSE
  Abortable = FALSE
  MicrotaskRace = FALSE
INVARIANTS
  ManualCloseSticks
PROPERTIES
  ExhaustionSparesAttempts
  ConnectSettles
  ImplementsContract
\* Sessions and disconnects are bounded, so a run of the model ends.
CHECK_DEADLOCK FALSE
