\* connect() while a reconnect timer is armed, and the session after it.
SPECIFICATION Spec
CONSTANTS
  MaxSession = 3
  MaxGeneration = 1
  MaxElapsed = 2
  Delays = {0, 1}
  ReconnectEnabled = TRUE
  HandshakeTimer = TRUE
  ConnectFrom = {"closed", "connecting", "reconnecting"}
  OpenMayThrow = FALSE
  Abortable = FALSE
  MicrotaskRace = FALSE
PROPERTIES
  ReadyNeverExhausts
\* Sessions and disconnects are bounded, so a run of the model ends.
CHECK_DEADLOCK FALSE
