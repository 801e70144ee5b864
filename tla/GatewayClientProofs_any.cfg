\* Any host: connect() at any time, aborts, throwing sockets, racing microtasks.
SPECIFICATION Spec
CONSTANTS
  MaxSession = 4
  MaxGeneration = 2
  MaxElapsed = 2
  Delays = {0, 1}
  ReconnectEnabled = TRUE
  HandshakeTimer = TRUE
  ConnectFrom = {"closed", "connecting", "reconnecting"}
  OpenMayThrow = TRUE
  Abortable = TRUE
  MicrotaskRace = TRUE
INVARIANTS
  ReadyIsHandshaken
  NoOrphanSocket
  TimerIsCurrent
\* Sessions and disconnects are bounded, so a run of the model ends.
CHECK_DEADLOCK FALSE
