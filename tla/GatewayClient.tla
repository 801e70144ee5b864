--------------------------- MODULE GatewayClient ---------------------------
(***************************************************************************)
(* One client of packages/gateway-client: GatewayLifecycleState, the       *)
(* connect attempts of ConnectSession, the reconnect orchestrator with its *)
(* policy window, the heartbeat loop and the WebSocket transport.          *)
(*                                                                         *)
(* A step is one run of a JavaScript callback: a call of the public        *)
(* facade, a WebSocket event, a timer, or the microtask that follows a     *)
(* rejected reconnect attempt.  Attempts are numbered by the session id    *)
(* the lifecycle state hands out, and each attempt opens at most one       *)
(* socket, so a session id also names the socket.                          *)
(***************************************************************************)
EXTENDS Naturals

CONSTANTS
  MaxSession,       \* bound: sessions ever started
  MaxGeneration,    \* bound: disconnect() calls
  MaxElapsed,       \* reconnect.maxElapsedMs, in ticks
  Delays,           \* the backoff delays the policy may pick, in ticks
  ReconnectEnabled, \* reconnect.enabled
  HandshakeTimer,   \* handshakeTimeoutMs is configured
  ConnectFrom,      \* the statuses in which the host calls connect()
  OpenMayThrow,     \* new WebSocket(url, protocols) may throw
  Abortable,        \* the host passes an abortSignal and may abort it
  MicrotaskRace     \* host microtasks may run ahead of the reconnect one

Statuses == {"closed", "connecting", "ready", "reconnecting"}

ASSUME BoundsAssumption ==
  /\ MaxSession \in Nat \ {0}
  /\ MaxGeneration \in Nat
  /\ MaxElapsed \in Nat \ {0}
ASSUME DelaysAssumption == Delays \subseteq Nat /\ Delays # {}
ASSUME OptionsAssumption ==
  /\ ReconnectEnabled \in BOOLEAN
  /\ HandshakeTimer \in BOOLEAN
  /\ OpenMayThrow \in BOOLEAN
  /\ Abortable \in BOOLEAN
  /\ MicrotaskRace \in BOOLEAN
ASSUME HostAssumption == ConnectFrom \subseteq Statuses

Sessions == 1 .. MaxSession
None == 0                       \* JavaScript null, as a session id
NoTimer == MaxGeneration + 1    \* TimeoutReconnectScheduler.timer = null
NoWindow == MaxElapsed + 1      \* DefaultReconnectPolicy.windowStartedAt = null

Phases == {"none", "transport-opening", "register-sent", "ready", "terminal"}
Outcomes == {"none", "pending", "resolved", "rejected", "continued"}
SocketStates == {"none", "connecting", "open", "closing", "closed"}
Reasons == {"none", "manual", "cancelled", "startup_failure",
            "runtime_failure", "exhausted"}
CloseCodes == {"retryable", "rejected", "other"}
HandshakeFrames == {"register_ok", "register_rejected", "invalid"}

VARIABLES
  \* GatewayLifecycleState
  status, reason, generation, nextSessionId, activeSessionId,
  manuallyDisconnected,
  \* ConnectSession.activeAttempt and the attempts
  activeAttempt, phase, reconnectAttempt, promise, handshakeTimer,
  \* the connect() promises the host waits for
  awaited,
  \* WebSocketGatewayTransport
  socket, net,
  \* HeartbeatLoop
  heartbeat,
  \* ReconnectOrchestrator, its scheduler and policy
  timer, elapsed, reconnecting,
  \* AbortSignal.aborted
  aborted

lifecycleVars == <<status, reason, generation, nextSessionId,
                   activeSessionId, manuallyDisconnected>>
attemptVars == <<activeAttempt, phase, reconnectAttempt, promise,
                 handshakeTimer>>
transportVars == <<socket, net>>
recoveryVars == <<timer, elapsed, reconnecting>>
vars == <<lifecycleVars, attemptVars, awaited, transportVars, heartbeat,
          recoveryVars, aborted>>

TypeOK ==
  /\ status \in Statuses
  /\ reason \in Reasons
  /\ generation \in 0 .. MaxGeneration
  /\ nextSessionId \in 0 .. MaxSession
  /\ activeSessionId \in 0 .. MaxSession
  /\ manuallyDisconnected \in BOOLEAN
  /\ activeAttempt \in 0 .. MaxSession
  /\ phase \in [Sessions -> Phases]
  /\ reconnectAttempt \in [Sessions -> BOOLEAN]
  /\ promise \in [Sessions -> Outcomes]
  /\ handshakeTimer \in [Sessions -> BOOLEAN]
  /\ awaited \in [Sessions -> BOOLEAN]
  /\ socket \in 0 .. MaxSession
  /\ net \in [Sessions -> SocketStates]
  /\ heartbeat \in BOOLEAN
  /\ timer \in 0 .. NoTimer
  /\ elapsed \in 0 .. NoWindow
  /\ reconnecting \in 0 .. MaxSession
  /\ aborted \in BOOLEAN

Init ==
  /\ status = "closed" /\ reason = "none"
  /\ generation = 0
  /\ nextSessionId = 0
  /\ activeSessionId = None
  /\ manuallyDisconnected = FALSE
  /\ activeAttempt = None
  /\ phase = [s \in Sessions |-> "none"]
  /\ reconnectAttempt = [s \in Sessions |-> FALSE]
  /\ promise = [s \in Sessions |-> "none"]
  /\ handshakeTimer = [s \in Sessions |-> FALSE]
  /\ awaited = [s \in Sessions |-> FALSE]
  /\ socket = None
  /\ net = [s \in Sessions |-> "none"]
  /\ heartbeat = FALSE
  /\ timer = NoTimer
  /\ elapsed = NoWindow
  /\ reconnecting = None
  /\ aborted = FALSE

-----------------------------------------------------------------------------
(* Slips: what a definition below would be if the code had it wrong.  No   *)
(* action uses them; each property is checked to tell them apart.          *)

\* isTerminal() without the session half of the test.
IsTerminalByPhase(s) == phase[s] = "terminal"

\* stop() does not clear the timer.
StopReconnectForgotten == UNCHANGED timer

\* The transport drops its socket without closing it.
TransportForgets(network) == socket' = None /\ net' = network

\* The attempt that ended stays the active one.
ReleaseForgotten(s) == UNCHANGED activeAttempt

\* The promise is never rejected.
SettleWithoutReject(s, outcome) ==
  promise' = IF promise[s] = "pending" /\ outcome # "rejected"
               THEN [promise EXCEPT ![s] = outcome]
               ELSE promise

\* Every retryable close opens a window, READY or not.
DecideWithoutReady(s, code) ==
  IF manuallyDisconnected \/ aborted \/ ~ReconnectEnabled \/ code # "retryable"
  THEN "stop"
  ELSE IF reconnectAttempt[s] THEN "continue-window" ELSE "start-window"

-----------------------------------------------------------------------------
(* Predicates the handlers test *)

\* The generation half of the token test is implied by the session half:
\* closeManual, which alone bumps the generation, clears activeSessionId.
IsCurrentSession(s) == activeSessionId = s

IsTerminal(s) == phase[s] = "terminal" \/ ~IsCurrentSession(s)

\* The catch clause of the reconnect task is queued as a microtask.
ContinuationDue ==
  reconnecting # None /\ promise[reconnecting] = "continued"

\* WebSocket events and timers are macrotasks: microtasks drain first.
MacrotaskTurn == ~ContinuationDue

\* Calls of the host come from macrotasks, or from microtasks of its own
\* that were queued before the continuation.
HostTurn == MicrotaskRace \/ MacrotaskTurn

WindowElapsed == IF elapsed = NoWindow THEN 0 ELSE elapsed

-----------------------------------------------------------------------------
(* Pieces shared by the handlers *)

\* reconnectOrchestrator.stop()
StopReconnect == timer' = NoTimer

\* reconnectPolicy.reset()
ResetWindow == elapsed' = NoWindow

\* transport.close(): the socket lets go and its close event comes later.
TransportClose(network) ==
  /\ socket' = None
  /\ net' = IF socket # None /\ network[socket] \in {"connecting", "open"}
              THEN [network EXCEPT ![socket] = "closing"]
              ELSE network

ReleaseOwnership(s) ==
  activeAttempt' = IF activeAttempt = s THEN None ELSE activeAttempt

Settle(s, outcome) ==
  promise' = IF promise[s] = "pending"
               THEN [promise EXCEPT ![s] = outcome]
               ELSE promise

\* enterTerminal: the cleanup of an attempt, also of the timers it shares.
EnterTerminal(s) ==
  /\ phase' = [phase EXCEPT ![s] = "terminal"]
  /\ handshakeTimer' = [handshakeTimer EXCEPT ![s] = FALSE]
  /\ heartbeat' = FALSE
  /\ ReleaseOwnership(s)

\* closeIfCurrent(token, error)
CloseIfCurrent(s, why) ==
  /\ IF IsCurrentSession(s)
       THEN status' = "closed" /\ reason' = why /\ activeSessionId' = None
       ELSE UNCHANGED <<status, reason, activeSessionId>>
  /\ UNCHANGED <<generation, nextSessionId, manuallyDisconnected>>

\* failBeforeReady and failAtRuntime; the network after the event that led
\* here is "network".
Fail(s, why, closeTransport, network) ==
  /\ CloseIfCurrent(s, why)
  /\ Settle(s, "rejected")
  /\ EnterTerminal(s)
  /\ StopReconnect
  /\ IF closeTransport
       THEN TransportClose(network)
       ELSE net' = network /\ UNCHANGED socket
  /\ UNCHANGED <<reconnectAttempt, awaited, elapsed, reconnecting, aborted>>

\* closeReconnectExhaustedIfCurrent
CloseExhausted ==
  /\ status' = "closed" /\ reason' = "exhausted" /\ activeSessionId' = None
  /\ UNCHANGED <<generation, nextSessionId, manuallyDisconnected>>

\* scheduleReconnect, with the timer "left" armed before: the window opens,
\* the policy grants a delay or not.
ScheduleReconnect(left) ==
  IF aborted \/ ~ReconnectEnabled
  THEN UNCHANGED <<lifecycleVars, elapsed>> /\ timer' = left
  ELSE /\ elapsed' = WindowElapsed
       /\ \E delay \in Delays :
            IF WindowElapsed + delay >= MaxElapsed
            THEN CloseExhausted /\ timer' = left
            ELSE /\ timer' = generation
                 /\ IF manuallyDisconnected
                      THEN UNCHANGED <<status, reason>>
                      ELSE status' = "reconnecting" /\ reason' = "none"
                 /\ UNCHANGED <<generation, nextSessionId, activeSessionId,
                                manuallyDisconnected>>

-----------------------------------------------------------------------------
(* ConnectSession.connect, called by the host and by the reconnect task *)

\* beginConnect and the abort check before the attempt is built.
NewSession ==
  /\ nextSessionId < MaxSession
  /\ nextSessionId' = nextSessionId + 1
  /\ manuallyDisconnected' = FALSE
  /\ UNCHANGED generation

ConnectRefused(recon) ==
  /\ NewSession
  /\ status' = "closed" /\ activeSessionId' = None
  /\ \/ aborted /\ reason' = "cancelled" /\ UNCHANGED attemptVars
     \/ /\ OpenMayThrow /\ ~aborted /\ reason' = "startup_failure"
        \* new URL() or the auth payload threw: no attempt yet
        /\ UNCHANGED attemptVars
     \/ /\ OpenMayThrow /\ ~aborted /\ reason' = "startup_failure"
        \* transport.open() threw: the attempt was already registered
        /\ activeAttempt' = nextSessionId'
        /\ phase' = [phase EXCEPT ![nextSessionId'] = "transport-opening"]
        /\ promise' = [promise EXCEPT ![nextSessionId'] = "pending"]
        /\ reconnectAttempt' =
             [reconnectAttempt EXCEPT ![nextSessionId'] = recon]
        /\ UNCHANGED handshakeTimer
  /\ UNCHANGED transportVars

ConnectStarts(recon) ==
  /\ NewSession
  /\ ~aborted
  /\ status' = IF recon THEN "reconnecting" ELSE "connecting"
  /\ reason' = "none"
  /\ activeSessionId' = nextSessionId'
  /\ activeAttempt' = nextSessionId'
  /\ phase' = [phase EXCEPT ![nextSessionId'] = "transport-opening"]
  /\ promise' = [promise EXCEPT ![nextSessionId'] = "pending"]
  /\ reconnectAttempt' = [reconnectAttempt EXCEPT ![nextSessionId'] = recon]
  /\ socket' = nextSessionId'
  /\ net' = [net EXCEPT ![nextSessionId'] = "connecting"]
  /\ UNCHANGED handshakeTimer

HostConnect ==
  /\ HostTurn
  /\ status \in ConnectFrom \ {"ready"}   \* READY resolves at once
  /\ \/ /\ activeAttempt # None
        /\ awaited' = [awaited EXCEPT ![activeAttempt] = TRUE]
        /\ UNCHANGED <<lifecycleVars, attemptVars, transportVars>>
     \/ /\ activeAttempt = None
        /\ ConnectStarts(FALSE)
        /\ awaited' = [awaited EXCEPT ![nextSessionId'] = TRUE]
     \/ /\ activeAttempt = None
        /\ ConnectRefused(FALSE)
        /\ UNCHANGED awaited
  /\ UNCHANGED <<heartbeat, recoveryVars, aborted>>

\* disconnect()
HostDisconnect ==
  /\ HostTurn
  /\ generation < MaxGeneration
  /\ generation' = generation + 1
  /\ manuallyDisconnected' = TRUE
  /\ status' = "closed" /\ reason' = "manual" /\ activeSessionId' = None
  /\ IF activeAttempt # None
       THEN /\ Settle(activeAttempt, "rejected")
            /\ phase' = [phase EXCEPT ![activeAttempt] = "terminal"]
            /\ handshakeTimer' =
                 [handshakeTimer EXCEPT ![activeAttempt] = FALSE]
       ELSE UNCHANGED <<promise, phase, handshakeTimer>>
  /\ activeAttempt' = None
  /\ heartbeat' = FALSE
  /\ StopReconnect
  /\ TransportClose(net)
  /\ UNCHANGED <<nextSessionId, reconnectAttempt, awaited, elapsed,
                 reconnecting, aborted>>

\* The abort signal: only an attempt whose connect() is unsettled listens.
HostAbort ==
  /\ HostTurn
  /\ Abortable /\ ~aborted
  /\ aborted' = TRUE
  /\ \/ \E s \in Sessions :
          /\ promise[s] = "pending" /\ ~IsTerminal(s)
          /\ CloseIfCurrent(s, "cancelled")
          /\ Settle(s, "rejected")
          /\ EnterTerminal(s)
          /\ StopReconnect
          /\ TransportClose(net)
          /\ UNCHANGED <<reconnectAttempt, awaited, elapsed, reconnecting>>
     \/ /\ \A s \in Sessions : promise[s] = "pending" => IsTerminal(s)
        /\ UNCHANGED <<lifecycleVars, attemptVars, awaited, transportVars,
                       heartbeat, recoveryVars>>

-----------------------------------------------------------------------------
(* WebSocket events of the socket of session s *)

\* onopen: handleOpen sends register and arms the handshake timeout.
HandleOpen(s) ==
  /\ MacrotaskTurn
  /\ net[s] = "connecting"
  /\ LET opened == [net EXCEPT ![s] = "open"]
     IN \/ /\ IsTerminal(s)
           /\ net' = opened
           /\ UNCHANGED <<lifecycleVars, attemptVars, awaited, socket,
                          heartbeat, recoveryVars, aborted>>
        \/ /\ ~IsTerminal(s)
           /\ socket = s                       \* transport.isOpen()
           /\ phase' = [phase EXCEPT ![s] = "register-sent"]
           /\ handshakeTimer' = [handshakeTimer EXCEPT ![s] = HandshakeTimer]
           /\ net' = opened
           /\ UNCHANGED <<lifecycleVars, activeAttempt, reconnectAttempt,
                          promise, awaited, socket, heartbeat,
                          recoveryVars, aborted>>
        \/ /\ ~IsTerminal(s)                   \* the register send threw
           /\ Fail(s, "startup_failure", TRUE, opened)

\* onmessage with a handshake frame.  Business frames change no state here.
HandleHandshakeFrame(s, frame) ==
  /\ MacrotaskTurn
  /\ net[s] \in {"open", "closing"}
  /\ ~IsTerminal(s)
  /\ \/ /\ frame = "register_ok" /\ phase[s] # "ready"
        /\ handshakeTimer' = [handshakeTimer EXCEPT ![s] = FALSE]
        /\ ResetWindow
        /\ status' = "ready" /\ reason' = "none"
        /\ phase' = [phase EXCEPT ![s] = "ready"]
        /\ heartbeat' = TRUE
        /\ Settle(s, "resolved")
        /\ ReleaseOwnership(s)
        /\ UNCHANGED <<generation, nextSessionId, activeSessionId,
                       manuallyDisconnected, reconnectAttempt, awaited,
                       transportVars, timer, reconnecting, aborted>>
     \/ /\ frame \in {"register_rejected", "invalid"}
        /\ Fail(s, "startup_failure", TRUE, net)

CloseDecision(s, code) ==
  IF manuallyDisconnected \/ aborted \/ ~ReconnectEnabled \/ code # "retryable"
  THEN "stop"
  ELSE IF phase[s] = "ready" THEN "start-window"
  ELSE IF reconnectAttempt[s] THEN "continue-window" ELSE "stop"

\* onclose of an attempt that ended, or was superseded, before.
HandleLateClose(s, closed) ==
  /\ IsTerminal(s)
  /\ net' = closed
  /\ UNCHANGED <<lifecycleVars, attemptVars, awaited, socket, heartbeat,
                 recoveryVars, aborted>>

\* continueReconnectWindow: the attempt ends, the status stays as it is.
ContinueReconnectWindow(s, closed) ==
  /\ Settle(s, "continued")
  /\ EnterTerminal(s)
  /\ net' = closed
  /\ UNCHANGED <<lifecycleVars, reconnectAttempt, awaited, socket,
                 recoveryVars, aborted>>

\* handleStartReconnectWindow: enterTerminal clears the timer first.
StartReconnectWindow(s, closed) ==
  /\ EnterTerminal(s)
  /\ ScheduleReconnect(NoTimer)
  /\ net' = closed
  /\ UNCHANGED <<reconnectAttempt, promise, awaited, socket, reconnecting,
                 aborted>>

\* handleStopClose
StopClose(s, closed) ==
  Fail(s, IF manuallyDisconnected \/ aborted THEN "cancelled"
          ELSE IF phase[s] = "ready" THEN "runtime_failure"
          ELSE "startup_failure",
       FALSE, closed)

HandleClose(s, code) ==
  /\ MacrotaskTurn
  /\ net[s] \in {"connecting", "open", "closing"}
  /\ LET closed == [net EXCEPT ![s] = "closed"]
         decision == CloseDecision(s, code)
     IN \/ HandleLateClose(s, closed)
        \/ /\ ~IsTerminal(s) /\ decision = "continue-window"
           /\ ContinueReconnectWindow(s, closed)
        \/ /\ ~IsTerminal(s) /\ decision = "start-window"
           /\ StartReconnectWindow(s, closed)
        \/ /\ ~IsTerminal(s) /\ decision = "stop"
           /\ StopClose(s, closed)

-----------------------------------------------------------------------------
(* Timers and the microtask of the reconnect task *)

\* The handshake timeout does not test whether its attempt is terminal.
HandshakeTimeout(s) ==
  /\ MacrotaskTurn
  /\ handshakeTimer[s]
  /\ Fail(s, "startup_failure", TRUE, net)

\* The reconnect task, up to its await of reconnect().
ReconnectTimer ==
  /\ MacrotaskTurn
  /\ timer # NoTimer
  /\ timer' = NoTimer
  /\ \/ /\ timer # generation \/ manuallyDisconnected \/ aborted
        /\ UNCHANGED <<lifecycleVars, attemptVars, transportVars, elapsed,
                       reconnecting>>
     \/ /\ timer = generation /\ ~manuallyDisconnected /\ ~aborted
        /\ elapsed' = WindowElapsed
        /\ \/ /\ WindowElapsed >= MaxElapsed
              /\ CloseExhausted
              /\ UNCHANGED <<attemptVars, transportVars, reconnecting>>
           \/ /\ WindowElapsed < MaxElapsed /\ status = "ready"
              /\ UNCHANGED <<lifecycleVars, attemptVars, transportVars,
                             reconnecting>>
           \/ /\ WindowElapsed < MaxElapsed /\ status # "ready"
              /\ activeAttempt # None
              /\ reconnecting' = activeAttempt
              /\ UNCHANGED <<lifecycleVars, attemptVars, transportVars>>
           \/ /\ WindowElapsed < MaxElapsed /\ status # "ready"
              /\ activeAttempt = None
              /\ ConnectStarts(TRUE)
              /\ reconnecting' = nextSessionId'
           \/ /\ WindowElapsed < MaxElapsed /\ status # "ready"
              /\ activeAttempt = None
              /\ ConnectRefused(TRUE)
              /\ UNCHANGED reconnecting
  /\ UNCHANGED <<awaited, heartbeat, aborted>>

\* The catch clause: a ReconnectContinueSignal schedules the next attempt.
ReconnectContinue ==
  /\ ContinuationDue
  /\ reconnecting' = None
  /\ ScheduleReconnect(timer)
  /\ UNCHANGED <<attemptVars, awaited, transportVars, heartbeat, aborted>>

\* The clock of the reconnect policy.
Tick ==
  /\ elapsed < MaxElapsed
  /\ elapsed' = elapsed + 1
  /\ UNCHANGED <<lifecycleVars, attemptVars, awaited, transportVars,
                 heartbeat, timer, reconnecting, aborted>>

-----------------------------------------------------------------------------
SocketEvent(s) ==
  \/ HandleOpen(s)
  \/ \E frame \in HandshakeFrames : HandleHandshakeFrame(s, frame)
  \/ \E code \in CloseCodes : HandleClose(s, code)

Next ==
  \/ HostConnect
  \/ HostDisconnect
  \/ HostAbort
  \/ \E s \in Sessions : SocketEvent(s) \/ HandshakeTimeout(s)
  \/ ReconnectTimer
  \/ ReconnectContinue
  \/ Tick

Spec == Init /\ [][Next]_vars

\* A socket that connects comes up or fails: the operating system's connect
\* timeout.  Armed timers fire, queued microtasks run, the clock advances.
SocketSettles(s) ==
  /\ net[s] = "connecting"
  /\ HandleOpen(s) \/ \E code \in CloseCodes : HandleClose(s, code)

Fairness ==
  /\ \A s \in Sessions : WF_vars(SocketSettles(s))
  /\ \A s \in Sessions : WF_vars(HandshakeTimeout(s))
  /\ WF_vars(ReconnectTimer)
  /\ WF_vars(ReconnectContinue)
  /\ WF_vars(Tick)

FairSpec == Spec /\ Fairness

-----------------------------------------------------------------------------
(* Properties *)

\* READY is the state of one connection from end to end: the active session
\* finished its handshake, its socket is the one the transport sends on and
\* is open, its connect() was fulfilled, and only then do heartbeats run.
\* finishConnectIfCurrent, WebSocketGatewayTransport.open and HeartbeatLoop.
ReadyIsHandshaken ==
  /\ status = "ready" =>
       /\ activeSessionId # None
       /\ phase[activeSessionId] = "ready"
       /\ promise[activeSessionId] = "resolved"
       /\ socket = activeSessionId
       /\ net[socket] = "open"
  /\ heartbeat <=> status = "ready"

\* No socket is left open, or coming up, that disconnect() cannot reach:
\* the transport forgets a socket only when it closes it or it has closed.
NoOrphanSocket ==
  \A s \in Sessions : net[s] \in {"connecting", "open"} => socket = s

\* A reconnect timer belongs to the current generation: disconnect() leaves
\* none of an earlier one behind, whatever callback armed it.
TimerIsCurrent == timer # NoTimer => timer = generation

\* After disconnect() no late callback changes the status or arms a timer,
\* until the host connects again.
ManualCloseSticks ==
  manuallyDisconnected =>
    status = "closed" /\ reason = "manual" /\ timer = NoTimer

\* Automatic recovery starts only from an established session: no failure of
\* a first connect, and no leftover of an earlier window, starts one.
WindowStartsFromReady ==
  [][status # "reconnecting" /\ status' = "reconnecting"
       => status = "ready"]_vars

\* A session that was READY has its whole reconnect budget ahead of it: the
\* close that ends it is never answered with "exhausted".
ReadyNeverExhausts ==
  [][status = "ready" => reason' # "exhausted"]_vars

\* An automatic decision never closes the client under a connect attempt of
\* the host: exhaustion is declared only between attempts.
ExhaustionSparesAttempts ==
  [][reason' = "exhausted" /\ reason # "exhausted"
       => activeAttempt = None]_vars

\* Every connect() the host waits for settles.
ConnectSettles ==
  \A s \in Sessions :
    awaited[s] /\ promise[s] = "pending" ~> promise[s] # "pending"

=============================================================================
