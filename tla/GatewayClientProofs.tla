------------------------ MODULE GatewayClientProofs ------------------------
(***************************************************************************)
(* What GatewayClient guarantees for every number of sessions and          *)
(* disconnects, every reconnect budget and every choice of its options:    *)
(* the types, the three invariants that tie status, attempt, socket and    *)
(* timer together, and the contract the rest of the system relies on.      *)
(***************************************************************************)
EXTENDS GatewayClient, TLAPS

\* A session the transport still holds open belongs to the attempt in
\* progress or to the READY session.
LiveSocketHasOwner ==
  \A s \in Sessions : net[s] \in {"connecting", "open"} =>
    /\ socket = s
    /\ \/ activeAttempt = s
       \/ activeAttempt = None /\ status = "ready" /\ activeSessionId = s

\* The attempt and the session of the lifecycle state never disagree.
AttemptIsSession ==
  activeAttempt # None /\ activeSessionId # None =>
    activeAttempt = activeSessionId

\* The attempt of the current session is READY or is the active one.
CurrentSession ==
  \A s \in Sessions : ~IsTerminal(s) =>
    /\ socket = s
    /\ net[s] \in {"connecting", "open"}
    /\ \/ phase[s] = "ready" /\ status = "ready"
       \/ phase[s] # "ready" /\ activeAttempt = s

\* The active attempt is the only one with an armed handshake timeout, and
\* its promise is unsettled.
ActiveAttempt ==
  /\ activeAttempt # None => promise[activeAttempt] = "pending"
  /\ \A s \in Sessions : handshakeTimer[s] => activeAttempt = s

\* While READY no attempt, no continuation and no open window is left over;
\* a left-over timer finds no window.
ReadySession ==
  /\ status = "ready" =>
       /\ activeAttempt = None
       /\ ~ContinuationDue
       /\ timer # NoTimer => elapsed = NoWindow
  /\ ReadyIsHandshaken

\* The inductive invariant.
AttemptInv ==
  /\ LiveSocketHasOwner
  /\ AttemptIsSession
  /\ CurrentSession
  /\ ActiveAttempt
  /\ ReadySession
  /\ TimerIsCurrent

-----------------------------------------------------------------------------
\* One assignment each; no proof is about how they are named.
USE DEF StopReconnect, ResetWindow

(* Types *)

\* The literals the handlers write, as members of their types: the proofs
\* below never look into the enumerations.
LEMMA Names ==
  /\ "closed" \in Statuses /\ "connecting" \in Statuses
  /\ "ready" \in Statuses /\ "reconnecting" \in Statuses
  /\ "none" \in Reasons /\ "manual" \in Reasons
  /\ "cancelled" \in Reasons /\ "startup_failure" \in Reasons
  /\ "runtime_failure" \in Reasons /\ "exhausted" \in Reasons
  /\ "none" \in Phases /\ "transport-opening" \in Phases
  /\ "register-sent" \in Phases /\ "ready" \in Phases
  /\ "terminal" \in Phases
  /\ "none" \in Outcomes /\ "pending" \in Outcomes
  /\ "resolved" \in Outcomes /\ "rejected" \in Outcomes
  /\ "continued" \in Outcomes
  /\ "none" \in SocketStates /\ "connecting" \in SocketStates
  /\ "open" \in SocketStates /\ "closing" \in SocketStates
  /\ "closed" \in SocketStates
  BY DEF Statuses, Reasons, Phases, Outcomes, SocketStates

\* The numbers the handlers write, as members of their ranges.
LEMMA Numbers ==
  /\ None \in 0 .. MaxSession /\ 0 \in 0 .. MaxSession
  /\ 0 \in 0 .. MaxGeneration
  /\ NoTimer \in 0 .. NoTimer /\ NoWindow \in 0 .. NoWindow
  /\ 0 \in 0 .. NoWindow
  /\ \A s \in Sessions : s \in 0 .. MaxSession
  /\ \A g \in 0 .. MaxGeneration : g \in 0 .. NoTimer
  /\ \A s \in 0 .. MaxSession : s # None => s \in Sessions
  /\ \A s \in 0 .. MaxSession :
       s < MaxSession => s + 1 \in 0 .. MaxSession /\ s + 1 \in Sessions
  /\ \A g \in 0 .. MaxGeneration :
       g < MaxGeneration => g + 1 \in 0 .. MaxGeneration
  /\ \A e \in 0 .. NoWindow : e < MaxElapsed => e + 1 \in 0 .. NoWindow
  BY BoundsAssumption
     DEF BoundsAssumption, None, NoTimer, NoWindow, Sessions

\* The initial state is well typed.
LEMMA InitTypeOK == Init => TypeOK
  BY Names, Numbers DEF Init, TypeOK

\* Closing the transport keeps the sockets in their types.
LEMMA TransportCloseType ==
  ASSUME TypeOK, NEW network \in [Sessions -> SocketStates],
         TransportClose(network)
  PROVE  socket' \in 0 .. MaxSession /\ net' \in [Sessions -> SocketStates]
<1>1. socket' \in 0 .. MaxSession
  BY Numbers DEF TransportClose
<1>2. \/ net' = network
      \/ socket # None /\ net' = [network EXCEPT ![socket] = "closing"]
  BY DEF TransportClose
<1> QED
  BY <1>1, <1>2, Names, Numbers DEF TypeOK

\* So does the end of an attempt, and with it the failure of one.
LEMMA EnterTerminalType ==
  ASSUME TypeOK, NEW s \in Sessions, EnterTerminal(s)
  PROVE  /\ phase' \in [Sessions -> Phases]
         /\ handshakeTimer' \in [Sessions -> BOOLEAN]
         /\ heartbeat' \in BOOLEAN
         /\ activeAttempt' \in 0 .. MaxSession
  BY Names, Numbers DEF EnterTerminal, ReleaseOwnership, TypeOK

\* Settling a promise keeps the promises in their type.
LEMMA SettleType ==
  ASSUME TypeOK, NEW s \in Sessions, NEW outcome \in Outcomes,
         Settle(s, outcome)
  PROVE  promise' \in [Sessions -> Outcomes]
  BY DEF Settle, TypeOK

\* Failing an attempt keeps every variable in its type.
LEMMA FailType ==
  ASSUME TypeOK, NEW s \in Sessions, NEW why \in Reasons,
         NEW closeTransport \in BOOLEAN,
         NEW network \in [Sessions -> SocketStates],
         Fail(s, why, closeTransport, network)
  PROVE  TypeOK'
<1>1. EnterTerminal(s) /\ Settle(s, "rejected")
  BY DEF Fail
<1>2. /\ phase' \in [Sessions -> Phases]
      /\ handshakeTimer' \in [Sessions -> BOOLEAN]
      /\ heartbeat' \in BOOLEAN
      /\ activeAttempt' \in 0 .. MaxSession
  BY <1>1, EnterTerminalType
<1>3. promise' \in [Sessions -> Outcomes]
  BY <1>1, SettleType, Names
<1>4. /\ status' \in Statuses /\ reason' \in Reasons
      /\ activeSessionId' \in 0 .. MaxSession
      /\ UNCHANGED <<generation, nextSessionId, manuallyDisconnected>>
  BY Names, Numbers DEF Fail, CloseIfCurrent, TypeOK
<1>5. socket' \in 0 .. MaxSession /\ net' \in [Sessions -> SocketStates]
  BY TransportCloseType DEF Fail, TypeOK
<1>6. /\ UNCHANGED <<reconnectAttempt, awaited, elapsed, reconnecting,
                     aborted>>
      /\ timer' \in 0 .. NoTimer
  BY Numbers DEF Fail
<1> QED
  BY <1>2, <1>3, <1>4, <1>5, <1>6 DEF TypeOK

\* Scheduling a reconnect, and starting or refusing an attempt.
LEMMA ScheduleReconnectType ==
  ASSUME TypeOK, NEW left \in 0 .. NoTimer, ScheduleReconnect(left)
  PROVE  /\ status' \in Statuses /\ reason' \in Reasons
         /\ activeSessionId' \in 0 .. MaxSession
         /\ UNCHANGED <<generation, nextSessionId, manuallyDisconnected>>
         /\ elapsed' \in 0 .. NoWindow
         /\ timer' \in 0 .. NoTimer
  BY Names, Numbers
     DEF ScheduleReconnect, CloseExhausted, WindowElapsed, TypeOK,
         lifecycleVars

\* A new attempt has a session id of its own.
LEMMA ConnectStartsType ==
  ASSUME TypeOK, NEW recon \in BOOLEAN, ConnectStarts(recon)
  PROVE  /\ status' \in Statuses /\ reason' \in Reasons
         /\ UNCHANGED generation
         /\ nextSessionId' \in Sessions
         /\ activeSessionId' = nextSessionId'
         /\ manuallyDisconnected' \in BOOLEAN
         /\ activeAttempt' = nextSessionId'
         /\ phase' \in [Sessions -> Phases]
         /\ reconnectAttempt' \in [Sessions -> BOOLEAN]
         /\ promise' \in [Sessions -> Outcomes]
         /\ UNCHANGED handshakeTimer
         /\ socket' = nextSessionId'
         /\ net' \in [Sessions -> SocketStates]
<1>1. /\ status' \in Statuses /\ reason' \in Reasons
      /\ manuallyDisconnected' \in BOOLEAN /\ nextSessionId' \in Sessions
  BY Names, Numbers DEF ConnectStarts, NewSession, TypeOK
<1>2. /\ phase' \in [Sessions -> Phases]
      /\ reconnectAttempt' \in [Sessions -> BOOLEAN]
      /\ promise' \in [Sessions -> Outcomes]
      /\ net' \in [Sessions -> SocketStates]
  BY <1>1, Names DEF ConnectStarts, TypeOK
<1> QED
  BY <1>1, <1>2 DEF ConnectStarts, NewSession

\* So has one that is refused on the spot.
LEMMA ConnectRefusedType ==
  ASSUME TypeOK, NEW recon \in BOOLEAN, ConnectRefused(recon)
  PROVE  /\ status' \in Statuses /\ reason' \in Reasons
         /\ UNCHANGED generation
         /\ nextSessionId' \in Sessions
         /\ activeSessionId' = None
         /\ manuallyDisconnected' \in BOOLEAN
         /\ activeAttempt' \in 0 .. MaxSession
         /\ phase' \in [Sessions -> Phases]
         /\ reconnectAttempt' \in [Sessions -> BOOLEAN]
         /\ promise' \in [Sessions -> Outcomes]
         /\ UNCHANGED <<handshakeTimer, transportVars>>
<1>1. /\ status' \in Statuses /\ reason' \in Reasons
      /\ manuallyDisconnected' \in BOOLEAN /\ nextSessionId' \in Sessions
  BY Names, Numbers DEF ConnectRefused, NewSession, TypeOK
<1>2. /\ activeAttempt' \in 0 .. MaxSession
      /\ phase' \in [Sessions -> Phases]
      /\ reconnectAttempt' \in [Sessions -> BOOLEAN]
      /\ promise' \in [Sessions -> Outcomes]
  BY <1>1, Names, Numbers DEF ConnectRefused, TypeOK, attemptVars
<1> QED
  BY <1>1, <1>2 DEF ConnectRefused, NewSession, attemptVars

\* A step of any handler keeps every variable in its type.
LEMMA NextTypeOK == TypeOK /\ [Next]_vars => TypeOK'
<1> SUFFICES ASSUME TypeOK, [Next]_vars PROVE TypeOK'
  OBVIOUS
<1>1. CASE HostConnect
  <2>1. UNCHANGED <<heartbeat, recoveryVars, aborted>>
    BY <1>1 DEF HostConnect
  <2>2. CASE /\ activeAttempt # None
             /\ awaited' = [awaited EXCEPT ![activeAttempt] = TRUE]
             /\ UNCHANGED <<lifecycleVars, attemptVars, transportVars>>
    BY <2>1, <2>2, Numbers
       DEF TypeOK, lifecycleVars, attemptVars, transportVars, recoveryVars
  <2>3. CASE /\ ConnectStarts(FALSE)
             /\ awaited' = [awaited EXCEPT ![nextSessionId'] = TRUE]
    BY <2>1, <2>3, ConnectStartsType, Numbers DEF TypeOK, recoveryVars
  <2>4. CASE ConnectRefused(FALSE) /\ UNCHANGED awaited
    BY <2>1, <2>4, ConnectRefusedType, Numbers
       DEF TypeOK, recoveryVars, transportVars
  <2> QED
    BY <1>1, <2>2, <2>3, <2>4 DEF HostConnect
<1>2. CASE HostDisconnect
  <2>1. /\ socket' \in 0 .. MaxSession
        /\ net' \in [Sessions -> SocketStates]
    BY <1>2, TransportCloseType DEF HostDisconnect, TypeOK
  <2>2. /\ promise' \in [Sessions -> Outcomes]
        /\ phase' \in [Sessions -> Phases]
        /\ handshakeTimer' \in [Sessions -> BOOLEAN]
    <3>1. CASE activeAttempt = None
      BY <1>2, <3>1 DEF HostDisconnect, TypeOK
    <3>2. CASE activeAttempt # None
      <4>1. activeAttempt \in Sessions
        BY <3>2, Numbers DEF TypeOK
      <4>2. promise' \in [Sessions -> Outcomes]
        BY <1>2, <3>2, <4>1, SettleType, Names DEF HostDisconnect
      <4> QED
        BY <1>2, <3>2, <4>2, Names DEF HostDisconnect, TypeOK
    <3> QED
      BY <3>1, <3>2
  <2>3. generation' \in 0 .. MaxGeneration
    BY <1>2, Numbers DEF HostDisconnect, TypeOK
  <2> QED
    BY <1>2, <2>1, <2>2, <2>3, Names, Numbers DEF HostDisconnect, TypeOK
<1>3. CASE HostAbort
  <2>1. CASE \A s \in Sessions : promise[s] = "pending" => IsTerminal(s)
    BY <1>3, <2>1 DEF HostAbort, TypeOK, lifecycleVars, attemptVars,
       transportVars, recoveryVars
  <2>2. ASSUME NEW s \in Sessions,
               /\ CloseIfCurrent(s, "cancelled")
               /\ Settle(s, "rejected")
               /\ EnterTerminal(s)
               /\ timer' = NoTimer
               /\ TransportClose(net)
               /\ UNCHANGED <<reconnectAttempt, awaited, elapsed,
                              reconnecting>>
        PROVE  TypeOK'
    <3>1. /\ phase' \in [Sessions -> Phases]
          /\ handshakeTimer' \in [Sessions -> BOOLEAN]
          /\ heartbeat' \in BOOLEAN
          /\ activeAttempt' \in 0 .. MaxSession
      BY <2>2, EnterTerminalType
    <3>2. promise' \in [Sessions -> Outcomes]
      BY <2>2, SettleType, Names
    <3>3. /\ socket' \in 0 .. MaxSession
          /\ net' \in [Sessions -> SocketStates]
      BY <2>2, TransportCloseType DEF TypeOK
    <3>4. /\ status' \in Statuses /\ reason' \in Reasons
          /\ activeSessionId' \in 0 .. MaxSession
          /\ UNCHANGED <<generation, nextSessionId, manuallyDisconnected>>
      BY <2>2, Names, Numbers DEF CloseIfCurrent, TypeOK
    <3> QED
      BY <1>3, <2>2, <3>1, <3>2, <3>3, <3>4, Numbers DEF HostAbort, TypeOK
  <2> QED
    BY <1>3, <2>1, <2>2 DEF HostAbort
<1>4. ASSUME NEW s \in Sessions, HandleOpen(s) PROVE TypeOK'
  <2> DEFINE opened == [net EXCEPT ![s] = "open"]
  <2>1. opened \in [Sessions -> SocketStates]
    BY Names DEF TypeOK
  <2>2. CASE Fail(s, "startup_failure", TRUE, opened)
    BY <2>1, <2>2, FailType, Names
  <2>3. CASE ~Fail(s, "startup_failure", TRUE, opened)
    BY <1>4, <2>1, <2>3, Names, OptionsAssumption
       DEF HandleOpen, TypeOK, OptionsAssumption, lifecycleVars,
           attemptVars, recoveryVars
  <2> QED
    BY <2>2, <2>3
<1>5. ASSUME NEW s \in Sessions, NEW frame \in HandshakeFrames,
             HandleHandshakeFrame(s, frame)
      PROVE  TypeOK'
  <2>1. CASE Fail(s, "startup_failure", TRUE, net)
    BY <2>1, FailType, Names DEF TypeOK
  <2>2. CASE ~Fail(s, "startup_failure", TRUE, net)
    <3>1. Settle(s, "resolved") /\ ReleaseOwnership(s)
      BY <1>5, <2>2 DEF HandleHandshakeFrame
    <3>2. promise' \in [Sessions -> Outcomes]
      BY <3>1, SettleType, Names
    <3>3. activeAttempt' \in 0 .. MaxSession
      BY <3>1, Numbers DEF ReleaseOwnership, TypeOK
    <3>4. /\ phase' \in [Sessions -> Phases]
          /\ handshakeTimer' \in [Sessions -> BOOLEAN]
      BY <1>5, <2>2, Names DEF HandleHandshakeFrame, TypeOK
    <3>5. status' \in Statuses /\ reason' \in Reasons
      BY <1>5, <2>2, Names DEF HandleHandshakeFrame, TypeOK
    <3>6. heartbeat' \in BOOLEAN /\ elapsed' \in 0 .. NoWindow
      BY <1>5, <2>2, Numbers DEF HandleHandshakeFrame, TypeOK
    <3> QED
      BY <1>5, <2>2, <3>2, <3>3, <3>4, <3>5, <3>6
         DEF HandleHandshakeFrame, TypeOK, transportVars
  <2> QED
    BY <2>1, <2>2
<1>6. ASSUME NEW s \in Sessions, NEW code \in CloseCodes,
             HandleClose(s, code)
      PROVE  TypeOK'
  <2> DEFINE closed == [net EXCEPT ![s] = "closed"]
  <2>1. closed \in [Sessions -> SocketStates]
    BY Names DEF TypeOK
  <2>2. CASE HandleLateClose(s, closed)
    BY <2>1, <2>2 DEF HandleLateClose, TypeOK, lifecycleVars, attemptVars,
       recoveryVars
  <2>3. CASE ContinueReconnectWindow(s, closed)
    <3>1. promise' \in [Sessions -> Outcomes]
      BY <2>3, SettleType, Names DEF ContinueReconnectWindow
    <3> QED
      BY <2>1, <2>3, <3>1, EnterTerminalType
         DEF ContinueReconnectWindow, TypeOK, lifecycleVars, recoveryVars
  <2>4. CASE StartReconnectWindow(s, closed)
    BY <2>1, <2>4, EnterTerminalType, ScheduleReconnectType, Numbers
       DEF StartReconnectWindow, TypeOK
  <2>5. CASE StopClose(s, closed)
    BY <2>1, <2>5, FailType, Names DEF StopClose
  <2> QED
    BY <1>6, <2>2, <2>3, <2>4, <2>5 DEF HandleClose
<1>7. ASSUME NEW s \in Sessions, HandshakeTimeout(s) PROVE TypeOK'
  BY <1>7, FailType, Names DEF HandshakeTimeout, TypeOK
<1>8. CASE ReconnectTimer
  <2>1. /\ UNCHANGED <<awaited, heartbeat, aborted>>
        /\ timer' \in 0 .. NoTimer
        /\ elapsed' \in 0 .. NoWindow
    BY <1>8, Numbers DEF ReconnectTimer, WindowElapsed, TypeOK
  <2>2. CASE /\ ConnectStarts(TRUE)
             /\ reconnecting' = nextSessionId'
    BY <2>1, <2>2, ConnectStartsType, Numbers DEF TypeOK
  <2>3. CASE ConnectRefused(TRUE) /\ UNCHANGED reconnecting
    BY <2>1, <2>3, ConnectRefusedType, Numbers DEF TypeOK, transportVars
  <2>4. CASE /\ UNCHANGED <<attemptVars, transportVars>>
             /\ CloseExhausted \/ UNCHANGED lifecycleVars
             /\ reconnecting' \in {reconnecting, activeAttempt}
    BY <2>1, <2>4, Names, Numbers DEF CloseExhausted, TypeOK, lifecycleVars,
       attemptVars, transportVars
  <2> QED
    BY <1>8, <2>2, <2>3, <2>4 DEF ReconnectTimer
<1>9. CASE ReconnectContinue
  BY <1>9, ScheduleReconnectType, Numbers
     DEF ReconnectContinue, TypeOK, attemptVars, transportVars
<1>10. CASE Tick
  BY <1>10, Numbers DEF Tick, TypeOK, lifecycleVars, attemptVars, transportVars
<1>11. CASE UNCHANGED vars
  BY <1>11 DEF vars, TypeOK, lifecycleVars, attemptVars, transportVars,
     recoveryVars
<1> QED
  BY <1>1, <1>2, <1>3, <1>4, <1>5, <1>6, <1>7, <1>8, <1>9, <1>10, <1>11
     DEF Next, SocketEvent

\* Every variable stays in its type: no handler, in any order of events,
\* writes a value the client's own checks do not expect.
THEOREM TypeCorrect == Spec => []TypeOK
  BY InitTypeOK, NextTypeOK, PTL DEF Spec

-----------------------------------------------------------------------------
(* The inductive invariant *)

\* Initially nothing is open, armed or attempted.
LEMMA InitAttemptInv == Init => AttemptInv
  BY Numbers DEF Init, AttemptInv, LiveSocketHasOwner, AttemptIsSession,
     CurrentSession, ActiveAttempt, ReadySession, ReadyIsHandshaken,
     TimerIsCurrent, ContinuationDue, IsTerminal, IsCurrentSession, Sessions,
     None

\* Away from READY with no attempt in progress, nothing is open or armed.
LEMMA NothingLeft ==
  ASSUME TypeOK, AttemptInv, activeAttempt = None, status # "ready"
  PROVE  /\ heartbeat = FALSE
         /\ \A t \in Sessions :
              /\ net[t] \notin {"connecting", "open"}
              /\ handshakeTimer[t] = FALSE
              /\ IsTerminal(t)
<1>1. heartbeat = FALSE
  BY DEF AttemptInv, ReadySession, ReadyIsHandshaken, TypeOK
<1>2. ASSUME NEW t \in Sessions
      PROVE  net[t] \notin {"connecting", "open"} /\ IsTerminal(t)
  BY DEF AttemptInv, LiveSocketHasOwner, CurrentSession, Sessions, None
<1>3. ASSUME NEW t \in Sessions PROVE handshakeTimer[t] = FALSE
  BY DEF AttemptInv, ActiveAttempt, TypeOK, Sessions, None
<1> QED
  BY <1>1, <1>2, <1>3

\* A step that leaves no socket open and no session in progress keeps the
\* invariant, whatever else it does.
LEMMA NothingOpenInv ==
  ASSUME status' # "ready", heartbeat' = FALSE,
         \A t \in Sessions : net'[t] \notin {"connecting", "open"},
         \A t \in Sessions : IsTerminal(t)',
         AttemptIsSession', ActiveAttempt', TimerIsCurrent'
  PROVE  AttemptInv'
  BY DEF AttemptInv, LiveSocketHasOwner, CurrentSession, ReadySession,
     ReadyIsHandshaken

\* Closing the transport closes the one socket that may be open.
LEMMA TransportCloseCloses ==
  ASSUME TypeOK, NEW network \in [Sessions -> SocketStates],
         TransportClose(network),
         \A t \in Sessions :
           network[t] \in {"connecting", "open"} => socket = t
  PROVE  \A t \in Sessions : net'[t] \notin {"connecting", "open"}
<1> SUFFICES ASSUME NEW t \in Sessions
             PROVE  net'[t] \notin {"connecting", "open"}
  OBVIOUS
<1>1. CASE network[t] \in {"connecting", "open"}
  <2>1. socket = t /\ t # None
    BY <1>1 DEF Sessions, None
  <2>2. net' = [network EXCEPT ![t] = "closing"]
    BY <1>1, <2>1 DEF TransportClose
  <2> QED
    BY <2>2
<1>2. CASE network[t] \notin {"connecting", "open"}
  BY <1>2, Names DEF TransportClose
<1> QED
  BY <1>1, <1>2

\* What an ending attempt, or the end of the session, has in its hands.
LEMMA Ending ==
  ASSUME TypeOK, AttemptInv, NEW s \in Sessions,
         ~IsTerminal(s) \/ activeAttempt = s
  PROVE  /\ activeAttempt \in {None, s}
         /\ activeSessionId \in {None, s}
         /\ \A t \in Sessions : t # s =>
              handshakeTimer[t] = FALSE /\ net[t] \notin {"connecting", "open"}
         /\ status = "ready" => activeSessionId = s
<1>1. s # None
  BY DEF Sessions, None
<1>2. activeAttempt \in {None, s} /\ activeSessionId \in {None, s}
  BY <1>1 DEF AttemptInv, CurrentSession, AttemptIsSession, ReadySession,
     IsTerminal, IsCurrentSession
<1>3. status = "ready" => activeSessionId = s
  BY <1>1, <1>2 DEF AttemptInv, ReadySession, ReadyIsHandshaken, IsTerminal,
     IsCurrentSession
<1>4. ASSUME NEW t \in Sessions, t # s
      PROVE  handshakeTimer[t] = FALSE /\ net[t] \notin {"connecting", "open"}
  BY <1>1, <1>2, <1>3, <1>4 DEF AttemptInv, ActiveAttempt,
     LiveSocketHasOwner, TypeOK, Sessions, None
<1> QED
  BY <1>2, <1>3, <1>4

\* After its end no attempt is left.
LEMMA EnterTerminalEnds ==
  ASSUME TypeOK, AttemptInv, NEW s \in Sessions,
         ~IsTerminal(s) \/ activeAttempt = s, EnterTerminal(s)
  PROVE  /\ activeAttempt' = None /\ heartbeat' = FALSE
         /\ phase'[s] = "terminal"
         /\ \A t \in Sessions : handshakeTimer'[t] = FALSE
<1>1. /\ activeAttempt \in {None, s}
      /\ \A t \in Sessions : t # s => handshakeTimer[t] = FALSE
  BY Ending
<1> QED
  BY <1>1 DEF EnterTerminal, ReleaseOwnership, TypeOK

\* A failure ends the attempt, the session and the connection together.
LEMMA FailInv ==
  ASSUME TypeOK, AttemptInv, NEW s \in Sessions,
         ~IsTerminal(s) \/ activeAttempt = s,
         NEW why \in Reasons, NEW closeTransport \in BOOLEAN,
         NEW network \in [Sessions -> SocketStates],
         \A t \in Sessions : t # s => network[t] = net[t],
         IF closeTransport
         THEN network[s] \in {"connecting", "open"} => socket = s
         ELSE network[s] \notin {"connecting", "open"},
         Fail(s, why, closeTransport, network)
  PROVE  AttemptInv'
<1>1. /\ activeAttempt \in {None, s}
      /\ activeSessionId \in {None, s}
      /\ \A t \in Sessions : t # s =>
           handshakeTimer[t] = FALSE /\ net[t] \notin {"connecting", "open"}
      /\ status = "ready" => activeSessionId = s
  BY Ending
<1>2. /\ activeAttempt' = None /\ heartbeat' = FALSE
      /\ \A t \in Sessions : handshakeTimer'[t] = FALSE
  BY EnterTerminalEnds DEF Fail
<1>3. status' # "ready" /\ activeSessionId' = None
  BY <1>1 DEF Fail, CloseIfCurrent, IsCurrentSession, Sessions, None
<1>4. \A t \in Sessions : net'[t] \notin {"connecting", "open"}
  BY <1>1, TransportCloseCloses DEF Fail
<1>5. \A t \in Sessions : IsTerminal(t)'
  BY <1>3 DEF IsTerminal, IsCurrentSession, Sessions, None
<1>6. AttemptIsSession' /\ ActiveAttempt' /\ TimerIsCurrent'
  BY <1>2 DEF AttemptIsSession, ActiveAttempt, TimerIsCurrent, Fail,
     Sessions, None
<1> QED
  BY <1>2, <1>3, <1>4, <1>5, <1>6, NothingOpenInv

\* A new attempt starts where nothing was left.
LEMMA ConnectStartsInv ==
  ASSUME TypeOK, AttemptInv, NEW recon \in BOOLEAN,
         activeAttempt = None, status # "ready", ConnectStarts(recon),
         UNCHANGED heartbeat, TimerIsCurrent'
  PROVE  AttemptInv'
<1> DEFINE n == nextSessionId + 1
<1>1. n \in Sessions /\ n # None /\ nextSessionId' = n
  BY Numbers DEF ConnectStarts, NewSession, TypeOK, Sessions, None
<1>2. /\ heartbeat = FALSE
      /\ \A t \in Sessions :
           net[t] \notin {"connecting", "open"} /\ handshakeTimer[t] = FALSE
  BY NothingLeft
<1>3. /\ status' \in {"connecting", "reconnecting"}
      /\ activeSessionId' = n /\ activeAttempt' = n /\ socket' = n
      /\ phase' = [phase EXCEPT ![n] = "transport-opening"]
      /\ promise' = [promise EXCEPT ![n] = "pending"]
      /\ net' = [net EXCEPT ![n] = "connecting"]
      /\ UNCHANGED handshakeTimer
  BY <1>1 DEF ConnectStarts
<1> HIDE DEF n
<1>4. LiveSocketHasOwner'
  BY <1>2, <1>3 DEF LiveSocketHasOwner, TypeOK
<1>5. AttemptIsSession'
  BY <1>3 DEF AttemptIsSession
<1>6. CurrentSession'
  BY <1>1, <1>3 DEF CurrentSession, IsTerminal, IsCurrentSession, TypeOK
<1>7. ActiveAttempt'
  BY <1>1, <1>2, <1>3 DEF ActiveAttempt, TypeOK
<1>8. ReadySession'
  BY <1>2, <1>3 DEF ReadySession, ReadyIsHandshaken
<1> QED
  BY <1>4, <1>5, <1>6, <1>7, <1>8 DEF AttemptInv

\* So does one that is refused on the spot.
LEMMA ConnectRefusedInv ==
  ASSUME TypeOK, AttemptInv, NEW recon \in BOOLEAN,
         activeAttempt = None, status # "ready", ConnectRefused(recon),
         UNCHANGED heartbeat, TimerIsCurrent'
  PROVE  AttemptInv'
<1> DEFINE n == nextSessionId + 1
<1>1. n \in Sessions /\ n # None /\ nextSessionId' = n
  BY Numbers DEF ConnectRefused, NewSession, TypeOK, Sessions, None
<1>2. /\ heartbeat = FALSE
      /\ \A t \in Sessions :
           net[t] \notin {"connecting", "open"} /\ handshakeTimer[t] = FALSE
  BY NothingLeft
<1>3. status' = "closed" /\ activeSessionId' = None /\ net' = net
  BY DEF ConnectRefused, transportVars
<1>4. \A t \in Sessions : IsTerminal(t)'
  BY <1>3 DEF IsTerminal, IsCurrentSession, Sessions, None
<1>5. /\ UNCHANGED handshakeTimer
      /\ \/ activeAttempt' = None
         \/ activeAttempt' = n /\ promise' = [promise EXCEPT ![n] = "pending"]
  BY <1>1 DEF ConnectRefused, attemptVars
<1> HIDE DEF n
<1>6. ActiveAttempt'
  BY <1>1, <1>2, <1>5 DEF ActiveAttempt, TypeOK
<1>7. AttemptIsSession'
  BY <1>3 DEF AttemptIsSession
<1> QED
  BY <1>2, <1>3, <1>4, <1>6, <1>7, NothingOpenInv

\* connect() joins the attempt in progress, or starts or refuses one.
LEMMA HostConnectInv ==
  ASSUME TypeOK, AttemptInv, HostConnect
  PROVE  AttemptInv'
<1>1. UNCHANGED <<heartbeat, timer, elapsed, reconnecting>> /\ status # "ready"
  BY DEF HostConnect, recoveryVars
<1>2. CASE UNCHANGED <<lifecycleVars, attemptVars, transportVars>>
  BY <1>1, <1>2 DEF AttemptInv, LiveSocketHasOwner, AttemptIsSession,
     CurrentSession, ActiveAttempt, ReadySession, ReadyIsHandshaken,
     TimerIsCurrent, ContinuationDue, IsTerminal, IsCurrentSession,
     lifecycleVars, attemptVars, transportVars
<1>3. CASE activeAttempt = None /\ ConnectStarts(FALSE)
  <2>1. TimerIsCurrent'
    BY <1>1, <1>3 DEF AttemptInv, TimerIsCurrent, ConnectStarts, NewSession
  <2> QED
    BY <1>1, <1>3, <2>1, ConnectStartsInv
<1>4. CASE activeAttempt = None /\ ConnectRefused(FALSE)
  <2>1. TimerIsCurrent'
    BY <1>1, <1>4 DEF AttemptInv, TimerIsCurrent, ConnectRefused, NewSession
  <2> QED
    BY <1>1, <1>4, <2>1, ConnectRefusedInv
<1> QED
  BY <1>2, <1>3, <1>4 DEF HostConnect

\* disconnect() leaves nothing open and nothing in progress.
LEMMA HostDisconnectInv ==
  ASSUME TypeOK, AttemptInv, HostDisconnect
  PROVE  AttemptInv'
<1>1. /\ status' = "closed" /\ activeSessionId' = None
      /\ activeAttempt' = None /\ heartbeat' = FALSE /\ timer' = NoTimer
      /\ TransportClose(net)
  BY DEF HostDisconnect
<1>2. \A t \in Sessions : net'[t] \notin {"connecting", "open"}
  BY <1>1, TransportCloseCloses
     DEF AttemptInv, LiveSocketHasOwner, TypeOK
<1>3. \A t \in Sessions : IsTerminal(t)'
  BY <1>1 DEF IsTerminal, IsCurrentSession, Sessions, None
<1>4. \A t \in Sessions : handshakeTimer'[t] = FALSE
  <2>1. CASE activeAttempt = None
    BY <2>1 DEF AttemptInv, ActiveAttempt, TypeOK, HostDisconnect, Sessions,
       None
  <2>2. CASE activeAttempt # None
    <3>1. handshakeTimer' = [handshakeTimer EXCEPT ![activeAttempt] = FALSE]
      BY <2>2 DEF HostDisconnect
    <3>2. \A t \in Sessions : t # activeAttempt => handshakeTimer[t] = FALSE
      BY DEF AttemptInv, ActiveAttempt, TypeOK
    <3> QED
      BY <3>1, <3>2 DEF TypeOK
  <2> QED
    BY <2>1, <2>2
<1>5. AttemptIsSession' /\ ActiveAttempt' /\ TimerIsCurrent'
  BY <1>1, <1>4 DEF AttemptIsSession, ActiveAttempt, TimerIsCurrent
<1> QED
  BY <1>1, <1>2, <1>3, <1>5, NothingOpenInv

\* An abort ends the attempt that listens to it, and nothing else.
LEMMA HostAbortInv ==
  ASSUME TypeOK, AttemptInv, HostAbort
  PROVE  AttemptInv'
<1>1. CASE UNCHANGED <<lifecycleVars, attemptVars, transportVars, heartbeat,
                       recoveryVars>>
  BY <1>1 DEF AttemptInv, LiveSocketHasOwner, AttemptIsSession,
     CurrentSession, ActiveAttempt, ReadySession, ReadyIsHandshaken,
     TimerIsCurrent, ContinuationDue, IsTerminal, IsCurrentSession,
     lifecycleVars, attemptVars, transportVars, recoveryVars
<1>2. ASSUME NEW s \in Sessions,
             ~IsTerminal(s), CloseIfCurrent(s, "cancelled"),
             Settle(s, "rejected"), EnterTerminal(s), timer' = NoTimer,
             TransportClose(net),
             UNCHANGED <<reconnectAttempt, awaited, elapsed, reconnecting>>
      PROVE  AttemptInv'
  <2>2. /\ activeAttempt' = None /\ heartbeat' = FALSE
        /\ \A t \in Sessions : handshakeTimer'[t] = FALSE
    BY <1>2, EnterTerminalEnds
  <2>3. status' # "ready" /\ activeSessionId' = None
    BY <1>2 DEF CloseIfCurrent, IsTerminal
  <2>4. \A t \in Sessions : net'[t] \notin {"connecting", "open"}
    BY <1>2, TransportCloseCloses DEF AttemptInv, LiveSocketHasOwner, TypeOK
  <2>5. \A t \in Sessions : IsTerminal(t)'
    BY <2>3 DEF IsTerminal, IsCurrentSession, Sessions, None
  <2>6. AttemptIsSession' /\ ActiveAttempt' /\ TimerIsCurrent'
    BY <1>2, <2>2 DEF AttemptIsSession, ActiveAttempt, TimerIsCurrent
  <2> QED
    BY <2>2, <2>3, <2>4, <2>5, <2>6, NothingOpenInv
<1> QED
  BY <1>1, <1>2 DEF HostAbort

\* A socket that opens advances the attempt it belongs to.
LEMMA HandleOpenInv ==
  ASSUME TypeOK, AttemptInv, NEW s \in Sessions, HandleOpen(s)
  PROVE  AttemptInv'
<1> DEFINE opened == [net EXCEPT ![s] = "open"]
<1>1. /\ opened \in [Sessions -> SocketStates]
      /\ \A t \in Sessions : t # s => opened[t] = net[t]
      /\ net[s] = "connecting" /\ socket = s
      /\ \A t \in Sessions :
           opened[t] \in {"connecting", "open"}
             <=> net[t] \in {"connecting", "open"}
  BY Names DEF HandleOpen, AttemptInv, LiveSocketHasOwner, TypeOK
<1>2. CASE Fail(s, "startup_failure", TRUE, opened) /\ ~IsTerminal(s)
  <2>1. "startup_failure" \in Reasons /\ TRUE \in BOOLEAN
    BY Names
  <2> HIDE DEF opened
  <2> QED
    BY <1>1, <1>2, <2>1, FailInv
<1>3. CASE ~(Fail(s, "startup_failure", TRUE, opened) /\ ~IsTerminal(s))
  <2> HIDE DEF opened
  <2>1. /\ net' = opened
        /\ UNCHANGED <<status, activeSessionId, activeAttempt, promise,
                       socket, heartbeat, timer, elapsed, reconnecting,
                       generation>>
        /\ \/ UNCHANGED <<phase, handshakeTimer>>
           \/ /\ ~IsTerminal(s)
              /\ phase' = [phase EXCEPT ![s] = "register-sent"]
              /\ handshakeTimer' =
                   [handshakeTimer EXCEPT ![s] = HandshakeTimer]
    BY <1>3 DEF HandleOpen, opened, lifecycleVars, attemptVars, recoveryVars
  <2>2. status = "ready" => activeSessionId # s \/ IsTerminal(s)
    BY <1>1 DEF AttemptInv, ReadySession, ReadyIsHandshaken
  <2>3. ~IsTerminal(s) => activeAttempt = s /\ phase[s] # "ready"
    BY <2>2 DEF AttemptInv, CurrentSession, ReadySession, IsTerminal,
       IsCurrentSession
  <2>4. LiveSocketHasOwner'
    BY <1>1, <2>1 DEF AttemptInv, LiveSocketHasOwner
  <2>5. AttemptIsSession' /\ TimerIsCurrent'
    BY <2>1 DEF AttemptInv, AttemptIsSession, TimerIsCurrent
  <2>6. CurrentSession'
    <3>1. ASSUME NEW t \in Sessions, ~IsTerminal(t)'
          PROVE  /\ ~IsTerminal(t)
                 /\ \/ phase'[t] = phase[t]
                    \/ t = s /\ phase'[t] # "ready"
      <4>1. activeSessionId = t /\ phase'[t] # "terminal"
        BY <2>1, <3>1 DEF IsTerminal, IsCurrentSession
      <4>2. CASE phase' = phase
        <5>1. phase'[t] = phase[t] /\ phase[t] # "terminal"
          BY <4>1, <4>2
        <5> QED
          BY <4>1, <5>1 DEF IsTerminal, IsCurrentSession
      <4>3. CASE /\ ~IsTerminal(s)
                 /\ phase' = [phase EXCEPT ![s] = "register-sent"]
        <5>1. s = t
          BY <4>1, <4>3 DEF IsTerminal, IsCurrentSession
        <5> QED
          BY <4>3, <5>1 DEF TypeOK
      <4> QED
        BY <2>1, <4>2, <4>3
    <3> QED
      BY <1>1, <2>1, <2>3, <3>1 DEF AttemptInv, CurrentSession
  <2>7. ActiveAttempt'
    BY <2>1, <2>3 DEF AttemptInv, ActiveAttempt, TypeOK
  <2>8. ReadySession'
    <3>1. status' = "ready" =>
            /\ phase'[activeSessionId] = phase[activeSessionId]
            /\ net'[socket] = net[socket]
      BY <1>1, <2>1, <2>3 DEF opened, AttemptInv, ReadySession,
         ReadyIsHandshaken, TypeOK
    <3> QED
      BY <2>1, <3>1 DEF AttemptInv, ReadySession, ReadyIsHandshaken,
         ContinuationDue
  <2> QED
    BY <2>4, <2>5, <2>6, <2>7, <2>8 DEF AttemptInv
<1> QED
  BY <1>2, <1>3

\* A handshake answer makes its session READY, or fails it.
LEMMA HandleHandshakeFrameInv ==
  ASSUME TypeOK, AttemptInv, NEW s \in Sessions,
         NEW frame \in HandshakeFrames, HandleHandshakeFrame(s, frame)
  PROVE  AttemptInv'
<1>1. ~IsTerminal(s) /\ net[s] = "open" /\ socket = s
  BY DEF HandleHandshakeFrame, AttemptInv, CurrentSession
<1>2. CASE Fail(s, "startup_failure", TRUE, net)
  BY <1>1, <1>2, FailInv, Names DEF TypeOK
<1>3. CASE ~Fail(s, "startup_failure", TRUE, net)
  <2>1. /\ phase[s] # "ready" /\ ~ContinuationDue
        /\ handshakeTimer' = [handshakeTimer EXCEPT ![s] = FALSE]
        /\ elapsed' = NoWindow /\ status' = "ready"
        /\ phase' = [phase EXCEPT ![s] = "ready"]
        /\ heartbeat' = TRUE
        /\ Settle(s, "resolved") /\ ReleaseOwnership(s)
        /\ UNCHANGED <<generation, activeSessionId, transportVars, timer,
                       reconnecting>>
    BY <1>3 DEF HandleHandshakeFrame, MacrotaskTurn
  <2>2. activeAttempt = s /\ activeSessionId = s /\ promise[s] = "pending"
    BY <1>1, <2>1 DEF AttemptInv, CurrentSession, ActiveAttempt, IsTerminal,
       IsCurrentSession, Sessions, None
  <2>3. /\ activeAttempt' = None /\ activeSessionId' = s
        /\ promise' = [promise EXCEPT ![s] = "resolved"]
        /\ UNCHANGED <<net, socket>>
    BY <2>1, <2>2 DEF ReleaseOwnership, Settle, transportVars
  <2>4. LiveSocketHasOwner'
    BY <1>1, <2>1, <2>3 DEF AttemptInv, LiveSocketHasOwner
  <2>5. AttemptIsSession' /\ TimerIsCurrent'
    BY <2>1, <2>3 DEF AttemptInv, AttemptIsSession, TimerIsCurrent
  <2>6. CurrentSession'
    BY <1>1, <2>1, <2>3 DEF CurrentSession, IsTerminal, IsCurrentSession,
       TypeOK
  <2>7. ActiveAttempt'
    BY <2>1, <2>2, <2>3 DEF AttemptInv, ActiveAttempt, TypeOK
  <2>8. ~ContinuationDue'
    BY <2>1, <2>3, Numbers DEF ContinuationDue, TypeOK
  <2>9. ReadySession'
    BY <1>1, <2>1, <2>3, <2>8 DEF ReadySession, ReadyIsHandshaken, TypeOK,
       Sessions, None
  <2> QED
    BY <2>4, <2>5, <2>6, <2>7, <2>9 DEF AttemptInv
<1> QED
  BY <1>2, <1>3

\* A close that leaves the session reconnecting, with or without a new
\* window.
LEMMA ReconnectCloseInv ==
  ASSUME TypeOK, AttemptInv, NEW s \in Sessions, ~IsTerminal(s),
         EnterTerminal(s), net' = [net EXCEPT ![s] = "closed"],
         status' # "ready", activeSessionId' \in {None, activeSessionId},
         TimerIsCurrent'
  PROVE  AttemptInv'
<1>1. /\ activeSessionId = s
      /\ \A t \in Sessions : t # s => net[t] \notin {"connecting", "open"}
  BY Ending DEF IsTerminal, IsCurrentSession
<1>2. /\ activeAttempt' = None /\ heartbeat' = FALSE
      /\ phase'[s] = "terminal"
      /\ \A t \in Sessions : handshakeTimer'[t] = FALSE
  BY EnterTerminalEnds
<1>3. \A t \in Sessions : net'[t] \notin {"connecting", "open"}
  BY <1>1 DEF TypeOK
<1>4. \A t \in Sessions : IsTerminal(t)'
  BY <1>1, <1>2 DEF IsTerminal, IsCurrentSession, Sessions, None
<1>5. AttemptIsSession' /\ ActiveAttempt'
  BY <1>2 DEF AttemptIsSession, ActiveAttempt
<1> QED
  BY <1>2, <1>3, <1>4, <1>5, NothingOpenInv

\* Scheduling a reconnect never leaves READY in place by mistake, and arms
\* only timers of this generation.
LEMMA ScheduleReconnectInv ==
  ASSUME TypeOK, AttemptInv, NEW left \in {timer, NoTimer},
         ScheduleReconnect(left)
  PROVE  /\ TimerIsCurrent'
         /\ activeSessionId' \in {None, activeSessionId}
         /\ status' \in {status, "closed", "reconnecting"}
         /\ ~aborted /\ ReconnectEnabled /\ ~manuallyDisconnected =>
              status' \in {"closed", "reconnecting"}
         /\ status' = status \/ ~aborted
         /\ UNCHANGED generation
  BY DEF ScheduleReconnect, CloseExhausted, AttemptInv, TimerIsCurrent,
     TypeOK, lifecycleVars

\* A close is heeded only by the attempt that owns the socket.
LEMMA HandleCloseInv ==
  ASSUME TypeOK, AttemptInv, NEW s \in Sessions, NEW code \in CloseCodes,
         HandleClose(s, code)
  PROVE  AttemptInv'
<1> DEFINE closed == [net EXCEPT ![s] = "closed"]
<1>1. /\ closed \in [Sessions -> SocketStates] /\ closed[s] = "closed"
      /\ \A t \in Sessions : t # s => closed[t] = net[t]
  BY Names DEF TypeOK
<1>2. CASE HandleLateClose(s, closed)
  <2>1. /\ net' = closed /\ IsTerminal(s)
        /\ UNCHANGED <<lifecycleVars, attemptVars, socket, heartbeat,
                       recoveryVars>>
    BY <1>2 DEF HandleLateClose
  <2> HIDE DEF closed
  <2>2. LiveSocketHasOwner'
    BY <1>1, <2>1 DEF AttemptInv, LiveSocketHasOwner, lifecycleVars,
       attemptVars
  <2>3. CurrentSession'
    BY <1>1, <2>1 DEF AttemptInv, CurrentSession, IsTerminal,
       IsCurrentSession, lifecycleVars, attemptVars
  <2>4. ReadySession'
    BY <1>1, <2>1 DEF AttemptInv, ReadySession, ReadyIsHandshaken,
       ContinuationDue, IsTerminal, IsCurrentSession, TypeOK, Sessions, None,
       lifecycleVars, attemptVars, recoveryVars
  <2> QED
    BY <2>1, <2>2, <2>3, <2>4 DEF AttemptInv, AttemptIsSession,
       ActiveAttempt, TimerIsCurrent, lifecycleVars, attemptVars,
       recoveryVars
<1>3. CASE /\ ~IsTerminal(s) /\ CloseDecision(s, code) = "continue-window"
           /\ ContinueReconnectWindow(s, closed)
  <2>1. phase[s] # "ready"
    BY <1>3 DEF CloseDecision
  <2>2. status # "ready"
    BY <1>3, <2>1 DEF AttemptInv, ReadySession, ReadyIsHandshaken, IsTerminal,
       IsCurrentSession
  <2>3. /\ EnterTerminal(s) /\ net' = closed
        /\ UNCHANGED <<lifecycleVars, timer>>
    BY <1>3 DEF ContinueReconnectWindow, recoveryVars
  <2>4. TimerIsCurrent'
    BY <2>3 DEF AttemptInv, TimerIsCurrent, lifecycleVars
  <2> QED
    BY <1>3, <2>2, <2>3, <2>4, ReconnectCloseInv DEF lifecycleVars
<1>4. CASE /\ ~IsTerminal(s) /\ CloseDecision(s, code) = "start-window"
           /\ StartReconnectWindow(s, closed)
  <2>1. ~manuallyDisconnected /\ ~aborted /\ ReconnectEnabled
    BY <1>4 DEF CloseDecision
  <2>2. EnterTerminal(s) /\ ScheduleReconnect(NoTimer) /\ net' = closed
    BY <1>4 DEF StartReconnectWindow
  <2> QED
    BY <1>4, <2>1, <2>2, ScheduleReconnectInv, ReconnectCloseInv
<1>5. CASE ~IsTerminal(s) /\ StopClose(s, closed)
  BY <1>1, <1>5, FailInv, Names DEF StopClose
<1> QED
  BY <1>2, <1>3, <1>4, <1>5 DEF HandleClose

\* A handshake timeout only ever fires for the active attempt.
LEMMA HandshakeTimeoutInv ==
  ASSUME TypeOK, AttemptInv, NEW s \in Sessions, HandshakeTimeout(s)
  PROVE  AttemptInv'
<1>1. activeAttempt = s /\ (net[s] \in {"connecting", "open"} => socket = s)
  BY DEF HandshakeTimeout, AttemptInv, ActiveAttempt, LiveSocketHasOwner
<1> QED
  BY <1>1, FailInv, Names DEF HandshakeTimeout, TypeOK

\* With nothing but the lifecycle state, the window and the orchestrator
\* changed, the invariant holds as long as READY is not left with its socket
\* open.
LEMMA RecoveryInv ==
  ASSUME TypeOK, AttemptInv,
         UNCHANGED <<attemptVars, transportVars, heartbeat>>,
         \/ status # "ready" /\ status' # "ready"
            /\ activeSessionId' \in {None, activeSessionId}
         \/ UNCHANGED lifecycleVars /\ timer' = NoTimer
            /\ UNCHANGED reconnecting,
         TimerIsCurrent'
  PROVE  AttemptInv'
<1> USE DEF attemptVars, transportVars
<1>1. LiveSocketHasOwner' /\ CurrentSession'
  BY DEF AttemptInv, LiveSocketHasOwner, CurrentSession, IsTerminal,
     IsCurrentSession, lifecycleVars, Sessions, None
<1>2. AttemptIsSession' /\ ActiveAttempt'
  BY DEF AttemptInv, AttemptIsSession, ActiveAttempt, lifecycleVars
<1>3. ReadySession'
  BY DEF AttemptInv, ReadySession, ReadyIsHandshaken, ContinuationDue,
     lifecycleVars
<1> QED
  BY <1>1, <1>2, <1>3 DEF AttemptInv

\* A reconnect timer starts an attempt, joins one, or gives up.
LEMMA ReconnectTimerInv ==
  ASSUME TypeOK, AttemptInv, ReconnectTimer
  PROVE  AttemptInv'
<1>1. timer' = NoTimer /\ timer # NoTimer /\ UNCHANGED heartbeat
  BY DEF ReconnectTimer
<1>2. TimerIsCurrent'
  BY <1>1 DEF TimerIsCurrent
<1>3. status = "ready" => WindowElapsed = 0 /\ MaxElapsed > 0
  BY <1>1, BoundsAssumption DEF BoundsAssumption, AttemptInv, ReadySession,
     WindowElapsed
<1>4. CASE activeAttempt = None /\ status # "ready" /\ ConnectStarts(TRUE)
  BY <1>1, <1>2, <1>4, ConnectStartsInv
<1>5. CASE activeAttempt = None /\ status # "ready" /\ ConnectRefused(TRUE)
  BY <1>1, <1>2, <1>5, ConnectRefusedInv
<1>6. CASE /\ WindowElapsed >= MaxElapsed /\ CloseExhausted
           /\ UNCHANGED <<attemptVars, transportVars>>
  <2>1. status # "ready"
    BY <1>3, <1>6, BoundsAssumption DEF BoundsAssumption
  <2> QED
    BY <1>1, <1>2, <1>6, <2>1, RecoveryInv DEF CloseExhausted
<1>7. CASE UNCHANGED <<lifecycleVars, attemptVars, transportVars,
                       reconnecting>>
  BY <1>1, <1>2, <1>7, RecoveryInv
<1>8. CASE status # "ready" /\ UNCHANGED <<lifecycleVars, attemptVars,
                                           transportVars>>
  BY <1>1, <1>2, <1>8, RecoveryInv DEF lifecycleVars
<1> QED
  BY <1>4, <1>5, <1>6, <1>7, <1>8 DEF ReconnectTimer

\* The continuation of a failed attempt never meets a READY client.
LEMMA ReconnectContinueInv ==
  ASSUME TypeOK, AttemptInv, ReconnectContinue
  PROVE  AttemptInv'
<1>1. status # "ready"
  BY DEF ReconnectContinue, AttemptInv, ReadySession
<1>2. ScheduleReconnect(timer)
      /\ UNCHANGED <<attemptVars, transportVars, heartbeat>>
  BY DEF ReconnectContinue
<1> QED
  BY <1>1, <1>2, ScheduleReconnectInv, RecoveryInv

\* The clock advances only inside a window.
LEMMA TickInv ==
  ASSUME TypeOK, AttemptInv, Tick
  PROVE  AttemptInv'
<1>1. elapsed # NoWindow /\ elapsed' # NoWindow
  BY BoundsAssumption DEF BoundsAssumption, Tick, NoWindow, TypeOK
<1> QED
  BY <1>1 DEF Tick, AttemptInv, LiveSocketHasOwner, AttemptIsSession,
     CurrentSession, ActiveAttempt, ReadySession, ReadyIsHandshaken,
     TimerIsCurrent, ContinuationDue, IsTerminal, IsCurrentSession,
     lifecycleVars, attemptVars, transportVars

\* Every handler keeps the invariant.
LEMMA NextAttemptInv == TypeOK /\ AttemptInv /\ [Next]_vars => AttemptInv'
<1> SUFFICES ASSUME TypeOK, AttemptInv, [Next]_vars PROVE AttemptInv'
  OBVIOUS
<1>1. CASE UNCHANGED vars
  BY <1>1 DEF vars, AttemptInv, LiveSocketHasOwner, AttemptIsSession,
     CurrentSession, ActiveAttempt, ReadySession, ReadyIsHandshaken,
     TimerIsCurrent, ContinuationDue, IsTerminal, IsCurrentSession,
     lifecycleVars, attemptVars, transportVars, recoveryVars
<1>2. ASSUME NEW s \in Sessions, SocketEvent(s) PROVE AttemptInv'
  BY <1>2, HandleOpenInv, HandleHandshakeFrameInv, HandleCloseInv
     DEF SocketEvent
<1> QED
  BY <1>1, <1>2, HostConnectInv, HostDisconnectInv, HostAbortInv,
     HandshakeTimeoutInv, ReconnectTimerInv, ReconnectContinueInv, TickInv
     DEF Next

\* Status, attempt, socket, timers and heartbeats agree in every reachable
\* state, for every option of the client and every conduct of its host.
THEOREM AttemptsAgree == Spec => []AttemptInv
<1>1. Init => TypeOK /\ AttemptInv
  BY InitTypeOK, InitAttemptInv
<1>2. TypeOK /\ AttemptInv /\ [Next]_vars => TypeOK' /\ AttemptInv'
  BY NextTypeOK, NextAttemptInv
<1> QED
  BY <1>1, <1>2, PTL DEF Spec

\* READY is the state of one connection from end to end: status, session,
\* handshake, promise, socket and heartbeats.
THEOREM ReadyIsOneConnection == Spec => []ReadyIsHandshaken
<1>1. AttemptInv => ReadyIsHandshaken
  BY DEF AttemptInv, ReadySession
<1> QED
  BY <1>1, AttemptsAgree, PTL

\* The transport never loses sight of a socket that is open or coming up.
THEOREM SocketsAreReachable == Spec => []NoOrphanSocket
<1>1. AttemptInv => NoOrphanSocket
  BY DEF AttemptInv, LiveSocketHasOwner, NoOrphanSocket
<1> QED
  BY <1>1, AttemptsAgree, PTL

\* A reconnect timer is always of the current generation.
THEOREM TimersAreCurrent == Spec => []TimerIsCurrent
<1>1. AttemptInv => TimerIsCurrent
  BY DEF AttemptInv
<1> QED
  BY <1>1, AttemptsAgree, PTL

-----------------------------------------------------------------------------
(* The contract: GatewayClient implements GatewayContract for every number *)
(* of sessions and disconnects and every budget, as long as its host does  *)
(* what the contract asks of it: every step of the client reports a step   *)
(* of the contract, or nothing.                                            *)

Contract ==
  INSTANCE GatewayContract WITH status <- status, reason <- reason

\* The host of bridge-runtime-sdk: no connect() on a client that reconnects,
\* no microtask ahead of the client's own.  The policy's longest delay fits
\* its window (resolveOptions).  It may abort, and sockets may throw.
ContractHost ==
  /\ ConnectFrom \subseteq {"closed", "connecting"}
  /\ ~MicrotaskRace
  /\ \A delay \in Delays : delay < MaxElapsed

\* A closed client has no session, one that is not closed no cause.
CauseOfClosed ==
  /\ status = "closed" => activeSessionId = None
  /\ status # "closed" => reason = "none"

\* Timers and continuations exist only between the attempts of a recovery,
\* and never both.
RecoveryBetweenAttempts ==
  /\ timer # NoTimer => status = "reconnecting" /\ activeAttempt = None
  /\ ContinuationDue => status = "reconnecting" /\ activeAttempt = None
  /\ ContinuationDue => timer = NoTimer

\* An attempt in progress is reported as what it is.
AttemptIsReported ==
  \A s \in Sessions : ~IsTerminal(s) /\ phase[s] # "ready" =>
    status = IF reconnectAttempt[s] THEN "reconnecting" ELSE "connecting"

\* READY has its whole window ahead.
ReadyHasWindow == status = "ready" => elapsed = NoWindow

ContractInv ==
  /\ CauseOfClosed
  /\ RecoveryBetweenAttempts
  /\ AttemptIsReported
  /\ ReadyHasWindow

\* Everything that is known before a step.
Known == TypeOK /\ AttemptInv /\ ContractInv /\ ContractHost

-----------------------------------------------------------------------------

\* The reports a step may make.
LEMMA ReportsAreAllowed ==
  ASSUME TypeOK,
         \/ UNCHANGED <<status, reason>>
         \/ status' = "closed"
            /\ reason' \in {"manual", "cancelled", "startup_failure"}
         \/ status = "ready" /\ status' = "closed"
            /\ reason' = "runtime_failure"
         \/ status = "reconnecting" /\ status' = "closed"
            /\ reason' = "exhausted"
         \/ status \in {"connecting", "reconnecting"} /\ status' = "ready"
            /\ reason' = "none"
         \/ status = "closed" /\ status' = "connecting" /\ reason' = "none"
         \/ status = "ready" /\ status' = "reconnecting" /\ reason' = "none"
  PROVE  [Contract!Next]_(Contract!vars)
<1> USE DEF Contract!Next, Contract!vars, Contract!Report, Contract!Closes
<1>1. status \in {"closed", "connecting", "ready", "reconnecting"}
  BY DEF TypeOK, Statuses
<1> QED
  BY <1>1 DEF Contract!Connect, Contract!Refuse, Contract!Establish,
     Contract!FailConnect, Contract!Lose, Contract!Drop, Contract!GiveUp,
     Contract!Disconnect

\* What every failure of an attempt does.
Fails(s, why) ==
  /\ CloseIfCurrent(s, why) /\ Settle(s, "rejected") /\ EnterTerminal(s)
  /\ timer' = NoTimer
  /\ UNCHANGED <<reconnectAttempt, elapsed, reconnecting>>
  /\ MacrotaskTurn
  /\ ~IsTerminal(s) \/ activeAttempt = s

\* The causes a failure gives, at the status it may give them.
MayGive(why) ==
  \/ why \in {"cancelled", "startup_failure"}
  \/ why = "runtime_failure" /\ status = "ready"

\* An attempt that fails, in whatever way, closes a session that was its own.
LEMMA FailReports ==
  ASSUME Known, NEW s \in Sessions, NEW why, Fails(s, why), MayGive(why)
  PROVE  ContractInv' /\ [Contract!Next]_(Contract!vars)
<1> USE DEF Fails, MayGive
<1>1. [Contract!Next]_(Contract!vars)
  BY ReportsAreAllowed DEF CloseIfCurrent, Known
<1>2. timer' = NoTimer /\ ~ContinuationDue'
  BY DEF Settle, MacrotaskTurn, ContinuationDue, Known, TypeOK
<1>3. CASE IsCurrentSession(s)
  <2>1. status' = "closed" /\ activeSessionId' = None
    BY <1>3 DEF CloseIfCurrent
  <2> QED
    BY <1>1, <1>2, <2>1 DEF ContractInv, CauseOfClosed,
       RecoveryBetweenAttempts, AttemptIsReported, ReadyHasWindow, IsTerminal,
       IsCurrentSession, None, Sessions
<1>4. CASE ~IsCurrentSession(s)
  <2>1. UNCHANGED <<status, reason, activeSessionId>>
    BY <1>4 DEF CloseIfCurrent
  <2>2. activeAttempt = s /\ activeSessionId = None
    BY <1>4 DEF IsTerminal, IsCurrentSession, Known, AttemptInv,
       AttemptIsSession, Sessions, None
  <2> QED
    BY <1>1, <1>2, <2>1, <2>2 DEF Known, ContractInv, CauseOfClosed,
       RecoveryBetweenAttempts, AttemptIsReported, ReadyHasWindow, IsTerminal,
       IsCurrentSession, None, Sessions
<1> QED
  BY <1>3, <1>4

\* connect(), of the host or of the reconnect task, with no timer left.
LEMMA ConnectReports ==
  ASSUME Known, NEW recon \in BOOLEAN,
         \/ ConnectStarts(recon) /\ reconnecting' \in {reconnecting, nextSessionId'}
         \/ ConnectRefused(recon) /\ UNCHANGED reconnecting,
         timer' = NoTimer, ~ContinuationDue,
         \/ status \in {"closed", "connecting"} /\ ~recon
            /\ UNCHANGED elapsed
         \/ status = "reconnecting" /\ recon
  PROVE  ContractInv' /\ [Contract!Next]_(Contract!vars)
<1>1. nextSessionId' \in Sessions /\ nextSessionId' # None
  BY Numbers DEF ConnectStarts, ConnectRefused, NewSession, Known, TypeOK,
     Sessions, None
<1>2. promise' = promise \/
        promise' = [promise EXCEPT ![nextSessionId'] = "pending"]
  BY DEF ConnectStarts, ConnectRefused, attemptVars
<1>3. ~ContinuationDue'
  <2>1. CASE UNCHANGED reconnecting
    <3>1. \A t \in Sessions : promise'[t] \in {promise[t], "pending"}
      BY <1>1, <1>2 DEF Known, TypeOK
    <3>2. reconnecting # None => reconnecting \in Sessions
      BY Numbers DEF Known, TypeOK
    <3> QED
      BY <2>1, <3>1, <3>2 DEF ContinuationDue
  <2>2. CASE /\ promise' = [promise EXCEPT ![nextSessionId'] = "pending"]
             /\ reconnecting' = nextSessionId'
    BY <1>1, <2>2 DEF ContinuationDue, Known, TypeOK
  <2>3. ConnectStarts(recon) =>
          promise' = [promise EXCEPT ![nextSessionId'] = "pending"]
    BY DEF ConnectStarts
  <2>4. \/ UNCHANGED reconnecting
        \/ ConnectStarts(recon) /\ reconnecting' = nextSessionId'
    OBVIOUS
  <2> QED
    BY <2>1, <2>2, <2>3, <2>4
<1>4. CASE ConnectStarts(recon)
  <2>1. /\ status' = IF recon THEN "reconnecting" ELSE "connecting"
        /\ reason' = "none" /\ activeSessionId' = nextSessionId'
        /\ reconnectAttempt' =
             [reconnectAttempt EXCEPT ![nextSessionId'] = recon]
    BY <1>4 DEF ConnectStarts
  <2>2. reconnectAttempt'[nextSessionId'] = recon
    BY <1>1, <2>1 DEF Known, TypeOK
  <2>3. [Contract!Next]_(Contract!vars)
    BY <2>1, ReportsAreAllowed DEF Known, ContractInv, CauseOfClosed
  <2>4. AttemptIsReported'
    BY <2>1, <2>2 DEF AttemptIsReported, IsTerminal, IsCurrentSession
  <2> QED
    BY <1>3, <2>1, <2>3, <2>4 DEF ContractInv, CauseOfClosed,
       RecoveryBetweenAttempts, ReadyHasWindow
<1>5. CASE ConnectRefused(recon)
  <2>1. /\ status' = "closed" /\ activeSessionId' = None
        /\ reason' \in {"cancelled", "startup_failure"}
    BY <1>5 DEF ConnectRefused
  <2>2. [Contract!Next]_(Contract!vars)
    BY <2>1, ReportsAreAllowed DEF Known
  <2> QED
    BY <1>3, <2>1, <2>2 DEF ContractInv, CauseOfClosed, AttemptIsReported,
       RecoveryBetweenAttempts, ReadyHasWindow, IsTerminal, IsCurrentSession,
       None, Sessions
<1> QED
  BY <1>4, <1>5

\* Steps that change neither the lifecycle state nor what it is about.
LEMMA StillReports ==
  ASSUME Known, UNCHANGED lifecycleVars,
         UNCHANGED <<phase, reconnectAttempt, timer, elapsed, reconnecting>>,
         UNCHANGED <<activeAttempt, promise>>
  PROVE  ContractInv' /\ [Contract!Next]_(Contract!vars)
<1>1. [Contract!Next]_(Contract!vars)
  BY ReportsAreAllowed DEF Known, lifecycleVars
<1> QED
  BY <1>1 DEF Known, ContractInv, CauseOfClosed, RecoveryBetweenAttempts,
     AttemptIsReported, ReadyHasWindow, ContinuationDue, IsTerminal,
     IsCurrentSession, lifecycleVars

\* connect() comes before any recovery, or joins the attempt in progress.
LEMMA HostConnectReports ==
  ASSUME Known, HostConnect
  PROVE  ContractInv' /\ [Contract!Next]_(Contract!vars)
<1>1. status \in {"closed", "connecting"} /\ ~ContinuationDue
  BY DEF HostConnect, HostTurn, MacrotaskTurn, Known, ContractHost
<1>2. timer = NoTimer /\ UNCHANGED <<timer, elapsed, reconnecting>>
  BY <1>1 DEF HostConnect, recoveryVars, Known, ContractInv,
     RecoveryBetweenAttempts
<1>3. CASE UNCHANGED <<lifecycleVars, attemptVars, transportVars>>
  BY <1>2, <1>3, StillReports DEF attemptVars
<1>4. CASE ConnectStarts(FALSE) \/ ConnectRefused(FALSE)
  BY <1>1, <1>2, <1>4, ConnectReports
<1> QED
  BY <1>3, <1>4 DEF HostConnect

\* disconnect() leaves nothing to happen ...
LEMMA HostDisconnectManual ==
  ASSUME Known, HostDisconnect
  PROVE  /\ status' = "closed" /\ reason' = "manual"
         /\ activeSessionId' = None
         /\ timer' = NoTimer /\ ~ContinuationDue'
<1>1. /\ status' = "closed" /\ reason' = "manual" /\ activeSessionId' = None
      /\ timer' = NoTimer /\ UNCHANGED reconnecting /\ ~ContinuationDue
  BY DEF HostDisconnect, HostTurn, MacrotaskTurn, Known, ContractHost
<1>2. ~ContinuationDue'
  <2>1. promise' = promise
          \/ promise' = [promise EXCEPT ![activeAttempt] = "rejected"]
    BY DEF HostDisconnect, Settle
  <2>2. \A t \in Sessions : promise'[t] \in {promise[t], "rejected"}
    BY <2>1 DEF Known, TypeOK
  <2>3. reconnecting # None => reconnecting \in Sessions
    BY Numbers DEF Known, TypeOK
  <2> QED
    BY <1>1, <2>2, <2>3 DEF ContinuationDue
<1> QED
  BY <1>1, <1>2

\* ... and reports a manual close.
LEMMA HostDisconnectReports ==
  ASSUME Known, HostDisconnect
  PROVE  ContractInv' /\ [Contract!Next]_(Contract!vars)
<1>1. [Contract!Next]_(Contract!vars)
  BY HostDisconnectManual, ReportsAreAllowed DEF Known
<1> QED
  BY <1>1, HostDisconnectManual DEF ContractInv, CauseOfClosed,
     AttemptIsReported, RecoveryBetweenAttempts, ReadyHasWindow, IsTerminal,
     IsCurrentSession, None, Sessions

\* An abort cancels the attempt that listens, or nothing.
LEMMA HostAbortReports ==
  ASSUME Known, HostAbort
  PROVE  ContractInv' /\ [Contract!Next]_(Contract!vars)
<1>1. CASE UNCHANGED <<lifecycleVars, attemptVars, awaited, transportVars,
                       heartbeat, recoveryVars>>
  BY <1>1, StillReports DEF attemptVars, recoveryVars
<1>2. ASSUME NEW s \in Sessions,
             /\ promise[s] = "pending" /\ ~IsTerminal(s)
             /\ CloseIfCurrent(s, "cancelled")
             /\ Settle(s, "rejected")
             /\ EnterTerminal(s)
             /\ StopReconnect
             /\ UNCHANGED <<reconnectAttempt, awaited, elapsed, reconnecting>>
      PROVE  ContractInv' /\ [Contract!Next]_(Contract!vars)
  <2>1. MacrotaskTurn
    BY DEF HostAbort, HostTurn, Known, ContractHost
  <2>2. Fails(s, "cancelled") /\ MayGive("cancelled")
    BY <1>2, <2>1 DEF Fails, MayGive
  <2> QED
    BY <2>2, FailReports
<1> QED
  BY <1>1, <1>2 DEF HostAbort

\* A socket that opens sends the registration: nothing is reported.
LEMMA HandleOpenReports ==
  ASSUME Known, NEW s \in Sessions, HandleOpen(s)
  PROVE  ContractInv' /\ [Contract!Next]_(Contract!vars)
<1>1. CASE UNCHANGED <<lifecycleVars, attemptVars, recoveryVars>>
  BY <1>1, StillReports DEF attemptVars, recoveryVars
<1>2. CASE /\ ~IsTerminal(s)
           /\ phase' = [phase EXCEPT ![s] = "register-sent"]
           /\ UNCHANGED <<lifecycleVars, activeAttempt, reconnectAttempt,
                          promise, recoveryVars>>
  <2>1. [Contract!Next]_(Contract!vars)
    BY <1>2, ReportsAreAllowed DEF Known, lifecycleVars
  <2>2. AttemptIsReported'
    <3>1. phase[s] # "ready"
      BY <1>2 DEF HandleOpen, Known, AttemptInv, ReadySession,
         ReadyIsHandshaken, IsTerminal, IsCurrentSession, CurrentSession
    <3> QED
      BY <1>2, <3>1 DEF Known, ContractInv, AttemptIsReported, IsTerminal,
         IsCurrentSession, lifecycleVars, TypeOK
  <2> QED
    BY <1>2, <2>1, <2>2 DEF Known, ContractInv, CauseOfClosed,
       RecoveryBetweenAttempts, ReadyHasWindow, ContinuationDue,
       lifecycleVars, recoveryVars
<1>3. CASE ~IsTerminal(s)
             /\ Fail(s, "startup_failure", TRUE, [net EXCEPT ![s] = "open"])
  <2>1. Fails(s, "startup_failure") /\ MayGive("startup_failure")
    BY <1>3 DEF Fails, MayGive, Fail, HandleOpen
  <2> QED
    BY <2>1, FailReports
<1> QED
  BY <1>1, <1>2, <1>3 DEF HandleOpen

\* register_ok establishes an attempt that is reported as one.
LEMMA HandleHandshakeFrameReports ==
  ASSUME Known, NEW s \in Sessions, NEW frame \in HandshakeFrames,
         HandleHandshakeFrame(s, frame)
  PROVE  ContractInv' /\ [Contract!Next]_(Contract!vars)
<1>1. CASE Fail(s, "startup_failure", TRUE, net)
  <2>1. Fails(s, "startup_failure") /\ MayGive("startup_failure")
    BY <1>1 DEF Fails, MayGive, Fail, HandleHandshakeFrame
  <2> QED
    BY <2>1, FailReports
<1>2. CASE /\ phase[s] # "ready" /\ elapsed' = NoWindow
           /\ status' = "ready" /\ reason' = "none"
           /\ phase' = [phase EXCEPT ![s] = "ready"]
           /\ Settle(s, "resolved") /\ ReleaseOwnership(s)
           /\ UNCHANGED <<activeSessionId, reconnectAttempt, timer,
                          reconnecting>>
  <2>1. ~IsTerminal(s) /\ activeSessionId = s /\ MacrotaskTurn
    BY DEF HandleHandshakeFrame, IsTerminal, IsCurrentSession
  <2>2. status \in {"connecting", "reconnecting"} /\ activeAttempt = s
    BY <1>2, <2>1 DEF Known, ContractInv, AttemptIsReported, AttemptInv,
       CurrentSession
  <2>3. timer = NoTimer
    BY <2>2 DEF Known, ContractInv, RecoveryBetweenAttempts, Sessions, None
  <2>4. ~ContinuationDue'
    BY <1>2, <2>1 DEF Settle, MacrotaskTurn, ContinuationDue, Known, TypeOK
  <2>5. AttemptIsReported'
    BY <1>2, <2>1 DEF AttemptIsReported, IsTerminal, IsCurrentSession, Known,
       TypeOK
  <2>6. [Contract!Next]_(Contract!vars)
    BY <1>2, <2>2, ReportsAreAllowed DEF Known
  <2> QED
    BY <1>2, <2>1, <2>3, <2>4, <2>5, <2>6 DEF ContractInv, CauseOfClosed,
       RecoveryBetweenAttempts, ReadyHasWindow
<1> QED
  BY <1>1, <1>2 DEF HandleHandshakeFrame

\* A close stops the client, opens a window or lets one go on.
LEMMA HandleCloseReports ==
  ASSUME Known, NEW s \in Sessions, NEW code \in CloseCodes,
         HandleClose(s, code)
  PROVE  ContractInv' /\ [Contract!Next]_(Contract!vars)
<1> DEFINE closed == [net EXCEPT ![s] = "closed"]
<1>1. MacrotaskTurn
  BY DEF HandleClose
<1>2. CASE HandleLateClose(s, closed)
  BY <1>2, StillReports DEF HandleLateClose, attemptVars, recoveryVars
<1>3. CASE ~IsTerminal(s) /\ StopClose(s, closed)
  <2> DEFINE why == IF manuallyDisconnected \/ aborted THEN "cancelled"
                    ELSE IF phase[s] = "ready" THEN "runtime_failure"
                    ELSE "startup_failure"
  <2>1. phase[s] = "ready" => status = "ready"
    BY <1>3 DEF Known, AttemptInv, CurrentSession
  <2>2. MayGive(why)
    BY <2>1 DEF MayGive
  <2>3. Fail(s, why, FALSE, closed)
    BY <1>3 DEF StopClose
  <2> HIDE DEF why
  <2>4. Fails(s, why)
    BY <1>1, <1>3, <2>3 DEF Fails, Fail
  <2> QED
    BY <2>2, <2>4, FailReports
<1>4. CASE /\ ~IsTerminal(s) /\ CloseDecision(s, code) = "continue-window"
           /\ ContinueReconnectWindow(s, closed)
  <2>1. /\ phase[s] # "ready" /\ reconnectAttempt[s] /\ activeSessionId = s
        /\ UNCHANGED <<lifecycleVars, reconnectAttempt, recoveryVars>>
        /\ phase' = [phase EXCEPT ![s] = "terminal"]
        /\ activeAttempt' = IF activeAttempt = s THEN None ELSE activeAttempt
    BY <1>4 DEF CloseDecision, ContinueReconnectWindow, EnterTerminal,
       ReleaseOwnership, IsTerminal, IsCurrentSession
  <2>2. status = "reconnecting" /\ activeAttempt = s
    BY <1>4, <2>1 DEF Known, ContractInv, AttemptIsReported, AttemptInv,
       CurrentSession
  <2>3. timer = NoTimer
    BY <2>2 DEF Known, ContractInv, RecoveryBetweenAttempts, Sessions, None
  <2>4. AttemptIsReported'
    BY <2>1 DEF AttemptIsReported, IsTerminal, IsCurrentSession,
       lifecycleVars, Known, TypeOK
  <2>5. [Contract!Next]_(Contract!vars)
    BY <2>1, ReportsAreAllowed DEF Known, lifecycleVars
  <2> QED
    BY <2>1, <2>2, <2>3, <2>4, <2>5 DEF Known, ContractInv, CauseOfClosed,
       RecoveryBetweenAttempts, ReadyHasWindow, lifecycleVars, recoveryVars
<1>5. CASE /\ ~IsTerminal(s) /\ CloseDecision(s, code) = "start-window"
           /\ StartReconnectWindow(s, closed)
  <2>1. /\ phase[s] = "ready" /\ activeSessionId = s
        /\ ~manuallyDisconnected /\ ~aborted /\ ReconnectEnabled
    BY <1>5 DEF CloseDecision, IsTerminal, IsCurrentSession
  <2>2. status = "ready" /\ WindowElapsed = 0
    BY <1>5, <2>1 DEF Known, AttemptInv, CurrentSession, ContractInv,
       ReadyHasWindow, WindowElapsed
  <2>3. /\ EnterTerminal(s)
        /\ ScheduleReconnect(NoTimer)
        /\ UNCHANGED <<promise, reconnecting>>
    BY <1>5 DEF StartReconnectWindow
  <2>4. PICK delay \in Delays :
          /\ ~(WindowElapsed + delay >= MaxElapsed)
          /\ status' = "reconnecting" /\ reason' = "none"
          /\ UNCHANGED activeSessionId
    <3>1. \A delay \in Delays : ~(WindowElapsed + delay >= MaxElapsed)
      BY <2>2, BoundsAssumption, DelaysAssumption
         DEF BoundsAssumption, DelaysAssumption, Known, ContractHost
    <3> QED
      BY <2>1, <2>3, <3>1 DEF ScheduleReconnect
  <2>5. activeAttempt' = None
    BY <2>2, <2>3 DEF EnterTerminal, ReleaseOwnership, Known, AttemptInv,
       ReadySession
  <2>6. ~ContinuationDue'
    BY <1>1, <2>3 DEF ContinuationDue, MacrotaskTurn
  <2>7. AttemptIsReported'
    BY <2>1, <2>3, <2>4 DEF EnterTerminal, AttemptIsReported, IsTerminal,
       IsCurrentSession, Known, TypeOK
  <2>8. [Contract!Next]_(Contract!vars)
    BY <2>2, <2>4, ReportsAreAllowed DEF Known
  <2> QED
    BY <2>4, <2>5, <2>6, <2>7, <2>8 DEF ContractInv, CauseOfClosed,
       RecoveryBetweenAttempts, ReadyHasWindow
<1> QED
  BY <1>2, <1>3, <1>4, <1>5 DEF HandleClose

\* A handshake timeout fails the attempt it was armed for.
LEMMA HandshakeTimeoutReports ==
  ASSUME Known, NEW s \in Sessions, HandshakeTimeout(s)
  PROVE  ContractInv' /\ [Contract!Next]_(Contract!vars)
<1>1. activeAttempt = s
  BY DEF HandshakeTimeout, Known, AttemptInv, ActiveAttempt
<1>2. Fails(s, "startup_failure") /\ MayGive("startup_failure")
  BY <1>1 DEF HandshakeTimeout, Fails, MayGive, Fail
<1> QED
  BY <1>2, FailReports

\* A reconnect timer only fires between attempts, for a recovery.
LEMMA ReconnectTimerReports ==
  ASSUME Known, ReconnectTimer
  PROVE  ContractInv' /\ [Contract!Next]_(Contract!vars)
<1>1. /\ timer # NoTimer /\ timer' = NoTimer /\ ~ContinuationDue
      /\ status = "reconnecting" /\ activeAttempt = None
  BY DEF ReconnectTimer, MacrotaskTurn, Known, ContractInv,
     RecoveryBetweenAttempts
<1>2. CASE UNCHANGED <<lifecycleVars, attemptVars, reconnecting>>
  <2>1. [Contract!Next]_(Contract!vars)
    BY <1>2, ReportsAreAllowed DEF Known, lifecycleVars
  <2> QED
    BY <1>1, <1>2, <2>1 DEF Known, ContractInv, CauseOfClosed,
       RecoveryBetweenAttempts, AttemptIsReported, ReadyHasWindow,
       ContinuationDue, IsTerminal, IsCurrentSession, lifecycleVars,
       attemptVars
<1>3. CASE CloseExhausted /\ UNCHANGED <<attemptVars, reconnecting>>
  <2>1. /\ status' = "closed" /\ reason' = "exhausted"
        /\ activeSessionId' = None
    BY <1>3 DEF CloseExhausted
  <2>2. [Contract!Next]_(Contract!vars)
    BY <1>1, <2>1, ReportsAreAllowed DEF Known
  <2> QED
    BY <1>1, <1>3, <2>1, <2>2 DEF ContractInv, CauseOfClosed,
       RecoveryBetweenAttempts, AttemptIsReported, ReadyHasWindow,
       ContinuationDue, IsTerminal, IsCurrentSession, attemptVars, Sessions,
       None
<1>4. CASE \/ ConnectStarts(TRUE) /\ reconnecting' = nextSessionId'
           \/ ConnectRefused(TRUE) /\ UNCHANGED reconnecting
  BY <1>1, <1>4, ConnectReports
<1> QED
  BY <1>1, <1>2, <1>3, <1>4 DEF ReconnectTimer

\* The continuation of a failed attempt arms the next timer, or gives up.
LEMMA ReconnectContinueReports ==
  ASSUME Known, ReconnectContinue
  PROVE  ContractInv' /\ [Contract!Next]_(Contract!vars)
<1>1. /\ status = "reconnecting" /\ activeAttempt = None /\ timer = NoTimer
      /\ reason = "none"
      /\ ~ContinuationDue' /\ activeAttempt' = None
      /\ UNCHANGED <<phase, reconnectAttempt>>
  BY DEF ReconnectContinue, Known, ContractInv, RecoveryBetweenAttempts,
     CauseOfClosed, ContinuationDue, attemptVars
<1>2. \/ status' = "reconnecting" /\ reason' = "none"
         /\ UNCHANGED activeSessionId
      \/ status' = "closed" /\ reason' = "exhausted"
         /\ activeSessionId' = None /\ timer' = NoTimer
  BY <1>1 DEF ReconnectContinue, ScheduleReconnect, CloseExhausted,
     lifecycleVars
<1>3. [Contract!Next]_(Contract!vars)
  BY <1>1, <1>2, ReportsAreAllowed DEF Known
<1>4. AttemptIsReported'
  BY <1>1, <1>2 DEF Known, ContractInv, AttemptIsReported, IsTerminal,
     IsCurrentSession, Sessions, None
<1> QED
  BY <1>1, <1>2, <1>3, <1>4 DEF Known, ContractInv, CauseOfClosed,
     RecoveryBetweenAttempts, ReadyHasWindow

\* The clock reports nothing, and does not run while READY.
LEMMA TickReports ==
  ASSUME Known, Tick
  PROVE  ContractInv' /\ [Contract!Next]_(Contract!vars)
<1>1. status # "ready"
  BY BoundsAssumption DEF BoundsAssumption, Tick, Known, ContractInv,
     ReadyHasWindow, NoWindow
<1>2. [Contract!Next]_(Contract!vars)
  BY ReportsAreAllowed DEF Known, Tick, lifecycleVars
<1> QED
  BY <1>1, <1>2 DEF Tick, Known, ContractInv, CauseOfClosed,
     RecoveryBetweenAttempts, AttemptIsReported, ReadyHasWindow,
     ContinuationDue, IsTerminal, IsCurrentSession, lifecycleVars, attemptVars

LEMMA NextReports ==
  Known /\ [Next]_vars => ContractInv' /\ [Contract!Next]_(Contract!vars)
<1> SUFFICES ASSUME Known, [Next]_vars
             PROVE  ContractInv' /\ [Contract!Next]_(Contract!vars)
  OBVIOUS
<1>1. CASE UNCHANGED vars
  BY <1>1, StillReports DEF vars, attemptVars, recoveryVars
<1>2. ASSUME NEW s \in Sessions, SocketEvent(s)
      PROVE  ContractInv' /\ [Contract!Next]_(Contract!vars)
  BY <1>2, HandleOpenReports, HandleHandshakeFrameReports,
     HandleCloseReports DEF SocketEvent
<1> QED
  BY <1>1, <1>2, HostConnectReports, HostDisconnectReports,
     HostAbortReports, HandshakeTimeoutReports, ReconnectTimerReports,
     ReconnectContinueReports, TickReports DEF Next

LEMMA InitReports == Init => ContractInv /\ Contract!Init
  BY DEF Init, ContractInv, CauseOfClosed, RecoveryBetweenAttempts,
     AttemptIsReported, ReadyHasWindow, ContinuationDue, IsTerminal,
     IsCurrentSession, Contract!Init, NoTimer, None, Sessions

\* For a host that leaves a reconnecting client alone, every status the
\* client ever reports, and the cause of every close, is one the contract
\* allows: the safety part of ImplementsContract.
THEOREM ClientKeepsContract ==
  ASSUME ContractHost
  PROVE  Spec => Contract!Init /\ [][Contract!Next]_(Contract!vars)
<1>1. Init => TypeOK /\ AttemptInv /\ ContractInv /\ Contract!Init
  BY InitTypeOK, InitAttemptInv, InitReports
<1>2. TypeOK /\ AttemptInv /\ ContractInv /\ [Next]_vars
        => (TypeOK /\ AttemptInv /\ ContractInv)'
           /\ [Contract!Next]_(Contract!vars)
  BY NextTypeOK, NextAttemptInv, NextReports DEF Known
<1> QED
  BY <1>1, <1>2, PTL DEF Spec

-----------------------------------------------------------------------------
(* What follows from the contract and its invariant *)

\* Every step, with all that is known before and after it.
LEMMA StepsAreKnown ==
  ASSUME ContractHost
  PROVE  Spec => []Known
<1>1. Init => Known
  BY InitTypeOK, InitAttemptInv, InitReports DEF Known
<1>2. Known /\ [Next]_vars => Known'
  BY NextTypeOK, NextAttemptInv, NextReports DEF Known, ContractHost
<1> QED
  BY <1>1, <1>2, PTL DEF Spec

\* A recovery starts only from READY.
THEOREM RecoveryStartsFromReady ==
  ASSUME ContractHost
  PROVE  Spec => WindowStartsFromReady
<1>1. Known /\ [Next]_vars =>
        [status # "reconnecting" /\ status' = "reconnecting"
           => status = "ready"]_vars
  BY NextReports DEF Contract!Next, Contract!vars, Contract!Connect,
     Contract!Refuse, Contract!Establish, Contract!FailConnect, Contract!Lose,
     Contract!Drop, Contract!GiveUp, Contract!Disconnect, Contract!Report,
     Contract!Closes
<1> QED
  BY <1>1, StepsAreKnown, PTL DEF Spec, WindowStartsFromReady

\* A session that was READY is never answered with exhaustion: it has its
\* whole budget ahead.
THEOREM ReadyHasItsBudget ==
  ASSUME ContractHost
  PROVE  Spec => ReadyNeverExhausts
<1>1. Known /\ [Next]_vars => [status = "ready" => reason' # "exhausted"]_vars
  <2> SUFFICES ASSUME Known, [Next]_vars, status = "ready"
               PROVE  reason' # "exhausted"
    OBVIOUS
  <2>1. reason # "exhausted"
    BY DEF Known, ContractInv, CauseOfClosed
  <2> QED
    BY <2>1, NextReports DEF Contract!Next, Contract!vars, Contract!Connect,
       Contract!Refuse, Contract!Establish, Contract!FailConnect,
       Contract!Lose, Contract!Drop, Contract!GiveUp, Contract!Disconnect,
       Contract!Report, Contract!Closes
<1> QED
  BY <1>1, StepsAreKnown, PTL DEF Spec, ReadyNeverExhausts

\* Exhaustion is only ever declared between attempts.
THEOREM ExhaustionIsBetweenAttempts ==
  ASSUME ContractHost
  PROVE  Spec => ExhaustionSparesAttempts
<1>1. Known /\ [Next]_vars =>
        [reason' = "exhausted" /\ reason # "exhausted"
           => activeAttempt = None]_vars
  <2> SUFFICES ASSUME Known, [Next]_vars,
                      reason' = "exhausted", reason # "exhausted"
               PROVE  activeAttempt = None
    OBVIOUS
  <2>1. status = "reconnecting"
    BY NextReports DEF Contract!Next, Contract!vars, Contract!Connect,
       Contract!Refuse, Contract!Establish, Contract!FailConnect,
       Contract!Lose, Contract!Drop, Contract!GiveUp, Contract!Disconnect,
       Contract!Report, Contract!Closes
  <2>3. HostConnect \/ HostDisconnect \/ HostAbort => FALSE
    BY DEF HostConnect, ConnectStarts, ConnectRefused, HostDisconnect,
       HostAbort, CloseIfCurrent, lifecycleVars
  <2>4. ASSUME NEW s \in Sessions, SocketEvent(s) \/ HandshakeTimeout(s)
        PROVE  FALSE
    <3>1. ASSUME NEW why, NEW closing, NEW network,
                 Fail(s, why, closing, network), why # "exhausted"
          PROVE  FALSE
      BY <3>1 DEF Fail, CloseIfCurrent
    <3>2. ~HandleOpen(s)
      BY <3>1 DEF HandleOpen, lifecycleVars
    <3>3. ASSUME NEW frame \in HandshakeFrames, HandleHandshakeFrame(s, frame)
          PROVE  FALSE
      BY <3>1, <3>3 DEF HandleHandshakeFrame
    <3>4. ~HandshakeTimeout(s)
      BY <3>1 DEF HandshakeTimeout
    <3>5. ASSUME NEW code \in CloseCodes, HandleClose(s, code) PROVE FALSE
      <4>1. ASSUME ~IsTerminal(s), phase[s] = "ready" PROVE FALSE
        BY <2>1, <4>1 DEF Known, AttemptInv, CurrentSession
      <4>2. ~StopClose(s, [net EXCEPT ![s] = "closed"])
        BY <3>1 DEF StopClose
      <4> QED
        BY <3>5, <4>1, <4>2 DEF HandleClose, HandleLateClose, CloseDecision,
           ContinueReconnectWindow, lifecycleVars
    <3> QED
      BY <2>4, <3>2, <3>3, <3>4, <3>5 DEF SocketEvent
  <2>5. ReconnectTimer \/ ReconnectContinue => activeAttempt = None
    BY DEF ReconnectTimer, ReconnectContinue, Known, ContractInv,
       RecoveryBetweenAttempts
  <2>6. ~Tick /\ ~UNCHANGED vars
    BY DEF Tick, vars, lifecycleVars
  <2> QED
    BY <2>3, <2>4, <2>5, <2>6 DEF Next
<1> QED
  BY <1>1, StepsAreKnown, PTL DEF Spec, ExhaustionSparesAttempts

-----------------------------------------------------------------------------
\* Once disconnected, the client has nothing left that could move it.
ManualInv == ManualCloseSticks /\ (manuallyDisconnected => ~ContinuationDue)

LEMMA NextManualInv == Known /\ ManualInv /\ [Next]_vars => ManualInv'
<1> SUFFICES ASSUME Known, ManualInv, [Next]_vars PROVE ManualInv'
  OBVIOUS
<1> USE DEF ManualInv, ManualCloseSticks
<1>1. CASE manuallyDisconnected
  <2>1. /\ timer = NoTimer /\ ~ContinuationDue /\ activeSessionId = None
        /\ status = "closed" /\ reason = "manual"
    BY <1>1 DEF Known, ContractInv, CauseOfClosed
  <2>2. \A s \in Sessions : IsTerminal(s)
    BY <2>1 DEF IsTerminal, IsCurrentSession, Sessions, None
  <2>3. ASSUME UNCHANGED <<status, reason, timer, promise, reconnecting>>
        PROVE  ManualInv'
    BY <2>1, <2>3 DEF ContinuationDue
  <2>4. CASE HostConnect
    BY <2>1, <2>3, <2>4 DEF HostConnect, lifecycleVars, attemptVars,
       recoveryVars, ConnectStarts, ConnectRefused, NewSession
  <2>5. CASE HostAbort
    BY <2>2, <2>3, <2>5 DEF HostAbort, lifecycleVars, attemptVars,
       recoveryVars
  <2>6. ASSUME NEW s \in Sessions, SocketEvent(s) PROVE ManualInv'
    BY <2>2, <2>3, <2>6 DEF SocketEvent, HandleOpen, HandleHandshakeFrame,
       HandleClose, HandleLateClose, lifecycleVars, attemptVars, recoveryVars
  <2>7. ASSUME NEW s \in Sessions, HandshakeTimeout(s) PROVE ManualInv'
    <3>1. /\ UNCHANGED <<status, reason, reconnecting>> /\ timer' = NoTimer
          /\ Settle(s, "rejected")
      BY <2>1, <2>7 DEF HandshakeTimeout, Fail, CloseIfCurrent,
         IsCurrentSession, Sessions, None
    <3>2. ~ContinuationDue'
      BY <2>1, <3>1 DEF Settle, ContinuationDue, Known, TypeOK
    <3> QED
      BY <2>1, <3>1, <3>2
  <2>8. CASE HostDisconnect
    BY <2>8, HostDisconnectManual
  <2>9. ~ReconnectTimer /\ ~ReconnectContinue
    BY <2>1 DEF ReconnectTimer, ReconnectContinue
  <2>10. CASE Tick \/ UNCHANGED vars
    BY <2>3, <2>10 DEF Tick, vars, lifecycleVars, attemptVars, recoveryVars
  <2> QED
    BY <2>4, <2>5, <2>6, <2>7, <2>8, <2>9, <2>10 DEF Next
<1>2. CASE ~manuallyDisconnected
  <2>1. CASE HostDisconnect
    BY <2>1, HostDisconnectManual
  <2>2. CASE ~HostDisconnect
    <3>1. ~manuallyDisconnected'
      <4>2. \A s \in Sessions : SocketEvent(s) \/ HandshakeTimeout(s)
              => UNCHANGED manuallyDisconnected
        BY DEF SocketEvent, HandshakeTimeout, HandleOpen, HandleClose,
           HandleHandshakeFrame, HandleLateClose, ContinueReconnectWindow,
           StartReconnectWindow, StopClose, Fail, CloseIfCurrent,
           ScheduleReconnect, CloseExhausted, lifecycleVars
      <4>3. HostAbort => UNCHANGED manuallyDisconnected
        BY DEF HostAbort, CloseIfCurrent, lifecycleVars
      <4>4. HostConnect \/ ReconnectTimer =>
              UNCHANGED manuallyDisconnected \/ ~manuallyDisconnected'
        BY DEF HostConnect, ReconnectTimer, ConnectStarts, ConnectRefused,
           NewSession, CloseExhausted, lifecycleVars
      <4>5. ReconnectContinue \/ Tick \/ UNCHANGED vars
              => UNCHANGED manuallyDisconnected
        BY DEF ReconnectContinue, ScheduleReconnect, CloseExhausted, Tick,
           vars, lifecycleVars
      <4> QED
        BY <1>2, <2>2, <4>2, <4>3, <4>4, <4>5 DEF Next
    <3> QED
      BY <3>1
  <2> QED
    BY <2>1, <2>2
<1> QED
  BY <1>1, <1>2

\* disconnect() sticks: no late callback changes the status or arms a timer
\* until the host connects again.
THEOREM DisconnectSticks ==
  ASSUME ContractHost
  PROVE  Spec => []ManualCloseSticks
<1>1. Init => ManualInv
  BY DEF Init, ManualInv, ManualCloseSticks
<1>2. ManualInv => ManualCloseSticks
  BY DEF ManualInv
<1> QED
  BY <1>1, <1>2, NextManualInv, StepsAreKnown, PTL DEF Spec

-----------------------------------------------------------------------------
(* The wire: a business message is parsed again before it is sent, and     *)
(* parsing is idempotent for every schema and every message, so what       *)
(* gateway-schema handed on is neither refused nor changed.                *)

Wire == INSTANCE Wire

\* A message of the schema: a value for every field, and no value for a field
\* inside a container that is not there.
IsMessage(S, m) ==
  /\ m \in [DOMAIN S.fields -> Wire!Values]
  /\ \A f \in DOMAIN S.fields : ~Wire!IsOpen(S, m, f) => m[f] = "absent"

LEMMA ReservedWords ==
  /\ "text" \in Wire!Texts /\ "empty" \in Wire!Texts
  /\ Wire!Texts \subseteq Wire!Values /\ "absent" \in Wire!Values
  /\ "rejected" \notin Wire!Values
<1>1. "text" \in Wire!Texts /\ "empty" \in Wire!Texts /\ "rejected" \notin Wire!Texts
  BY DEF Wire!Texts, Wire!Words, Wire!Responses, Wire!Roles,
     Wire!PartStatuses, Wire!SessionStatuses
<1> QED BY <1>1 DEF Wire!Values, Wire!Numbers, Wire!Objects, Wire!Lists

LEMMA TrimTwice ==
  ASSUME NEW v \in Wire!Values
  PROVE  /\ Wire!Trim(v) \in Wire!Values
         /\ Wire!Trim(Wire!Trim(v)) = Wire!Trim(v)
         /\ Wire!Trim("absent") = "absent"
  BY ReservedWords DEF Wire!Trim

\* A reader that took or dropped a value does the same with what it made of it
\* (contract/schemas/shared.ts and the readers of the schemas).
THEOREM ReadingIsIdempotent ==
  ASSUME NEW r, Wire!IsReader(r), NEW v \in Wire!Values,
         Wire!Read(r, v) # "rejected"
  PROVE  /\ Wire!Read(r, v) \in Wire!Values
         /\ Wire!Read(r, Wire!Read(r, v)) = Wire!Read(r, v)
<1> DEFINE w == IF r.trims THEN Wire!Trim(v) ELSE v
<1>1. w \in Wire!Values /\ (IF r.trims THEN Wire!Trim(w) ELSE w) = w
  BY TrimTwice
<1>2. CASE w \in r.drops
  <2>1. Wire!Read(r, v) = "absent"
    BY <1>2 DEF Wire!Read
  <2>2. /\ "absent" \in r.takes \cup r.drops
        /\ (IF r.trims THEN Wire!Trim("absent") ELSE "absent") = "absent"
    BY <1>2, TrimTwice DEF Wire!IsReader
  <2> QED BY <2>1, <2>2, ReservedWords DEF Wire!Read
<1>3. CASE w \notin r.drops
  <2>1. Wire!Read(r, v) = w /\ w \in r.takes
    BY <1>3 DEF Wire!Read
  <2> QED BY <1>1, <1>3, <2>1 DEF Wire!Read
<1> QED BY <1>2, <1>3

\* A field that is absent is read as absent or refused, never made up.
LEMMA AbsentStaysAbsent ==
  ASSUME NEW r, Wire!IsReader(r)
  PROVE  Wire!Read(r, "absent") \in {"absent", "rejected"}
  BY TrimTwice, ReservedWords DEF Wire!Read, Wire!IsReader

\* Parsing what was parsed accepts it and changes nothing: the second parse of
\* validateGatewayUplinkBusinessMessage and of toolEventMessageSchema.
THEOREM ParsingIsIdempotent ==
  ASSUME NEW S, Wire!IsSchema(S), NEW m, IsMessage(S, m), Wire!Accepts(S, m)
  PROVE  /\ Wire!Accepts(S, Wire!Parsed(S, m))
         /\ Wire!Parsed(S, Wire!Parsed(S, m)) = Wire!Parsed(S, m)
<1> DEFINE p == Wire!Parsed(S, m)
<1>1. \A f \in DOMAIN S.fields :
        p[f] = Wire!Reads(S, m, f) /\ p[f] # "rejected" /\ m[f] \in Wire!Values
  BY DEF Wire!Parsed, Wire!Accepts, IsMessage
<1>2. ASSUME NEW f \in DOMAIN S.fields
      PROVE  \/ Wire!Read(S.fields[f], p[f]) = p[f]
             \/ ~Wire!IsOpen(S, m, f) /\ p[f] = "absent"
  <2>1. CASE Wire!IsOpen(S, m, f)
    <3>1. p[f] = Wire!Read(S.fields[f], m[f])
      BY <1>1, <2>1 DEF Wire!Reads
    <3> QED BY <1>1, <3>1, ReadingIsIdempotent DEF Wire!IsSchema
  <2>2. CASE ~Wire!IsOpen(S, m, f)
    BY <1>1, <2>2 DEF Wire!Reads
  <2> QED BY <2>1, <2>2
<1>3. ASSUME NEW f \in DOMAIN S.fields
      PROVE  Wire!IsOpen(S, p, f) <=> Wire!IsOpen(S, m, f)
  <2>1. CASE f \notin DOMAIN S.within
    BY <2>1 DEF Wire!IsOpen
  <2>2. CASE f \in DOMAIN S.within
    <3> DEFINE c == S.within[f]
    <3>1. c \in DOMAIN S.fields /\ Wire!IsReader(S.fields[c])
      BY <2>2 DEF Wire!IsSchema
    <3>2. CASE Wire!IsOpen(S, m, c)
      <4>1. p[c] = Wire!Read(S.fields[c], m[c])
        BY <1>1, <3>1, <3>2 DEF Wire!Reads
      <4>2. Wire!Read(S.fields[c], p[c]) = p[c]
        BY <1>1, <3>1, <4>1, ReadingIsIdempotent
      <4> QED BY <2>2, <4>1, <4>2 DEF Wire!IsOpen
    <3>3. CASE ~Wire!IsOpen(S, m, c)
      <4>1. m[c] = "absent" /\ p[c] = "absent"
        BY <1>1, <3>1, <3>3 DEF Wire!Reads, IsMessage
      <4>2. Wire!Read(S.fields[c], "absent") \notin {"object", "list"}
        BY <3>1, AbsentStaysAbsent
      <4> QED BY <2>2, <4>1, <4>2 DEF Wire!IsOpen
    <3> QED BY <3>2, <3>3
  <2> QED BY <2>1, <2>2
<1>4. ASSUME NEW f \in DOMAIN S.fields
      PROVE  Wire!Reads(S, p, f) = p[f]
  <2>1. CASE Wire!IsOpen(S, m, f)
    BY <1>2, <1>3, <2>1 DEF Wire!Reads
  <2>2. CASE ~Wire!IsOpen(S, m, f)
    BY <1>1, <1>3, <2>2 DEF Wire!Reads
  <2> QED BY <2>1, <2>2
<1>5. Wire!Accepts(S, p)
  BY <1>1, <1>4 DEF Wire!Accepts
<1>6. Wire!Parsed(S, p) = p
  BY <1>4, Zenon DEF Wire!Parsed
<1> QED BY <1>5, <1>6

=============================================================================
