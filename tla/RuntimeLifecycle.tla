-------------------------- MODULE RuntimeLifecycle --------------------------
(***************************************************************************)
(* The lifecycle of a bridge runtime: RuntimeLifecycleService and its      *)
(* RuntimeLifecycleState, the core that owns the provider, and the         *)
(* GatewayRuntimeDriver with the gateway clients it creates, each of which *)
(* behaves as GatewayContract says.                                        *)
(*                                                                         *)
(* start() and stop() are chains of awaits.  The one start that may be in  *)
(* flight is at "startPc", the one stop at "stopPc"; a step runs from one  *)
(* await to the next.  A client reports a status change synchronously, so  *)
(* the runtime handles it in the same step.                                *)
(***************************************************************************)
EXTENDS Naturals

CONSTANTS
  MaxTokens,          \* bound: lifecycle attempts ever begun
  MaxWaiting,         \* bound: start() calls waiting for a stop
  Hosts               \* the surroundings the runtime may find itself in

RuntimeStates ==
  {"idle", "starting", "ready", "reconnecting", "stopping", "failed"}

ASSUME LifecycleBounds ==
  MaxTokens \in Nat /\ MaxWaiting \in Nat
ASSUME LifecycleOptions ==
  Hosts \subseteq
    [startFrom : SUBSET RuntimeStates,  \* where the host calls start()
     providerFails : BOOLEAN,    \* initialize() and dispose() may reject
     disconnectFails : BOOLEAN,  \* disconnect() of a connection may reject
     clientCancels : BOOLEAN,    \* a client may close itself as "cancelled"
     queuedConnect : BOOLEAN]    \* stop() may come with the connect queued

Clients == 1 .. MaxTokens   \* the client a start creates has its token
None == 0
ClientStates == {"closed", "connecting", "ready", "reconnecting"}

VARIABLES
  \* RuntimeLifecycleState
  state, nextToken, activeStartToken, activeStopToken,
  \* RuntimeLifecycleService: startPromise, stopPromise and where they are
  startPc, startToken, startOutcome, waitingStarts,
  stopPc, stopToken, stopError,
  \* RuntimeCoreService
  initialized,
  \* GatewayRuntimeDriver: currentClient is also the observed one
  currentClient,
  \* the clients: reported status, and the connect() promise of each
  client, connecting,
  \* what surrounds the runtime, which does not change
  host

lifecycleVars == <<state, nextToken, activeStartToken, activeStopToken>>
startVars == <<startPc, startToken, startOutcome>>
stopVars == <<stopPc, stopToken, stopError>>
clientVars == <<currentClient, client, connecting>>
vars == <<lifecycleVars, startVars, waitingStarts, stopVars, initialized,
          clientVars, host>>

StartPcs == {"none", "core", "connecting", "cleanup"}
StopPcs ==
  {"none", "disconnectFirst", "awaitStart", "disconnectLast", "core"}
StartOutcomes == {"none", "pending", "resolved", "rejected"}

TypeOK ==
  /\ state \in RuntimeStates
  /\ nextToken \in 0 .. MaxTokens
  /\ activeStartToken \in 0 .. MaxTokens
  /\ activeStopToken \in 0 .. MaxTokens
  /\ startPc \in StartPcs
  /\ startToken \in 0 .. MaxTokens
  /\ startOutcome \in StartOutcomes
  /\ waitingStarts \in 0 .. MaxWaiting
  /\ stopPc \in StopPcs
  /\ stopToken \in 0 .. MaxTokens
  /\ stopError \in BOOLEAN
  /\ initialized \in BOOLEAN
  /\ currentClient \in 0 .. MaxTokens
  /\ client \in [Clients -> ClientStates]
  /\ connecting \in [Clients -> StartOutcomes]
  /\ host \in Hosts

Init ==
  /\ state = "idle"
  /\ nextToken = 0 /\ activeStartToken = None /\ activeStopToken = None
  /\ startPc = "none" /\ startToken = None /\ startOutcome = "none"
  /\ waitingStarts = 0
  /\ stopPc = "none" /\ stopToken = None /\ stopError = FALSE
  /\ initialized = FALSE
  /\ currentClient = None
  /\ client = [c \in Clients |-> "closed"]
  /\ connecting = [c \in Clients |-> "none"]
  /\ host \in Hosts

-----------------------------------------------------------------------------
(* Slips: what a definition below would be if the code had it wrong.  No   *)
(* action uses them; each property is checked to tell them apart.          *)

\* Reports are heeded while the runtime is stopping, or has failed.
ReportsAlwaysHeeded(c, report) ==
  /\ state' = IF c = currentClient /\ report \in {"ready", "reconnecting", "failed"}
              THEN report ELSE state
  /\ UNCHANGED <<nextToken, activeStartToken, activeStopToken>>

\* disconnect() lets go of the client without closing it, or closes it and
\* leaves its connect() unsettled.
DisconnectForgets(failing) == UNCHANGED clientVars

DisconnectSilently(failing) ==
  /\ UNCHANGED currentClient
  /\ client' = [c \in Clients |->
                  IF c = currentClient THEN "closed" ELSE client[c]]
  /\ UNCHANGED connecting

-----------------------------------------------------------------------------
(* RuntimeLifecycleState *)

StateUnchanged == UNCHANGED lifecycleVars

BeginStart ==
  /\ nextToken' = nextToken + 1
  /\ activeStartToken' = nextToken'
  /\ activeStopToken' = None
  /\ state' = "starting"

BeginStop ==
  /\ nextToken' = nextToken + 1
  /\ activeStopToken' = nextToken'
  /\ activeStartToken' = None
  /\ state' = "stopping"

MarkFailed ==
  /\ state' = "failed" /\ activeStartToken' = None /\ activeStopToken' = None
  /\ UNCHANGED nextToken

FinishStartIfCurrent ==
  IF activeStartToken = startToken /\ state \notin {"stopping", "failed"}
  THEN /\ state' = "ready" /\ activeStartToken' = None
       /\ UNCHANGED <<nextToken, activeStopToken>>
  ELSE StateUnchanged

FinishStopIfCurrent ==
  IF activeStopToken = stopToken /\ state = "stopping"
  THEN /\ state' = "idle" /\ activeStopToken' = None
       /\ UNCHANGED <<nextToken, activeStartToken>>
  ELSE StateUnchanged

\* handleGatewayStatusChanged: only of the observed client, and not while
\* the runtime is idle, stopping or failed.
Mark(s) ==
  state' = s /\ UNCHANGED <<nextToken, activeStartToken, activeStopToken>>

GatewayReports(c, report) ==
  IF c # currentClient \/ state \in {"idle", "stopping", "failed"}
  THEN StateUnchanged
  ELSE CASE report = "failed" -> MarkFailed
         [] report \in {"ready", "reconnecting"} /\ state # "starting" ->
              Mark(report)
         [] OTHER -> StateUnchanged

-----------------------------------------------------------------------------
(* GatewayRuntimeDriver *)

\* disconnect(), to its await: the client closes at once and its connect()
\* is rejected, unless the connection fails to close.
Disconnect(failing) ==
  /\ UNCHANGED currentClient
  /\ IF currentClient = None \/ failing
     THEN UNCHANGED <<client, connecting>>
     ELSE /\ client' = [client EXCEPT ![currentClient] = "closed"]
          /\ connecting' =
               IF connecting[currentClient] = "pending"
               THEN [connecting EXCEPT ![currentClient] = "rejected"]
               ELSE connecting

\* disconnect(), after its await: detachClient() lets go of whatever client
\* is current by then, closed or not.
DetachClient == currentClient' = None /\ UNCHANGED <<client, connecting>>

\* The ways driver.disconnect() may end.
DisconnectFails == IF host.disconnectFails /\ currentClient # None
                   THEN BOOLEAN ELSE {FALSE}

-----------------------------------------------------------------------------
(* Microtasks run before the next event of a client *)

ConnectSettled ==
  startPc = "connecting" /\ connecting[startToken] # "pending"

Detaching == stopPc \in {"disconnectFirst", "disconnectLast"}

MacrotaskTurn ==
  /\ ~ConnectSettled /\ ~Detaching /\ startPc # "cleanup"
  /\ ~(stopPc = "awaitStart" /\ startPc = "none")
  /\ ~(waitingStarts > 0 /\ stopPc = "none")

-----------------------------------------------------------------------------
(* start() *)

\* start() past the wait for a stop: READY and a start in flight are shared.
BeginOrShareStart ==
  \/ /\ state = "ready" \/ startPc # "none"
     /\ UNCHANGED <<lifecycleVars, startVars>>
  \/ /\ state # "ready" /\ startPc = "none"
     /\ BeginStart
     /\ startPc' = "core" /\ startToken' = nextToken'
     /\ startOutcome' = "pending"

\* Host calls are bounded; a start that waits has its token reserved.
HostMayCall == nextToken + waitingStarts < MaxTokens

HostStart ==
  /\ HostMayCall
  /\ state \in host.startFrom
  /\ \/ /\ stopPc # "none"
        /\ waitingStarts < MaxWaiting
        /\ waitingStarts' = waitingStarts + 1
        /\ UNCHANGED <<lifecycleVars, startVars>>
     \/ /\ stopPc = "none"
        /\ BeginOrShareStart
        /\ UNCHANGED waitingStarts
  /\ UNCHANGED <<stopVars, initialized, clientVars, host>>

\* A start() that waited for a stop goes on.
WaitingStart ==
  /\ stopPc = "none" /\ waitingStarts > 0
  /\ waitingStarts' = waitingStarts - 1
  /\ BeginOrShareStart
  /\ UNCHANGED <<stopVars, initialized, clientVars, host>>

StartEnds(outcome) ==
  /\ startPc' = "none" /\ startOutcome' = outcome /\ UNCHANGED startToken

\* provider.initialize() rejected.
StartCoreFails ==
  /\ startPc = "core" /\ ~initialized /\ host.providerFails
  /\ IF activeStartToken = startToken THEN MarkFailed ELSE StateUnchanged
  /\ StartEnds("rejected")
  /\ UNCHANGED <<waitingStarts, stopVars, initialized, clientVars, host>>

\* The core runs; driver.connect() creates a client, observes it in place of
\* the one before, and calls its connect().  A disconnect() that was called
\* before the provider answered has been through by then.
StartConnects ==
  /\ startPc = "core"
  /\ host.queuedConnect \/ ~Detaching
  /\ initialized' = TRUE
  /\ currentClient' = startToken
  /\ startPc' = "connecting"
  /\ \/ /\ client' = [client EXCEPT ![startToken] = "connecting"]
        /\ connecting' = [connecting EXCEPT ![startToken] = "pending"]
        /\ StateUnchanged
     \/ \* refused on the spot: closed with a startup failure
        /\ connecting' = [connecting EXCEPT ![startToken] = "rejected"]
        /\ UNCHANGED client
        /\ IF state = "starting" THEN MarkFailed ELSE StateUnchanged
  /\ UNCHANGED <<startToken, startOutcome, waitingStarts, stopVars, host>>

StartConnected ==
  /\ startPc = "connecting" /\ connecting[startToken] = "resolved"
  /\ FinishStartIfCurrent
  /\ StartEnds("resolved")
  /\ UNCHANGED <<waitingStarts, stopVars, initialized, clientVars, host>>

\* connectGatewayOrFail: a failed connect is cleaned up ...
StartConnectFailed ==
  /\ startPc = "connecting" /\ connecting[startToken] = "rejected"
  /\ \E failing \in DisconnectFails : Disconnect(failing)
  /\ startPc' = "cleanup"
  /\ UNCHANGED <<lifecycleVars, startToken, startOutcome, waitingStarts,
                 stopVars, initialized, host>>

\* ... and reported, unless the attempt is no longer the current one.
StartCleanedUp ==
  /\ startPc = "cleanup"
  /\ IF activeStartToken = startToken
     THEN MarkFailed /\ StartEnds("rejected")
     ELSE StateUnchanged /\ StartEnds("resolved")
  /\ DetachClient
  /\ UNCHANGED <<waitingStarts, stopVars, initialized, host>>

-----------------------------------------------------------------------------
(* stop() *)

HostStop ==
  /\ HostMayCall
  /\ state # "idle" /\ stopPc = "none"
  /\ BeginStop
  /\ stopToken' = nextToken'
  /\ stopPc' = IF startPc = "none" THEN "disconnectLast"
                                   ELSE "disconnectFirst"
  /\ \E failing \in DisconnectFails :
       Disconnect(failing) /\ stopError' = failing
  /\ UNCHANGED <<startVars, waitingStarts, initialized, host>>

StopDetaches ==
  /\ Detaching
  /\ stopPc' = IF stopPc = "disconnectFirst" THEN "awaitStart" ELSE "core"
  /\ DetachClient
  /\ UNCHANGED <<lifecycleVars, startVars, waitingStarts, stopToken,
                 stopError, initialized, host>>

\* The start in flight has ended: a client it still made READY goes too.
StopAwaitedStart ==
  /\ stopPc = "awaitStart" /\ startPc = "none"
  /\ IF ~stopError /\ currentClient # None /\ client[currentClient] = "ready"
     THEN /\ stopPc' = "disconnectLast"
          /\ \E failing \in DisconnectFails :
               Disconnect(failing) /\ stopError' = failing
     ELSE stopPc' = "core" /\ UNCHANGED <<clientVars, stopError>>
  /\ UNCHANGED <<lifecycleVars, startVars, waitingStarts, stopToken,
                 initialized, host>>

\* core.stop() and the end of stop(): waiting start() calls reject with it.
StopEnds ==
  /\ stopPc = "core"
  /\ \E disposeFails \in IF initialized /\ host.providerFails
                         THEN BOOLEAN ELSE {FALSE} :
       /\ initialized' = (initialized /\ disposeFails)
       /\ IF stopError \/ disposeFails
          THEN MarkFailed /\ waitingStarts' = 0
          ELSE FinishStopIfCurrent /\ UNCHANGED waitingStarts
  /\ stopPc' = "none" /\ stopError' = FALSE
  /\ UNCHANGED <<startVars, stopToken, clientVars, host>>

-----------------------------------------------------------------------------
(* Steps of the clients, as the contract allows them *)

ClientMoves(c, from, to, report) ==
  /\ MacrotaskTurn
  /\ client[c] \in from
  /\ client' = [client EXCEPT ![c] = to]
  /\ connecting' =
       IF connecting[c] = "pending"
       THEN [connecting EXCEPT
               ![c] = IF to = "ready" THEN "resolved" ELSE "rejected"]
       ELSE connecting
  /\ GatewayReports(c, report)
  /\ UNCHANGED <<startVars, waitingStarts, stopVars, initialized,
                 currentClient, host>>

Establish(c) == ClientMoves(c, {"connecting", "reconnecting"}, "ready", "ready")
Lose(c) == ClientMoves(c, {"ready"}, "reconnecting", "reconnecting")
\* FailConnect, Drop and GiveUp, for a failure or a cancellation
Fail(c) == ClientMoves(c, ClientStates \ {"closed"}, "closed", "failed")
Cancel(c) ==
  /\ host.clientCancels
  /\ ClientMoves(c, ClientStates \ {"closed"}, "closed", "cancelled")

ClientStep(c) == Establish(c) \/ Lose(c) \/ Fail(c) \/ Cancel(c)

StartStep ==
  \/ StartCoreFails \/ StartConnects \/ StartConnected
  \/ StartConnectFailed \/ StartCleanedUp
StopStep == StopDetaches \/ StopAwaitedStart \/ StopEnds

Next ==
  \/ HostStart \/ WaitingStart \/ StartStep
  \/ HostStop \/ StopStep
  \/ \E c \in Clients : ClientStep(c)

Spec == Init /\ [][Next]_vars

\* The provider settles what it is asked for and microtasks run.  Nothing is
\* assumed of the gateway: connect() has no handshake timeout here, so it may
\* stay unanswered for ever.
FairSpec ==
  /\ Spec
  /\ WF_vars(StartStep) /\ WF_vars(StopStep) /\ WF_vars(WaitingStart)

-----------------------------------------------------------------------------
(* Properties *)

Live(c) == client[c] # "closed"

\* A host that leaves a reconnecting runtime alone, whose connections close
\* when told to and whose stop() does not fall between the connect() and its
\* first effect: what this repository's plugins do.
Careful ==
  "reconnecting" \notin host.startFrom
  /\ ~host.disconnectFails /\ ~host.queuedConnect /\ ~host.clientCancels

LetGo == (\A c \in Clients : ~Live(c)) /\ currentClient = None /\ ~initialized

\* With a careful host an idle runtime has let go of everything: no
\* connection is open, none is observed, and the provider has been disposed
\* of, whatever was in flight when stop() was called.
\* RuntimeLifecycleService.stop, GatewayRuntimeDriver.disconnect.
IdleHoldsNothing == Careful /\ state = "idle" => LetGo

\* The same of any host, which the code does not keep: a client that was
\* replaced while reconnecting is out of reach of stop().
IdleHostHoldsNothing == state = "idle" => LetGo

\* A current start token means a start in flight that nothing has overruled,
\* a current stop token a stop in flight: no callback of an older attempt
\* can pass the token test.
TokensAreInFlight ==
  /\ activeStartToken # None =>
       /\ state = "starting" /\ startPc # "none"
       /\ activeStartToken = startToken
  /\ activeStopToken # None =>
       /\ state = "stopping" /\ stopPc # "none"
       /\ activeStopToken = stopToken

\* Once stop() has begun nothing but its own end changes the state: neither
\* the start it overtook nor a late status of a client.
StopIsNotOverruled ==
  [][state = "stopping" /\ state' # "stopping" =>
       /\ state' \in {"idle", "failed"}
       /\ stopPc = "core" /\ stopPc' = "none"]_vars

\* start() is fulfilled only if the runtime is up, or was told to stop.
StartReportsFailure ==
  [][startOutcome # "resolved" /\ startOutcome' = "resolved" =>
       state' \in {"ready", "stopping"}]_vars

\* The start in flight has called a gateway that has not answered: its client
\* is open, its connect() pending, and the runtime has no timeout for either.
GatewayIsSilent ==
  /\ startPc = "connecting"
  /\ client[startToken] = "connecting" /\ connecting[startToken] = "pending"

\* A stop has come after the connect() of the start in flight.
StopHasTheClient ==
  /\ ~host.disconnectFails /\ ~host.queuedConnect
  /\ stopPc = "disconnectFirst" /\ startPc = "connecting"

\* stop() settles, whatever start it finds in flight, with one exception that
\* the code leaves: a stop that came before the start had a client to close
\* waits for that start, which then connects to a gateway that is silent for
\* ever.  A stop that comes after the connect() closes the client and waits for
\* no gateway, if connections close when told to.
\* RuntimeLifecycleService.stop, waiting for startPromise.
StopSettles ==
  /\ stopPc # "none" ~>
       stopPc = "none" \/ [](stopPc = "awaitStart" /\ GatewayIsSilent)
  /\ StopHasTheClient ~> stopPc = "none"

\* start() settles, even if it waits for a stop or is overtaken by one, unless
\* its gateway, or the one of the start that the stop waits for, is silent
\* for ever; a stop ends that silence, if it comes after the connect().
\* RuntimeLifecycleService.start, connectGatewayOrFail.
StartSettles ==
  waitingStarts > 0 \/ startPc # "none" ~>
    (waitingStarts = 0 /\ startPc = "none") \/ []GatewayIsSilent
=============================================================================
