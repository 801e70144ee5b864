----------------------- MODULE RuntimeLifecycleProofs -----------------------
(***************************************************************************)
(* What the tokens of RuntimeLifecycleState achieve, for every number of   *)
(* lifecycle attempts and every host: no callback of an older attempt      *)
(* passes a token test, and nothing but its own end overrules a stop().    *)
(* And what a careful host gets for it: an idle runtime that has let go of *)
(* every connection and of the provider.                                   *)
(***************************************************************************)
EXTENDS RuntimeLifecycle, TLAPS

\* A start in flight has a token of its own, and the next token is not yet
\* anybody's.
StartHasToken == startPc # "none" => startToken # None

\* A runtime that is stopping has a stop in flight, with the current token,
\* and no start that could still pass its test.
StoppingIsAStop ==
  state = "stopping" =>
    /\ stopPc # "none"
    /\ activeStopToken = stopToken
    /\ activeStartToken = None

\* The inductive invariant.
LifecycleInv ==
  /\ nextToken \in Nat
  /\ StartHasToken
  /\ StoppingIsAStop
  /\ TokensAreInFlight

-----------------------------------------------------------------------------
\* A start that begins takes a new token and nothing of a stop is left.
LEMMA BeginStartInv ==
  ASSUME LifecycleInv, BeginOrShareStart, stopPc = "none",
         UNCHANGED stopVars
  PROVE  LifecycleInv'
<1>1. CASE UNCHANGED <<lifecycleVars, startVars>>
  BY <1>1 DEF LifecycleInv, StartHasToken, StoppingIsAStop,
     TokensAreInFlight, lifecycleVars, startVars, stopVars
<1>2. CASE BeginStart /\ startPc' = "core" /\ startToken' = nextToken'
  <2>1. nextToken' \in Nat /\ nextToken' # None
    BY <1>2 DEF BeginStart, LifecycleInv, None
  <2> QED
    BY <1>2, <2>1 DEF BeginStart, LifecycleInv, StartHasToken,
       StoppingIsAStop, TokensAreInFlight
<1> QED
  BY <1>1, <1>2 DEF BeginOrShareStart

\* The host's calls: a start() waits for a stop or begins, a stop() takes
\* the start's token away.
LEMMA HostInv ==
  ASSUME LifecycleInv, HostStart \/ WaitingStart \/ HostStop
  PROVE  LifecycleInv'
<1>1. CASE HostStart
  <2>1. CASE stopPc = "none" /\ BeginOrShareStart
    BY <1>1, <2>1, BeginStartInv DEF HostStart
  <2>2. CASE UNCHANGED <<lifecycleVars, startVars>>
    BY <1>1, <2>2 DEF HostStart, LifecycleInv, StartHasToken,
       StoppingIsAStop, TokensAreInFlight, lifecycleVars, startVars, stopVars
  <2> QED
    BY <1>1, <2>1, <2>2 DEF HostStart
<1>2. CASE WaitingStart
  BY <1>2, BeginStartInv DEF WaitingStart
<1>3. CASE HostStop
  <2>1. /\ nextToken' = nextToken + 1 /\ activeStopToken' = nextToken'
        /\ activeStartToken' = None /\ state' = "stopping"
        /\ stopToken' = nextToken'
        /\ stopPc' \in {"disconnectLast", "disconnectFirst"}
        /\ UNCHANGED startVars
    BY <1>3 DEF HostStop, BeginStop
  <2> QED
    BY <2>1 DEF LifecycleInv, StartHasToken, StoppingIsAStop,
       TokensAreInFlight, startVars
<1> QED
  BY <1>1, <1>2, <1>3

\* A start that goes on, ends or fails: only the current one is heeded.
LEMMA StartStepInv ==
  ASSUME LifecycleInv, StartStep
  PROVE  LifecycleInv'
<1> USE DEF LifecycleInv, StartHasToken, StoppingIsAStop, TokensAreInFlight,
            lifecycleVars, stopVars
<1>1. CASE StartCoreFails
  BY <1>1 DEF StartCoreFails, MarkFailed, StateUnchanged, StartEnds
<1>2. CASE StartConnects
  BY <1>2 DEF StartConnects, MarkFailed, StateUnchanged
<1>3. CASE StartConnected
  BY <1>3 DEF StartConnected, FinishStartIfCurrent, StateUnchanged, StartEnds
<1>4. CASE StartConnectFailed
  BY <1>4 DEF StartConnectFailed
<1>5. CASE StartCleanedUp
  BY <1>5 DEF StartCleanedUp, MarkFailed, StateUnchanged, StartEnds
<1> QED
  BY <1>1, <1>2, <1>3, <1>4, <1>5 DEF StartStep

\* A stop that goes on keeps its token to the end.
LEMMA StopStepInv ==
  ASSUME LifecycleInv, StopStep
  PROVE  LifecycleInv'
<1> USE DEF LifecycleInv, StartHasToken, StoppingIsAStop, TokensAreInFlight,
            lifecycleVars, startVars
<1>1. CASE StopDetaches
  BY <1>1 DEF StopDetaches, Detaching
<1>2. CASE StopAwaitedStart
  BY <1>2 DEF StopAwaitedStart
<1>3. CASE StopEnds
  <2>1. CASE MarkFailed
    BY <1>3, <2>1 DEF StopEnds, MarkFailed
  <2>2. CASE FinishStopIfCurrent
    BY <1>3, <2>2 DEF StopEnds, FinishStopIfCurrent, StateUnchanged
  <2> QED
    BY <1>3, <2>1, <2>2 DEF StopEnds
<1> QED
  BY <1>1, <1>2, <1>3 DEF StopStep

\* A status of a client may fail a runtime, with its tokens, or move one that
\* is up; it never touches one that is stopping.
LEMMA ClientStepInv ==
  ASSUME LifecycleInv, NEW c \in Clients, ClientStep(c)
  PROVE  LifecycleInv'
<1>1. PICK report \in {"ready", "reconnecting", "failed", "cancelled"} :
        GatewayReports(c, report) /\ UNCHANGED <<startVars, stopVars>>
  BY DEF ClientStep, Establish, Lose, Fail, Cancel, ClientMoves
<1>2. \/ StateUnchanged \/ MarkFailed
      \/ /\ state \notin {"starting", "idle", "stopping", "failed"}
         /\ state' \in {"ready", "reconnecting"}
         /\ UNCHANGED <<nextToken, activeStartToken, activeStopToken>>
  BY <1>1 DEF GatewayReports, Mark
<1> QED
  BY <1>1, <1>2 DEF StateUnchanged, MarkFailed, LifecycleInv, StartHasToken,
     StoppingIsAStop, TokensAreInFlight, lifecycleVars, startVars, stopVars

LEMMA NextLifecycleInv == LifecycleInv /\ [Next]_vars => LifecycleInv'
<1> SUFFICES ASSUME LifecycleInv, [Next]_vars PROVE LifecycleInv'
  OBVIOUS
<1>1. CASE UNCHANGED vars
  BY <1>1 DEF vars, LifecycleInv, StartHasToken, StoppingIsAStop,
     TokensAreInFlight, lifecycleVars, startVars, stopVars
<1> QED
  BY <1>1, HostInv, StartStepInv, StopStepInv, ClientStepInv DEF Next

LEMMA InitLifecycleInv == Init => LifecycleInv
  BY DEF Init, LifecycleInv, StartHasToken, StoppingIsAStop,
     TokensAreInFlight, None

LEMMA LifecycleInvariant == Spec => []LifecycleInv
  BY InitLifecycleInv, NextLifecycleInv, PTL DEF Spec

\* A current token always belongs to an attempt that is in flight and that
\* nothing has overruled: isCurrentStartToken() and isCurrentStopToken().
THEOREM TokensStayInFlight == Spec => []TokensAreInFlight
<1>1. LifecycleInv => TokensAreInFlight
  BY DEF LifecycleInv
<1> QED
  BY <1>1, LifecycleInvariant, PTL

\* One step of a runtime that is stopping either leaves it stopping or is
\* the end of the stop itself.
LEMMA StopEndsByItself ==
  ASSUME LifecycleInv, Next, state = "stopping", state' # "stopping"
  PROVE  /\ state' \in {"idle", "failed"}
         /\ stopPc = "core" /\ stopPc' = "none"
<1> USE DEF LifecycleInv, StoppingIsAStop, lifecycleVars
<1>1. CASE HostStart \/ WaitingStart \/ HostStop
  BY <1>1 DEF HostStart, WaitingStart, HostStop
<1>2. CASE StartStep
  <2>1. StartCoreFails \/ StartCleanedUp => UNCHANGED state
    BY DEF StartCoreFails, StartCleanedUp, StartHasToken, StateUnchanged
  <2>2. StartConnects \/ StartConnected \/ StartConnectFailed
          => UNCHANGED state
    BY DEF StartConnects, StartConnected, StartConnectFailed,
       FinishStartIfCurrent, StateUnchanged
  <2> QED
    BY <1>2, <2>1, <2>2 DEF StartStep
<1>3. CASE StopStep
  <2>1. StopDetaches \/ StopAwaitedStart => UNCHANGED state
    BY DEF StopDetaches, StopAwaitedStart
  <2>2. StopEnds => state' \in {"idle", "failed"}
    BY DEF StopEnds, MarkFailed, FinishStopIfCurrent
  <2> QED
    BY <1>3, <2>1, <2>2 DEF StopStep, StopEnds
<1>4. ASSUME NEW c \in Clients, ClientStep(c) PROVE FALSE
  BY <1>4 DEF ClientStep, Establish, Lose, Fail, Cancel, ClientMoves,
     GatewayReports, StateUnchanged
<1> QED
  BY <1>1, <1>2, <1>3, <1>4 DEF Next

\* Once stop() has begun nothing but its own end changes the state, whatever
\* starts, connections and provider do.
THEOREM StopWins == Spec => StopIsNotOverruled
<1> DEFINE Settled == /\ state' \in {"idle", "failed"}
                      /\ stopPc = "core" /\ stopPc' = "none"
<1>1. LifecycleInv /\ [Next]_vars =>
        [state = "stopping" /\ state' # "stopping" => Settled]_vars
  BY StopEndsByItself
<1> QED
  BY <1>1, LifecycleInvariant, PTL DEF Spec, StopIsNotOverruled
-----------------------------------------------------------------------------
(* What is held. *)

NoneLive == \A c \in Clients : ~Live(c)

\* The state says what is in flight.
StateIsInFlight ==
  /\ stopPc # "none" <=> state = "stopping"
  /\ state = "starting" => startPc # "none" /\ activeStartToken = startToken
  /\ startPc = "core" => state \in {"starting", "stopping"}
  /\ waitingStarts > 0 => state # "reconnecting"

\* Only the observed client may be connected, and none is while there is
\* nothing for it to do.
LiveIsObserved ==
  /\ \A c \in Clients : Live(c) => c = currentClient
  /\ startPc \in {"core", "cleanup"} => NoneLive
  /\ state \in {"idle", "failed"} => NoneLive
  /\ stopPc \in {"disconnectFirst", "disconnectLast", "core"} => NoneLive

\* A stop that waits for a start has the client of that start before it, if
\* any; a stop without a start in flight has none.
StopLetsGo ==
  /\ stopPc \in {"disconnectLast", "core"} => startPc = "none"
  /\ stopPc = "core" => currentClient = None
  /\ ~stopError
  /\ startPc = "connecting" => currentClient \in {None, startToken}
  /\ stopPc = "awaitStart" /\ currentClient # None =>
       /\ startPc # "core"
       /\ startPc = "none" => client[currentClient] = "ready"
       /\ startPc = "connecting" /\ connecting[startToken] = "resolved" =>
            client[startToken] = "ready"

IdleIsEmpty ==
  state = "idle" => startPc = "none" /\ currentClient = None /\ ~initialized

\* Tokens never run out under a call that was admitted.
TokensSuffice == nextToken + waitingStarts <= MaxTokens

\* The inductive invariant of a careful host.
HeldInv == StateIsInFlight /\ LiveIsObserved /\ StopLetsGo /\ IdleIsEmpty

\* What a step of the other variables needs to know of the types.
TypeInv == TypeOK /\ TokensSuffice /\ LifecycleInv

-----------------------------------------------------------------------------
(* Types, and the bound on the attempts. *)

LEMMA TokensFit ==
  ASSUME TypeInv
  PROVE  /\ MaxTokens \in Nat /\ MaxWaiting \in Nat
         /\ startPc # "none" => startToken \in Clients
         /\ HostMayCall => nextToken + 1 \in 1 .. MaxTokens
         /\ waitingStarts > 0 => nextToken + 1 \in 1 .. MaxTokens
  BY LifecycleBounds
  DEF TypeInv, TypeOK, TokensSuffice, LifecycleInv, StartHasToken,
      HostMayCall, Clients, None

\* Closing the current client keeps the types of the clients.
LEMMA DisconnectType ==
  ASSUME TypeOK, NEW failing \in BOOLEAN, Disconnect(failing)
  PROVE  /\ currentClient' \in 0 .. MaxTokens
         /\ client' \in [Clients -> ClientStates]
         /\ connecting' \in [Clients -> StartOutcomes]
  BY DEF TypeOK, Disconnect, ClientStates, StartOutcomes

LEMMA HostTypes ==
  ASSUME TypeInv, HostStart \/ WaitingStart \/ HostStop
  PROVE  TypeOK' /\ TokensSuffice'
<1> USE TokensFit DEF TypeInv
<1>1. CASE HostStart
  <2>1. UNCHANGED <<stopVars, initialized, clientVars, host>>
    BY <1>1 DEF HostStart
  <2>2. CASE waitingStarts' = waitingStarts + 1 /\ waitingStarts < MaxWaiting
             /\ UNCHANGED <<lifecycleVars, startVars>>
    BY <1>1, <2>1, <2>2 DEF HostStart, HostMayCall, TypeOK, TokensSuffice,
       lifecycleVars, startVars, stopVars, clientVars
  <2>3. CASE UNCHANGED <<waitingStarts, lifecycleVars, startVars>>
    BY <2>1, <2>3 DEF TypeOK, TokensSuffice,
       lifecycleVars, startVars, stopVars, clientVars
  <2>4. CASE UNCHANGED waitingStarts /\ BeginStart /\ startPc' = "core"
             /\ startToken' = nextToken' /\ startOutcome' = "pending"
    BY <1>1, <2>1, <2>4 DEF HostStart, HostMayCall, BeginStart, TypeOK,
       TokensSuffice, RuntimeStates, StartPcs, StartOutcomes, None,
       stopVars, clientVars
  <2> QED
    BY <1>1, <2>2, <2>3, <2>4 DEF HostStart, BeginOrShareStart
<1>2. CASE WaitingStart
  <2>1. UNCHANGED <<stopVars, initialized, clientVars, host>>
        /\ waitingStarts > 0 /\ waitingStarts' = waitingStarts - 1
    BY <1>2 DEF WaitingStart
  <2>2. CASE UNCHANGED <<lifecycleVars, startVars>>
    BY <2>1, <2>2 DEF TypeOK, TokensSuffice,
       lifecycleVars, startVars, stopVars, clientVars
  <2>3. CASE BeginStart /\ startPc' = "core"
             /\ startToken' = nextToken' /\ startOutcome' = "pending"
    BY <2>1, <2>3 DEF BeginStart, TypeOK,
       TokensSuffice, RuntimeStates, StartPcs, StartOutcomes, None,
       stopVars, clientVars
  <2> QED
    BY <1>2, <2>2, <2>3 DEF WaitingStart, BeginOrShareStart
<1>3. CASE HostStop
  <2>1. PICK failing \in BOOLEAN : Disconnect(failing) /\ stopError' = failing
    BY <1>3 DEF HostStop, DisconnectFails
  <2>2. /\ currentClient' \in 0 .. MaxTokens
        /\ client' \in [Clients -> ClientStates]
        /\ connecting' \in [Clients -> StartOutcomes]
    BY <2>1, DisconnectType
  <2>3. /\ nextToken' = nextToken + 1 /\ activeStopToken' = nextToken'
        /\ activeStartToken' = None /\ state' = "stopping"
        /\ stopToken' = nextToken' /\ nextToken + 1 \in 1 .. MaxTokens
        /\ nextToken + waitingStarts < MaxTokens
        /\ stopPc' \in {"disconnectLast", "disconnectFirst"}
        /\ UNCHANGED <<startVars, waitingStarts, initialized, host>>
    BY <1>3 DEF HostStop, BeginStop, HostMayCall
  <2> QED
    BY <2>1, <2>2, <2>3 DEF TypeOK, TokensSuffice, RuntimeStates, StopPcs,
       None, startVars
<1> QED
  BY <1>1, <1>2, <1>3

LEMMA StartStepTypes ==
  ASSUME TypeInv, StartStep
  PROVE  TypeOK' /\ TokensSuffice'
<1> USE TokensFit DEF TypeInv, TokensSuffice
<1>1. CASE StartCoreFails
  BY <1>1 DEF StartCoreFails, MarkFailed, StateUnchanged, StartEnds, TypeOK,
     RuntimeStates, StartPcs, StartOutcomes, None, lifecycleVars, stopVars,
     clientVars
<1>2. CASE StartConnects
  <2>1. /\ client' \in [Clients -> ClientStates]
        /\ connecting' \in [Clients -> StartOutcomes]
    BY <1>2 DEF StartConnects, TypeOK, ClientStates, StartOutcomes
  <2>2. /\ currentClient' = startToken /\ startToken \in Clients
        /\ startPc' = "connecting" /\ initialized' = TRUE
        /\ UNCHANGED <<startToken, startOutcome, waitingStarts, stopVars, host>>
        /\ MarkFailed \/ StateUnchanged
    BY <1>2 DEF StartConnects
  <2> QED
    BY <2>1, <2>2 DEF MarkFailed, StateUnchanged, TypeOK, RuntimeStates,
       StartPcs, None, Clients, lifecycleVars, stopVars
<1>3. CASE StartConnected
  BY <1>3 DEF StartConnected, FinishStartIfCurrent, StateUnchanged, StartEnds,
     TypeOK, RuntimeStates, StartPcs, StartOutcomes, None, lifecycleVars,
     stopVars, clientVars
<1>4. CASE StartConnectFailed
  <2>1. PICK failing \in BOOLEAN : Disconnect(failing)
    BY <1>4 DEF StartConnectFailed, DisconnectFails
  <2>2. /\ currentClient' \in 0 .. MaxTokens
        /\ client' \in [Clients -> ClientStates]
        /\ connecting' \in [Clients -> StartOutcomes]
    BY <2>1, DisconnectType
  <2> QED
    BY <1>4, <2>2 DEF StartConnectFailed, TypeOK, StartPcs, lifecycleVars,
       stopVars
<1>5. CASE StartCleanedUp
  BY <1>5 DEF StartCleanedUp, MarkFailed, StateUnchanged, StartEnds,
     DetachClient, TypeOK, RuntimeStates, StartPcs, StartOutcomes, None,
     lifecycleVars, stopVars
<1> QED
  BY <1>1, <1>2, <1>3, <1>4, <1>5 DEF StartStep

LEMMA StopStepTypes ==
  ASSUME TypeInv, StopStep
  PROVE  TypeOK' /\ TokensSuffice'
<1> USE TokensFit DEF TypeInv, TokensSuffice
<1>1. CASE StopDetaches
  BY <1>1 DEF StopDetaches, DetachClient, TypeOK, StopPcs, None,
     lifecycleVars, startVars
<1>2. CASE StopAwaitedStart
  <2>1. CASE UNCHANGED <<clientVars, stopError>>
    BY <1>2, <2>1 DEF StopAwaitedStart, TypeOK, StopPcs, lifecycleVars,
       startVars, clientVars
  <2>2. CASE \E failing \in DisconnectFails :
               Disconnect(failing) /\ stopError' = failing
    <3>1. PICK failing \in BOOLEAN :
            Disconnect(failing) /\ stopError' = failing
      BY <2>2 DEF DisconnectFails
    <3>2. /\ currentClient' \in 0 .. MaxTokens
          /\ client' \in [Clients -> ClientStates]
          /\ connecting' \in [Clients -> StartOutcomes]
      BY <3>1, DisconnectType
    <3> QED
      BY <1>2, <3>1, <3>2 DEF StopAwaitedStart, TypeOK, StopPcs,
         lifecycleVars, startVars
  <2> QED
    BY <1>2, <2>1, <2>2 DEF StopAwaitedStart
<1>3. CASE StopEnds
  <2>1. /\ initialized' \in BOOLEAN /\ waitingStarts' \in 0 .. MaxWaiting
        /\ waitingStarts' <= waitingStarts
    BY <1>3 DEF StopEnds, TypeOK
  <2>2. /\ stopPc' = "none" /\ stopError' = FALSE
        /\ UNCHANGED <<startVars, stopToken, clientVars, host>>
        /\ MarkFailed \/ FinishStopIfCurrent
    BY <1>3 DEF StopEnds
  <2>3. /\ state' \in RuntimeStates /\ nextToken' = nextToken
        /\ activeStartToken' \in 0 .. MaxTokens
        /\ activeStopToken' \in 0 .. MaxTokens
    BY <2>2 DEF MarkFailed, FinishStopIfCurrent, StateUnchanged, TypeOK,
       RuntimeStates, None, lifecycleVars
  <2>4. stopPc' \in StopPcs /\ stopError' \in BOOLEAN
    BY <2>2 DEF StopPcs
  <2>5. TypeOK'
    BY <2>1, <2>2, <2>3, <2>4 DEF TypeOK, startVars, clientVars
  <2> QED
    BY <2>1, <2>3, <2>5 DEF TypeOK
<1> QED
  BY <1>1, <1>2, <1>3 DEF StopStep

LEMMA ClientStepTypes ==
  ASSUME TypeInv, NEW c \in Clients, ClientStep(c)
  PROVE  TypeOK' /\ TokensSuffice'
<1>1. PICK from \in SUBSET ClientStates, to \in ClientStates,
           report \in {"ready", "reconnecting", "failed", "cancelled"} :
        ClientMoves(c, from, to, report)
  BY DEF ClientStep, Establish, Lose, Fail, Cancel, ClientStates
<1>2. /\ client' \in [Clients -> ClientStates]
      /\ connecting' \in [Clients -> StartOutcomes]
  BY <1>1 DEF ClientMoves, TypeInv, TypeOK, StartOutcomes
<1>3. /\ StateUnchanged \/ MarkFailed \/ Mark("ready") \/ Mark("reconnecting")
      /\ UNCHANGED <<startVars, waitingStarts, stopVars, initialized,
                     currentClient, host>>
  BY <1>1 DEF ClientMoves, GatewayReports
<1> QED
  BY <1>2, <1>3, TokensFit DEF StateUnchanged, MarkFailed, Mark, TypeInv,
     TypeOK, TokensSuffice, RuntimeStates, None, lifecycleVars, startVars,
     stopVars

LEMMA NextTypeInv == TypeInv /\ [Next]_vars => TypeInv'
<1> SUFFICES ASSUME TypeInv, [Next]_vars PROVE TypeInv'
  OBVIOUS
<1>1. LifecycleInv'
  BY NextLifecycleInv DEF TypeInv
<1>2. CASE UNCHANGED vars
  BY <1>1, <1>2 DEF vars, TypeInv, TypeOK, TokensSuffice, lifecycleVars,
     startVars, stopVars, clientVars
<1> QED
  BY <1>1, <1>2, HostTypes, StartStepTypes, StopStepTypes, ClientStepTypes
  DEF TypeInv, Next

LEMMA InitTypeInv == Init => TypeInv
<1> SUFFICES ASSUME Init PROVE TypeInv
  OBVIOUS
<1>1. LifecycleInv
  BY InitLifecycleInv
<1>2. TokensSuffice
  BY LifecycleBounds DEF Init, TokensSuffice
<1>3. /\ client \in [Clients -> ClientStates]
      /\ connecting \in [Clients -> StartOutcomes]
  BY DEF Init, ClientStates, StartOutcomes
<1>4. /\ {stopError, initialized} \subseteq BOOLEAN
      /\ state \in RuntimeStates /\ startPc \in StartPcs
      /\ stopPc \in StopPcs /\ startOutcome \in StartOutcomes
  BY DEF Init, RuntimeStates, StartPcs, StopPcs, StartOutcomes
<1>5. /\ {nextToken, activeStartToken, activeStopToken, startToken, stopToken,
          currentClient} \subseteq 0 .. MaxTokens
      /\ waitingStarts \in 0 .. MaxWaiting /\ host \in Hosts
  BY LifecycleBounds DEF Init, None
<1>6. TypeOK
  BY <1>3, <1>4, <1>5 DEF TypeOK
<1> QED
  BY <1>1, <1>2, <1>6 DEF TypeInv

\* Every variable keeps its type, and no call takes a token beyond the bound,
\* so that a start always has a client of its own.
THEOREM TypeCorrect == Spec => []TypeOK
<1>1. TypeInv => TypeOK
  BY DEF TypeInv
<1> QED
  BY <1>1, InitTypeInv, NextTypeInv, PTL DEF Spec

-----------------------------------------------------------------------------
(* What a careful host gets. *)

HeldFacts == TypeInv /\ Careful /\ HeldInv

\* With nothing else to fail, disconnect() closes the one client there is.
LEMMA DisconnectClosesAll ==
  ASSUME HeldFacts, NEW failing \in DisconnectFails, Disconnect(failing)
  PROVE  /\ failing = FALSE /\ UNCHANGED currentClient
         /\ NoneLive'
<1> USE DEF HeldFacts, TypeInv
<1>1. failing = FALSE
  BY DEF DisconnectFails, Careful
<1>2. currentClient = None \/ currentClient \in Clients
  BY LifecycleBounds DEF TypeOK, Clients, None
<1>3. CASE currentClient = None
  BY <1>1, <1>3, LifecycleBounds
  DEF Disconnect, HeldInv, LiveIsObserved, NoneLive, Live, Clients, None
<1>4. CASE currentClient \in Clients
  <2>1. currentClient # None
    BY <1>4, LifecycleBounds DEF Clients, None
  <2>2. /\ client' = [client EXCEPT ![currentClient] = "closed"]
        /\ UNCHANGED currentClient
    BY <1>1, <2>1 DEF Disconnect
  <2> QED
    BY <1>1, <1>4, <2>2 DEF HeldInv, LiveIsObserved, NoneLive, Live, TypeOK
<1> QED
  BY <1>2, <1>3, <1>4

LEMMA BeginStartHeld ==
  ASSUME HeldFacts, BeginOrShareStart, stopPc = "none",
         state # "reconnecting", waitingStarts' > 0 => waitingStarts > 0,
         UNCHANGED <<stopVars, initialized, clientVars, host>>
  PROVE  HeldInv'
<1> USE DEF HeldFacts, HeldInv, StateIsInFlight, LiveIsObserved, StopLetsGo,
            IdleIsEmpty, NoneLive, Live, stopVars, clientVars
<1>1. CASE UNCHANGED <<lifecycleVars, startVars>>
  BY <1>1 DEF lifecycleVars, startVars
<1>2. CASE /\ state # "ready" /\ startPc = "none" /\ BeginStart
           /\ startPc' = "core" /\ startToken' = nextToken'
  <2>1. state \in {"idle", "failed"}
    BY <1>2 DEF TypeInv, TypeOK, RuntimeStates
  <2> QED
    BY <1>2, <2>1 DEF BeginStart
<1> QED
  BY <1>1, <1>2 DEF BeginOrShareStart

LEMMA HostHeld ==
  ASSUME HeldFacts, HostStart \/ WaitingStart \/ HostStop
  PROVE  HeldInv'
<1>1. CASE HostStart
  <2>1. state # "reconnecting"
    BY <1>1 DEF HostStart, HeldFacts, Careful
  <2>2. CASE stopPc = "none" /\ BeginOrShareStart /\ UNCHANGED waitingStarts
    BY <1>1, <2>1, <2>2, BeginStartHeld DEF HostStart
  <2>3. CASE stopPc # "none" /\ UNCHANGED <<lifecycleVars, startVars>>
    BY <1>1, <2>1, <2>3 DEF HostStart, HeldFacts, HeldInv, StateIsInFlight,
       LiveIsObserved, StopLetsGo, IdleIsEmpty, NoneLive, Live, lifecycleVars,
       startVars, stopVars, clientVars
  <2> QED
    BY <1>1, <2>2, <2>3 DEF HostStart
<1>2. CASE WaitingStart
  <2>1. waitingStarts \in Nat /\ state # "reconnecting"
    BY <1>2 DEF WaitingStart, HeldFacts, HeldInv, StateIsInFlight, TypeInv, TypeOK
  <2> QED
    BY <1>2, <2>1, BeginStartHeld DEF WaitingStart
<1>3. CASE HostStop
  <2>1. PICK failing \in DisconnectFails :
          Disconnect(failing) /\ stopError' = failing
    BY <1>3 DEF HostStop
  <2>2. /\ ~stopError' /\ NoneLive' /\ UNCHANGED currentClient
    BY <2>1, DisconnectClosesAll
  <2>3. /\ state' = "stopping" /\ activeStartToken' = None
        /\ stopPc' = IF startPc = "none" THEN "disconnectLast"
                                         ELSE "disconnectFirst"
        /\ UNCHANGED <<startVars, waitingStarts, initialized, host>>
    BY <1>3 DEF HostStop, BeginStop
  <2> QED
    BY <2>2, <2>3 DEF HeldFacts, HeldInv, StateIsInFlight, LiveIsObserved,
       StopLetsGo, IdleIsEmpty, NoneLive, Live, startVars
<1> QED
  BY <1>1, <1>2, <1>3

LEMMA StartStepHeld ==
  ASSUME HeldFacts, StartStep
  PROVE  HeldInv'
<1> USE DEF HeldFacts, HeldInv, StateIsInFlight, LiveIsObserved, StopLetsGo,
            IdleIsEmpty, NoneLive, Live, stopVars
<1>0. startPc # "none" => startToken \in Clients /\ startToken # None
  BY TokensFit DEF LifecycleInv, StartHasToken, TypeInv
<1>1. CASE StartCoreFails
  <2>1. activeStartToken = startToken <=> state = "starting"
    BY <1>0, <1>1 DEF StartCoreFails, TypeInv, LifecycleInv, TokensAreInFlight
  <2> QED
    BY <1>1, <2>1 DEF StartCoreFails, MarkFailed, StateUnchanged, StartEnds,
       lifecycleVars, clientVars
<1>2. CASE StartConnects
  <2>1. /\ NoneLive /\ currentClient' = startToken /\ startPc' = "connecting"
        /\ UNCHANGED <<startToken, startOutcome, waitingStarts, stopVars, host>>
        /\ startPc = "core" /\ ~Detaching
        /\ startToken \in Clients
    BY <1>0, <1>2 DEF StartConnects, Careful
  <2>2. stopPc \notin {"disconnectFirst", "disconnectLast", "core"}
    BY <2>1 DEF Detaching
  <2>3. CASE /\ client' = [client EXCEPT ![startToken] = "connecting"]
             /\ connecting' = [connecting EXCEPT ![startToken] = "pending"]
             /\ StateUnchanged
    BY <2>1, <2>2, <2>3 DEF StateUnchanged, lifecycleVars, TypeInv, TypeOK
  <2>4. CASE /\ connecting' = [connecting EXCEPT ![startToken] = "rejected"]
             /\ UNCHANGED client
             /\ IF state = "starting" THEN MarkFailed ELSE StateUnchanged
    BY <2>1, <2>2, <2>4 DEF MarkFailed, StateUnchanged, lifecycleVars, TypeInv,
       TypeOK
  <2> QED
    BY <1>2, <2>3, <2>4 DEF StartConnects
<1>3. CASE StartConnected
  <2>1. CASE /\ activeStartToken = startToken
             /\ state' = "ready" /\ state = "starting"
    BY <1>3, <2>1 DEF StartConnected, StartEnds, clientVars
  <2>2. CASE UNCHANGED state /\ state # "starting"
    BY <1>3, <2>2 DEF StartConnected, StartEnds, clientVars
  <2> QED
    BY <1>0, <1>3, <2>1, <2>2 DEF StartConnected, FinishStartIfCurrent,
       StateUnchanged, lifecycleVars, TypeInv, LifecycleInv, TokensAreInFlight
<1>4. CASE StartConnectFailed
  <2>1. PICK failing \in DisconnectFails : Disconnect(failing)
    BY <1>4 DEF StartConnectFailed
  <2>2. NoneLive' /\ UNCHANGED currentClient
    BY <2>1, DisconnectClosesAll
  <2> QED
    BY <1>4, <2>2 DEF StartConnectFailed, lifecycleVars
<1>5. CASE StartCleanedUp
  <2>1. activeStartToken = startToken <=> state = "starting"
    BY <1>0, <1>5 DEF StartCleanedUp, TypeInv, LifecycleInv, TokensAreInFlight
  <2> QED
    BY <1>5, <2>1 DEF StartCleanedUp, MarkFailed, StateUnchanged, StartEnds,
       DetachClient, lifecycleVars
<1> QED
  BY <1>1, <1>2, <1>3, <1>4, <1>5 DEF StartStep

LEMMA StopStepHeld ==
  ASSUME HeldFacts, StopStep
  PROVE  HeldInv'
<1> USE DEF HeldFacts, HeldInv, StateIsInFlight, LiveIsObserved, StopLetsGo,
            IdleIsEmpty, NoneLive, Live
<1>1. CASE StopDetaches
  BY <1>1 DEF StopDetaches, Detaching, DetachClient, lifecycleVars, startVars
<1>2. CASE StopAwaitedStart
  <2>1. CASE currentClient = None
    BY <1>2, <2>1, LifecycleBounds
    DEF StopAwaitedStart, lifecycleVars, startVars, clientVars, Clients, None
  <2>2. CASE currentClient # None
    <3>1. client[currentClient] = "ready"
      BY <1>2, <2>2 DEF StopAwaitedStart
    <3>2. PICK failing \in DisconnectFails :
            Disconnect(failing) /\ stopError' = failing
      BY <1>2, <2>2, <3>1 DEF StopAwaitedStart
    <3>3. ~stopError' /\ NoneLive' /\ UNCHANGED currentClient
      BY <3>2, DisconnectClosesAll
    <3> QED
      BY <1>2, <2>2, <3>1, <3>3 DEF StopAwaitedStart, lifecycleVars, startVars
  <2> QED
    BY <2>1, <2>2
<1>3. CASE StopEnds
  <2>1. /\ stopPc = "core" /\ stopPc' = "none" /\ ~stopError'
        /\ startPc = "none" /\ currentClient = None /\ NoneLive
        /\ UNCHANGED <<startVars, stopToken, clientVars, host>>
    BY <1>3 DEF StopEnds
  <2>2. CASE MarkFailed
    BY <2>1, <2>2, <1>3 DEF MarkFailed, StopEnds, startVars, clientVars
  <2>3. CASE FinishStopIfCurrent /\ ~initialized'
    <3>1. state' = "idle"
      BY <2>1, <2>3 DEF FinishStopIfCurrent, TypeInv, LifecycleInv,
         StoppingIsAStop
    <3> QED
      BY <2>1, <2>3, <3>1 DEF startVars, clientVars
  <2> QED
    BY <1>3, <2>2, <2>3 DEF StopEnds
<1> QED
  BY <1>1, <1>2, <1>3 DEF StopStep

LEMMA ClientStepHeld ==
  ASSUME HeldFacts, NEW c \in Clients, ClientStep(c)
  PROVE  HeldInv'
<1> USE DEF HeldFacts
<1>1. PICK to \in {"ready", "reconnecting", "closed"},
           report \in {"ready", "reconnecting", "failed"} :
        /\ ClientMoves(c, ClientStates \ {"closed"}, to, report)
        /\ report = "failed" <=> to = "closed"
  BY DEF ClientStep, Establish, Lose, Fail, Cancel, ClientMoves, ClientStates,
     Careful
<1>2. /\ MacrotaskTurn /\ Live(c)
      /\ UNCHANGED <<startVars, waitingStarts, stopVars, initialized,
                     currentClient, host>>
      /\ client' = [client EXCEPT ![c] = to]
      /\ connecting' =
           IF connecting[c] = "pending"
           THEN [connecting EXCEPT
                   ![c] = IF to = "ready" THEN "resolved" ELSE "rejected"]
           ELSE connecting
  BY <1>1 DEF ClientMoves, Live
<1>3. c = currentClient /\ c # None
  BY <1>2, LifecycleBounds DEF HeldInv, LiveIsObserved, Clients, None
<1>4. /\ startPc \notin {"core", "cleanup"}
      /\ state \notin {"idle", "failed"}
      /\ stopPc \notin {"disconnectFirst", "disconnectLast", "core"}
  BY <1>2 DEF HeldInv, LiveIsObserved, NoneLive
<1>5. /\ state' \in {"ready", "reconnecting", "failed"} \/ UNCHANGED state
      /\ state = "stopping" => UNCHANGED state
      /\ state' = "failed" => to = "closed"
  BY <1>1, <1>3, <1>4 DEF ClientMoves, GatewayReports, StateUnchanged,
     MarkFailed, Mark, lifecycleVars
<1>6. StateIsInFlight'
  <2>1. waitingStarts > 0 => state = "stopping"
    BY <1>2 DEF MacrotaskTurn, HeldInv, StateIsInFlight, TypeInv, TypeOK
  <2>2. state' = "starting" => UNCHANGED <<state, activeStartToken>>
    BY <1>1, <1>5 DEF ClientMoves, GatewayReports, StateUnchanged,
       MarkFailed, Mark, lifecycleVars
  <2> QED
    BY <1>2, <1>4, <1>5, <2>1, <2>2 DEF HeldInv, StateIsInFlight, startVars,
       stopVars
<1>7. LiveIsObserved'
  BY <1>2, <1>3, <1>4, <1>5 DEF HeldInv, LiveIsObserved, NoneLive, Live,
     TypeInv, TypeOK, startVars, stopVars
<1>8. StopLetsGo'
  BY <1>2, <1>3, <1>4, TokensFit DEF HeldInv, StopLetsGo, MacrotaskTurn,
     ConnectSettled, TypeInv, TypeOK, startVars, stopVars
<1>9. IdleIsEmpty'
  BY <1>4, <1>5 DEF IdleIsEmpty
<1> QED
  BY <1>6, <1>7, <1>8, <1>9 DEF HeldInv

\* The surroundings do not change, so a careful host stays one.
LEMMA NextHeldInv ==
  TypeInv /\ (Careful => HeldInv) /\ [Next]_vars => (Careful => HeldInv)'
<1> SUFFICES ASSUME TypeInv, Careful => HeldInv, [Next]_vars, Careful'
             PROVE  HeldInv'
  OBVIOUS
<1>1. UNCHANGED host
  BY DEF Next, vars, HostStart, WaitingStart, HostStop, StartStep, StopStep,
     StartCoreFails, StartConnects, StartConnected, StartConnectFailed,
     StartCleanedUp, StopDetaches, StopAwaitedStart, StopEnds, ClientStep,
     Establish, Lose, Fail, Cancel, ClientMoves
<1>2. HeldFacts
  BY <1>1 DEF HeldFacts, Careful
<1>3. CASE UNCHANGED vars
  BY <1>2, <1>3 DEF HeldFacts, HeldInv, StateIsInFlight, LiveIsObserved,
     StopLetsGo, IdleIsEmpty, NoneLive, Live, vars, lifecycleVars, startVars,
     stopVars, clientVars
<1> QED
  BY <1>2, <1>3, HostHeld, StartStepHeld, StopStepHeld, ClientStepHeld DEF Next

LEMMA InitHeldInv == Init => HeldInv
  BY DEF Init, HeldInv, StateIsInFlight, LiveIsObserved, StopLetsGo,
     IdleIsEmpty, NoneLive, Live, None

\* With a careful host an idle runtime has let go of everything, however many
\* starts and stops overtook one another: no connection is open, none is
\* observed, and the provider has been disposed of.
THEOREM IdleRuntimeHasLetGo == Spec => []IdleHoldsNothing
<1>1. HeldInv => (state = "idle" => LetGo)
  BY DEF HeldInv, IdleIsEmpty, LiveIsObserved, NoneLive, LetGo
<1>2. (Careful => HeldInv) => IdleHoldsNothing
  BY <1>1 DEF IdleHoldsNothing
<1>3. Init => (Careful => HeldInv)
  BY InitHeldInv
<1> QED
  BY <1>2, <1>3, InitTypeInv, NextTypeInv, NextHeldInv, PTL DEF Spec
=============================================================================
