-------------------------- MODULE AccountConnection --------------------------
(***************************************************************************)
(* The connections of one OpenClaw account: startAccount() and             *)
(* stopAccount() of the channel, the OpenClawGatewayBridge they make and   *)
(* stop, the status it publishes, the probes of the account, and the       *)
(* ConnectionCoordinator by which both keep out of each other's way.       *)
(*                                                                         *)
(* The gateway accepts one connection of an account.  A probe opens one of *)
(* its own unless the coordinator, the bridge or its last status tells it  *)
(* not to; a start cancels the probe the coordinator knows.  The life of   *)
(* the SDK's runtime is the one of RuntimeLifecycle, as far as the bridge  *)
(* can tell.                                                               *)
(***************************************************************************)
EXTENDS Naturals, FiniteSets

CONSTANTS
  Probes,     \* calls of probeAccount()
  Timeouts,   \* the values of timeoutMs
  MaxStarts,  \* bound: calls of startAccount()
  None

ASSUME NoneIsNoProbe == None \notin Probes
ASSUME BoundsAreNumbers == MaxStarts \in Nat

VARIABLES
  \* ConnectionCoordinator: runtimePhase, whose probeAbortController, and
  \* what the runtimeSnapshot says of the connection
  phase, owner, snapshot,
  \* channel.ts: activeBridges, and where startAccount() and stopAccount() are
  registered, startPc, stopPc, signalled, starts,
  \* OpenClawGatewayBridge: running, runtimePhaseOverride = "stopping",
  \* status.runtimePhase, the status loop, and where stop() is
  running, stopping, shown, loop, closing,
  \* the SDK's runtime: its state, its connection, the outcome of start()
  lifecycle, online, outcome,
  \* probes: where each is, the probes that go through this bridge, whose
  \* connection each uses and its timeoutMs, the open connections, and the
  \* probes told to stop
  pc, bridged, leader, limit, open, cancelled,
  \* history: probes the coordinator lost sight of, and probes of a bridge
  \* that began before its runtime did, or that outlived the bridge
  overwritten, unheeded

coordVars == <<phase, owner, snapshot>>
channelVars == <<registered, startPc, stopPc, signalled, starts>>
bridgeVars == <<running, stopping, shown, loop, closing>>
runtimeVars == <<lifecycle, online, outcome>>
probeVars == <<pc, bridged, leader, limit, open, cancelled, overwritten,
               unheeded>>
vars == <<coordVars, channelVars, bridgeVars, runtimeVars, probeVars>>

Phases == {"idle", "connecting", "ready", "stopping", "failed"}

TypeOK ==
  /\ {phase, shown} \subseteq Phases
  /\ owner \in Probes \cup {None}
  /\ snapshot \in {"none", "down", "up"}
  /\ {registered, signalled, running, stopping, loop, online} \subseteq BOOLEAN
  /\ startPc \in {"stopped", "settling", "booting", "cancelling", "starting",
                  "up", "closing"}
  /\ stopPc \in {"none", "closing"}
  /\ starts \in 0..MaxStarts
  /\ closing \in {"no", "asked", "cancelling", "disconnecting"}
  /\ lifecycle \in {"idle", "starting", "ready", "reconnecting", "stopping",
                    "failed"}
  /\ outcome \in {"pending", "fulfilled", "rejected"}
  /\ pc \in [Probes -> {"unused", "waiting", "asking", "creating",
                        "connecting", "settling", "done"}]
  /\ leader \in [Probes -> Probes \cup {None}]
  /\ limit \in [Probes -> Timeouts \cup {None}]
  /\ \A S \in {bridged, open, cancelled, overwritten, unheeded} : S \subseteq Probes

Init ==
  /\ phase = "idle" /\ owner = None /\ snapshot = "none"
  /\ registered = FALSE /\ startPc = "stopped" /\ stopPc = "none"
  /\ signalled = FALSE /\ starts = 0
  /\ running = FALSE /\ stopping = FALSE /\ shown = "idle" /\ loop = FALSE
  /\ closing = "no"
  /\ lifecycle = "idle" /\ online = FALSE /\ outcome = "pending"
  /\ pc = [p \in Probes |-> "unused"]
  /\ leader = [p \in Probes |-> None]
  /\ limit = [p \in Probes |-> None]
  /\ bridged = {} /\ open = {} /\ cancelled = {} /\ overwritten = {} /\ unheeded = {}

-----------------------------------------------------------------------------
(* The status of the bridge. *)

\* syncStatusFromBridgeRuntime(): the phase that the runtime's state means
PhaseOf(state) ==
  CASE state \in {"starting", "reconnecting"} -> "connecting"
    [] OTHER -> state

\* publishStatus() in a bridge that shows s; the coordinator's phase is ph
Publish(s, ph, override, state) ==
  LET next == IF override THEN "stopping" ELSE PhaseOf(state) IN
  /\ shown' = next
  /\ phase' = IF s = next THEN ph ELSE next
  /\ snapshot' = IF next = "ready" THEN "up" ELSE "down"

\* The interval of startStatusSyncLoop(), and the refresh that telemetry asks
\* for while the bridge is there.
StatusTick ==
  /\ loop \/ startPc = "starting"
  /\ Publish(shown, phase, stopping, lifecycle)
  /\ UNCHANGED <<owner, channelVars, running, stopping, loop, closing,
                 runtimeVars, probeVars>>

-----------------------------------------------------------------------------
(* Cancelling probes. *)

\* The abort reaches the driver within the call: its connection is closed
\* before abort() returns, its promise settles later.  A probe that is still
\* creating its runtime finds the flag afterwards.
Cancel(P) ==
  /\ cancelled' = cancelled \cup P
  /\ open' = open \ P
  /\ pc' = [p \in Probes |->
              IF pc[p] = "connecting" /\ leader[p] \in P
              THEN "settling" ELSE pc[p]]

\* RuntimeProbeService.activeProbes of the bridge's runtime
ActiveProbes ==
  {leader[p] : p \in {q \in bridged : pc[q] \in {"connecting", "settling"}}}

Settled(P) == \A p \in Probes : leader[p] \in P => pc[p] = "done"

-----------------------------------------------------------------------------
(* startAccount() *)

\* The bridge is made, with a runtime that knows of no probes, and start()
\* called, up to its first await.
MakeBridge ==
  /\ registered' = TRUE /\ startPc' = "booting"
  /\ running' = TRUE /\ stopping' = FALSE /\ loop' = FALSE
  /\ shown' = "connecting" /\ phase' = "connecting" /\ snapshot' = "down"
  /\ lifecycle' = "idle" /\ outcome' = "pending"
  /\ bridged' = {} /\ unheeded' = unheeded \cup (open \cap bridged)
  /\ UNCHANGED <<closing, online>>

\* Probes that asked the bridge have been answered: an await of its runtime,
\* which is there, takes one microtask.
NobodyAsks == \A p \in Probes : pc[p] # "asking"

\* The host starts an account again after startAccount() and stopAccount()
\* have returned.
StartAccount ==
  /\ startPc = "stopped" /\ stopPc = "none" /\ starts < MaxStarts
  /\ NobodyAsks
  /\ starts' = starts + 1 /\ signalled' = FALSE
  /\ IF owner = None
     THEN MakeBridge /\ UNCHANGED <<pc, open, cancelled>>
     ELSE /\ phase' = "connecting" /\ startPc' = "settling"
          /\ Cancel({owner})
          /\ UNCHANGED <<snapshot, registered, bridgeVars, runtimeVars, bridged,
                         unheeded>>
  /\ UNCHANGED <<owner, stopPc, leader, limit, overwritten>>

\* waitForProbeSettlement(): the probe has settled, or a second is over.
ProbeSettledOrNot ==
  /\ startPc = "settling"
  /\ MakeBridge
  /\ UNCHANGED <<owner, stopPc, signalled, starts, pc, leader, limit, open,
                 cancelled, overwritten>>

\* runtime.start() cancels the probes of its own first ...
RuntimeStart ==
  /\ startPc = "booting" /\ startPc' = "cancelling"
  /\ Cancel(ActiveProbes)
  /\ UNCHANGED <<coordVars, registered, stopPc, signalled, starts, bridgeVars,
                 runtimeVars, bridged, leader, limit, overwritten,
                 unheeded>>

\* ... and connects: its runtime is new, so there were none to wait for.
LifecycleStart ==
  /\ startPc = "cancelling"
  /\ startPc' = "starting"
  /\ lifecycle' = "starting" /\ online' = TRUE
  /\ UNCHANGED <<coordVars, registered, stopPc, signalled, starts, bridgeVars,
                 outcome, probeVars>>

\* The gateway client: READY, refused, lost, recovered, given up.
GatewayMoves ==
  /\ \/ /\ lifecycle = "starting" /\ lifecycle' = "ready"
        /\ outcome' = "fulfilled" /\ UNCHANGED online
     \/ /\ lifecycle = "starting" /\ lifecycle' = "failed"
        /\ online' = FALSE /\ outcome' \in {"fulfilled", "rejected"}
     \/ /\ lifecycle = "ready" /\ lifecycle' = "reconnecting"
        /\ UNCHANGED <<online, outcome>>
     \/ /\ lifecycle = "reconnecting" /\ lifecycle' = "ready"
        /\ UNCHANGED <<online, outcome>>
     \/ /\ lifecycle \in {"ready", "reconnecting"} /\ lifecycle' = "failed"
        /\ online' = FALSE /\ UNCHANGED outcome
  /\ UNCHANGED <<coordVars, channelVars, bridgeVars, probeVars>>

\* resetRuntimeCoord(), and startAccount() returns.
Reset ==
  /\ phase' = "idle" /\ snapshot' = "none"
  /\ startPc' = "stopped"

\* bridge.start() goes on: it is up, and its status is kept in step.
BridgeStarted ==
  /\ startPc = "starting" /\ outcome = "fulfilled"
  /\ startPc' = "up" /\ loop' = TRUE
  /\ Publish(shown, phase, stopping, lifecycle)
  /\ UNCHANGED <<owner, registered, stopPc, signalled, starts, running,
                 stopping, closing, runtimeVars, probeVars>>

\* bridge.start() fails, and startAccount() with it: nothing is running.
BridgeStartFails ==
  /\ startPc = "starting" /\ outcome = "rejected"
  /\ Reset
  /\ registered' = FALSE /\ running' = FALSE /\ loop' = FALSE
  /\ shown' = (IF stopping THEN "stopping" ELSE PhaseOf(lifecycle))
  /\ UNCHANGED <<owner, stopPc, signalled, starts, stopping, closing,
                 runtimeVars, probeVars>>

-----------------------------------------------------------------------------
(* stopAccount() and the end of startAccount() *)

\* bridge.stop() up to its first await
BridgeStop ==
  /\ running' = FALSE /\ stopping' = TRUE /\ closing' = "asked"
  /\ shown' = "stopping" /\ phase' = "stopping" /\ snapshot' = "down"

\* The host gives the account up.
Signal ==
  /\ ~signalled /\ startPc # "stopped"
  /\ signalled' = TRUE
  /\ UNCHANGED <<coordVars, registered, startPc, stopPc, starts, bridgeVars,
                 runtimeVars, probeVars>>

StopAccount ==
  /\ stopPc = "none" /\ registered
  /\ registered' = FALSE
  /\ IF running
     THEN BridgeStop /\ stopPc' = "closing"
     ELSE UNCHANGED <<phase, snapshot, running, stopping, closing, shown,
                      stopPc>>
  /\ UNCHANGED <<owner, startPc, signalled, starts, loop, runtimeVars,
                 probeVars>>

\* The finally clause of startAccount()
AccountEnds ==
  /\ startPc = "up" /\ signalled
  /\ registered' = FALSE
  /\ IF running
     THEN BridgeStop /\ startPc' = "closing"
     ELSE Reset /\ UNCHANGED <<running, stopping, closing, shown>>
  /\ UNCHANGED <<owner, stopPc, signalled, starts, loop, runtimeVars,
                 probeVars>>

\* runtime.stop() is called after runtime.start() and after the probes that
\* wait for the same promise, and cancels like it.
RuntimeStop ==
  /\ closing = "asked" /\ startPc # "booting" /\ NobodyAsks
  /\ closing' = "cancelling"
  /\ Cancel(ActiveProbes)
  /\ UNCHANGED <<coordVars, channelVars, running, stopping, shown, loop,
                 runtimeVars, bridged, leader, limit, overwritten,
                 unheeded>>

\* Slip: the client is closed, and its connect() left pending.
LifecycleStopLeavesStart ==
  /\ closing = "cancelling" /\ startPc # "cancelling"
  /\ Settled(ActiveProbes \cap cancelled)
  /\ closing' = "disconnecting"
  /\ lifecycle' = "stopping" /\ online' = FALSE
  /\ UNCHANGED <<coordVars, channelVars, running, stopping, shown, loop,
                 outcome, probeVars>>

\* lifecycle.stop(): the client is closed, a start in flight ends.
LifecycleStop ==
  /\ closing = "cancelling" /\ startPc # "cancelling"
  /\ Settled(ActiveProbes \cap cancelled)
  /\ closing' = "disconnecting"
  /\ lifecycle' = "stopping" /\ online' = FALSE
  /\ IF outcome = "pending"
     THEN outcome' \in {"fulfilled", "rejected"} ELSE UNCHANGED outcome
  /\ UNCHANGED <<coordVars, channelVars, running, stopping, shown, loop,
                 probeVars>>

\* Slip: stop() does not wait for the start that it ended.
StartIsOverAnyway == TRUE

StartIsOver == startPc # "starting"

\* lifecycle.stop() has waited for the start: bridge.stop() comes to its end.
BridgeStopped ==
  /\ closing = "disconnecting" /\ StartIsOver
  /\ closing' = "no" /\ stopping' = FALSE /\ loop' = FALSE
  /\ lifecycle' = "idle"
  /\ stopPc' = "none"
  /\ IF startPc = "closing"
     THEN Reset /\ shown' = "idle"
     ELSE Publish("idle", "idle", FALSE, "idle") /\ UNCHANGED startPc
  /\ UNCHANGED <<owner, registered, signalled, starts, running, online,
                 outcome, probeVars>>

-----------------------------------------------------------------------------
(* probeAccount() *)

At(p, where) == pc' = [pc EXCEPT ![p] = where]

\* probeMessageBridgeAccount(): ask the bridge if there is one; believe the
\* coordinator, then the last status; otherwise take the coordinator's place.
ProbeAccount(p) ==
  /\ pc[p] = "unused"
  /\ IF registered
     THEN /\ At(p, "asking") /\ bridged' = bridged \cup {p}
          /\ UNCHANGED <<owner, overwritten>>
     ELSE /\ UNCHANGED bridged
          /\ IF phase = "ready" \/ (phase # "connecting" /\ snapshot = "up")
             THEN At(p, "done") /\ UNCHANGED <<owner, overwritten>>
             ELSE IF phase = "connecting"
             THEN At(p, "waiting") /\ UNCHANGED <<owner, overwritten>>
             ELSE /\ At(p, "creating") /\ owner' = p
                  /\ overwritten' = overwritten \cup ({owner} \ {None})
  /\ UNCHANGED <<phase, snapshot, channelVars, bridgeVars, runtimeVars, leader,
                 limit, open, cancelled, unheeded>>

\* sleep(waitMs) is over: it answers what the coordinator says by then.
ProbeWaited(p) ==
  /\ pc[p] = "waiting" /\ At(p, "done")
  /\ UNCHANGED <<coordVars, channelVars, bridgeVars, runtimeVars, bridged,
                 leader, limit, open, cancelled, overwritten, unheeded>>

Connect(p) ==
  /\ At(p, "connecting")
  /\ leader' = [leader EXCEPT ![p] = p]
  /\ open' = open \cup {p}

\* Slip: whoever finishes gives the place back.
FinishAnyProbe(p) == owner' = None

\* finishProbeConnect(): only the owner gives its place back.
FinishProbe(p) == owner' = IF owner = p THEN None ELSE owner

\* The runtime of the probe is there.
ProbeCreated(p) ==
  /\ pc[p] = "creating"
  /\ IF p \in cancelled
     THEN At(p, "done") /\ FinishProbe(p) /\ UNCHANGED <<leader, open>>
     ELSE Connect(p) /\ UNCHANGED owner
  /\ UNCHANGED <<phase, snapshot, channelVars, bridgeVars, runtimeVars,
                 bridged, limit, cancelled, overwritten, unheeded>>

\* RuntimeProbeService.probe() of the bridge, which its start() reaches first:
\* the state answers, or a probe of the same timeout that is on its way, or a
\* connection.
ProbeBridge(p) ==
  /\ pc[p] = "asking" /\ startPc # "booting"
  /\ IF lifecycle \in {"ready", "starting", "reconnecting", "stopping"}
     THEN At(p, "done") /\ UNCHANGED <<leader, limit, open, unheeded>>
     ELSE \/ \E q \in ActiveProbes :
               /\ pc' = [pc EXCEPT ![p] = pc[q]]
               /\ leader' = [leader EXCEPT ![p] = q]
               /\ UNCHANGED <<limit, open, unheeded>>
          \/ \E t \in Timeouts \ {limit[q] : q \in ActiveProbes} :
               /\ Connect(p)
               /\ limit' = [limit EXCEPT ![p] = t]
               /\ unheeded' = IF startPc = "cancelling"
                              THEN unheeded \cup {p} ELSE unheeded
  /\ UNCHANGED <<coordVars, channelVars, bridgeVars, runtimeVars, bridged,
                 cancelled, overwritten>>

\* The driver's finish(): READY, refused, an error or the timeout.
ProbeFinishes(p) ==
  /\ p \in open
  /\ open' = open \ {p}
  /\ pc' = [q \in Probes |-> IF leader[q] = p THEN "settling" ELSE pc[q]]
  /\ UNCHANGED <<coordVars, channelVars, bridgeVars, runtimeVars, bridged,
                 leader, limit, cancelled, overwritten, unheeded>>

\* Slip: the probes that share the promise are forgotten.
ProbeSettlesAlone(p) ==
  /\ pc[p] = "settling" /\ p = leader[p]
  /\ At(p, "done")
  /\ FinishProbe(p)
  /\ UNCHANGED <<phase, snapshot, channelVars, bridgeVars, runtimeVars,
                 bridged, leader, limit, open, cancelled, overwritten,
                 unheeded>>

\* The promise settles, and with it the probes that share it.
ProbeSettles(p) ==
  /\ pc[p] = "settling"
  /\ pc' = [q \in Probes |-> IF leader[q] = leader[p] THEN "done" ELSE pc[q]]
  /\ FinishProbe(p)
  /\ UNCHANGED <<phase, snapshot, channelVars, bridgeVars, runtimeVars,
                 bridged, leader, limit, open, cancelled, overwritten,
                 unheeded>>

-----------------------------------------------------------------------------
AccountGoesOn ==
  \/ ProbeSettledOrNot \/ RuntimeStart \/ LifecycleStart \/ BridgeStarted
  \/ BridgeStartFails \/ AccountEnds \/ RuntimeStop \/ LifecycleStop
  \/ BridgeStopped

ProbeGoesOn(p) ==
  \/ ProbeWaited(p) \/ ProbeCreated(p) \/ ProbeBridge(p) \/ ProbeFinishes(p)
  \/ ProbeSettles(p)

Next ==
  \/ StartAccount \/ Signal \/ StopAccount \/ AccountGoesOn
  \/ GatewayMoves \/ StatusTick
  \/ \E p \in Probes : ProbeAccount(p) \/ ProbeGoesOn(p)

Spec == Init /\ [][Next]_vars

\* Promises that are settled run their callbacks, timers fire.  Nothing is
\* assumed of the gateway or of the host.
Fairness ==
  /\ WF_vars(AccountGoesOn)
  /\ \A p \in Probes : WF_vars(ProbeGoesOn(p))
FairSpec == Spec /\ Fairness

-----------------------------------------------------------------------------
(* Properties *)

\* One connection at a time, whoever opens it: "同一 accountId 任一时刻最多只允许一
\* 个真实 websocket 建连尝试" (mb-p0-probe-runtime-connection-race.md).
OneConnection == Cardinality(open) + (IF online THEN 1 ELSE 0) <= 1

\* What can break it: a probe that the coordinator lost sight of when another
\* began, one that asked the bridge before its runtime was started, or one of
\* a bridge whose start failed, which nobody cancels, meets a runtime that a
\* start has brought up.  No other probe does: the one that the start
\* cancelled, also while it was still creating its runtime, and the ones of
\* this bridge's runtime once it had failed, are gone.
RivalsAreUnseen ==
  online /\ ~stopping => open \subseteq overwritten \cup unheeded

\* An account that is stopped leaves nothing: no bridge, no connection, no
\* loop that goes on publishing the status of a dead bridge into the next
\* one's, no phase and no status that keep probes from looking.  stopAccount()
\* may end after startAccount() has reset the coordinator, or before.
StoppedAccountIsFree ==
  startPc = "stopped" /\ stopPc = "none" =>
    /\ ~registered /\ ~online /\ ~loop
    /\ phase = "idle" /\ snapshot # "up"

\* A probe answers, whatever starts and stops meanwhile.
ProbesAnswer == \A p \in Probes : pc[p] # "unused" ~> pc[p] = "done"

\* A stop ends, also when it has overtaken a start or waits for probes; and an
\* account that was given up once it was up stops.
AccountsStop ==
  /\ closing # "no" ~> closing = "no"
  /\ signalled /\ startPc = "up" ~> startPc = "stopped"
=============================================================================
