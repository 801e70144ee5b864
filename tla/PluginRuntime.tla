--------------------------- MODULE PluginRuntime ---------------------------
(***************************************************************************)
(* The one runtime of a loaded message-bridge plugin: the module state of  *)
(* runtime/singleton.ts, the initializations (SdkBridgeRuntime.start) it   *)
(* begins, and the status it publishes.  The host loads the plugin, which  *)
(* starts a runtime by itself once, and may start and stop it explicitly.  *)
(*                                                                         *)
(* Every initialization has a candidate c, numbered in order.  phase[c]    *)
(* says at which await its start() is, or which callback of its promise    *)
(* (then, catch, finally, the caller's await) comes next.  The callbacks   *)
(* are microtasks: a host call may come between two of them, but a file    *)
(* read, the health call and the SDK may not (Quiet).                      *)
(*                                                                         *)
(* The generation counter is only ever compared with the token of a        *)
(* candidate; holder is the candidate whose token is the current one.      *)
(* link[c] is the SDK runtime of c, which stops when it is told to.        *)
(***************************************************************************)
EXTENDS Naturals, FiniteSets

CONSTANT MaxStarts      \* bound: initializations ever begun

ASSUME StartsAreBounded == MaxStarts \in Nat \ {0}

Candidates == 1 .. MaxStarts
NoCandidate == 0

Awaits == {"config", "health", "connecting"}
Microtasks == {"raced", "started", "rejected", "settled", "caught", "returning"}
Phases == {"unused", "over"} \cup Awaits \cup Microtasks
Live == {"starting", "ready", "reconnecting"}
Links == {"none", "failed", "stopped"} \cup Live
InitStates == {"never", "initializing", "succeeded", "failed_latched"}
Unavailable == {"not_ready", "disabled", "config_invalid", "plugin_failure",
                "server_failure", "network_failure"}
Statuses == {"connecting", "ready"} \cup Unavailable

VARIABLES
  \* singleton.ts
  loaded, runtime, initializing, holder, initState, locked,
  \* SdkBridgeRuntime, one per candidate
  phase, explicit, aborted, fulfilled, started, link,
  \* MessageBridgeStatusStore
  status,
  \* history: the last explicit call was a stop; a cancelled initialization
  \* went on while a later one was under way or had been installed
  hostStopped, crossed

singletonVars == <<loaded, runtime, initializing, holder, initState, locked>>
candidateVars == <<phase, explicit, aborted, fulfilled, started, link>>
pluginVars == <<singletonVars, candidateVars, status, hostStopped, crossed>>

PluginTypeOK ==
  /\ loaded \in BOOLEAN
  /\ {runtime, initializing, holder} \subseteq Candidates \cup {NoCandidate}
  /\ initState \in InitStates
  /\ locked \in BOOLEAN
  /\ phase \in [Candidates -> Phases]
  /\ explicit \in [Candidates -> BOOLEAN]
  /\ aborted \in [Candidates -> BOOLEAN]
  /\ fulfilled \in [Candidates -> BOOLEAN]
  /\ started \in [Candidates -> BOOLEAN]
  /\ link \in [Candidates -> Links]
  /\ status \in Statuses
  /\ {hostStopped, crossed} \subseteq BOOLEAN

PluginInit ==
  /\ loaded = FALSE /\ runtime = NoCandidate
  /\ initializing = NoCandidate /\ holder = NoCandidate
  /\ initState = "never" /\ locked = FALSE
  /\ phase = [c \in Candidates |-> "unused"]
  /\ explicit = [c \in Candidates |-> FALSE]
  /\ aborted = [c \in Candidates |-> FALSE]
  /\ fulfilled = [c \in Candidates |-> FALSE]
  /\ started = [c \in Candidates |-> FALSE]
  /\ link = [c \in Candidates |-> "none"]
  /\ status = "not_ready"
  /\ hostStopped = FALSE /\ crossed = FALSE

-----------------------------------------------------------------------------
(* Helpers *)

Goto(c, p) == phase' = [phase EXCEPT ![c] = p]

\* No microtask is waiting: the event loop may turn.
Quiet == \A c \in Candidates : phase[c] \notin Microtasks

\* A step of candidate c; the history notes a cancelled one that goes on
\* beside a newer one.
Step(c) ==
  crossed' = (crossed \/ ({holder, runtime} \ {NoCandidate, c}) # {})

Unused == {c \in Candidates : phase[c] = "unused"}
Fresh(c) == c \in Unused /\ \A d \in Unused : c <= d

-----------------------------------------------------------------------------
(* SdkRuntimeStatusAdapter *)

\* publishRuntimeStatus of a failed runtime: a refusal by the server is not
\* replaced by the loss of the network that follows.
FailedStatus(reason) ==
  IF reason = "network_failure" /\ status = "server_failure"
  THEN status ELSE reason

\* The catch of start(): the failure is published unless a more precise one
\* has been.
PluginFailureStatus ==
  IF status \notin Unavailable \/ status = "not_ready"
  THEN "plugin_failure" ELSE status

-----------------------------------------------------------------------------
(* Slips: what a definition below would be if the code had it wrong. *)

\* stopRuntimeInternal() without the stop of the installed runtime.
LinksAfterStopForgetsRuntime ==
  [c \in Candidates |->
     IF initializing = c /\ phase[c] \in {"connecting", "raced"}
     THEN "stopped" ELSE link[c]]

\* The abort does not reject the race with the SDK.
PhaseAfterAbortWaits == phase

\* candidate.start() settles and is installed whatever happened meanwhile.
InitializedAnyway(c) ==
  /\ runtime' = c /\ initState' = "succeeded" /\ locked' = FALSE
  /\ Goto(c, "settled")
  /\ UNCHANGED <<link, started, status>>

\* getOrCreateRuntime() without the test of explicitStopLocked.
MayBeginUnlocked ==
  initializing = NoCandidate /\ initState \notin {"failed_latched", "succeeded"}

-----------------------------------------------------------------------------
(* stopRuntimeInternal, beginRuntimeInitialization *)

\* The signal is only given to the initialization the module still knows.
\* The listener of a start that waits for the SDK stops the SDK and rejects.
LinksAfterStop ==
  [c \in Candidates |->
     IF runtime = c \/ (initializing = c /\ phase[c] \in {"connecting", "raced"})
     THEN "stopped" ELSE link[c]]

PhaseAfterAbort ==
  [c \in Candidates |->
     IF initializing = c /\ phase[c] = "connecting" THEN "rejected" ELSE phase[c]]

StopInternal ==
  /\ aborted' = [c \in Candidates |-> aborted[c] \/ initializing = c]
  /\ link' = LinksAfterStop
  /\ started' = [c \in Candidates |-> started[c] /\ runtime # c]
  /\ runtime' = NoCandidate

\* beginRuntimeInitialization(): start() runs up to its first await.
Begin(c, byHost, phases) ==
  /\ Fresh(c)
  /\ phase' = [phases EXCEPT ![c] = "config"]
  /\ explicit' = [explicit EXCEPT ![c] = byHost]
  /\ holder' = c /\ initializing' = c /\ initState' = "initializing"
  /\ status' = "connecting"

-----------------------------------------------------------------------------
(* The host *)

\* getOrCreateRuntime() begins an initialization only the first time.
MayBegin ==
  /\ initializing = NoCandidate
  /\ ~locked
  /\ initState \notin {"failed_latched", "succeeded"}

\* The plugin is loaded, possibly again, and another runtime is there or
\* none may be begun.
LoadOnly ==
  /\ runtime # NoCandidate \/ ~MayBegin
  /\ loaded' = TRUE
  /\ IF runtime # NoCandidate THEN locked' = FALSE /\ initState' = "succeeded"
     ELSE UNCHANGED <<locked, initState>>
  /\ UNCHANGED <<runtime, initializing, holder, candidateVars, status,
                 hostStopped, crossed>>

\* The plugin is loaded and starts a runtime by itself.
LoadBegins(c) ==
  /\ runtime = NoCandidate /\ MayBegin
  /\ loaded' = TRUE
  /\ Begin(c, FALSE, phase)
  /\ UNCHANGED <<runtime, locked, aborted, fulfilled, started, link,
                 hostStopped, crossed>>

\* startMessageBridgeRuntime(): what runs is stopped and the next begun, in
\* one step.
ExplicitStart(c) ==
  /\ loaded
  /\ StopInternal
  /\ locked' = FALSE
  /\ Begin(c, TRUE, PhaseAfterAbort)
  /\ hostStopped' = FALSE
  /\ UNCHANGED <<loaded, fulfilled, crossed>>

\* stopMessageBridgeRuntime()
ExplicitStop ==
  /\ ~hostStopped
  /\ StopInternal
  /\ phase' = PhaseAfterAbort
  /\ holder' = NoCandidate /\ initializing' = NoCandidate
  /\ initState' = "never" /\ locked' = TRUE
  /\ status' = "not_ready"
  /\ hostStopped' = TRUE
  /\ UNCHANGED <<loaded, explicit, fulfilled, crossed>>

-----------------------------------------------------------------------------
(* SdkBridgeRuntime.start *)

StartFails(c, failure) ==
  /\ Goto(c, "rejected") /\ status' = failure /\ Step(c)
  /\ UNCHANGED <<singletonVars, explicit, aborted, fulfilled, started, link,
                 hostStopped>>

ConfigFails(c) ==
  /\ Quiet /\ phase[c] = "config"
  /\ \E failure \in {"config_invalid", "disabled"} : StartFails(c, failure)

ConfigResolved(c) ==
  /\ Quiet /\ phase[c] = "config"
  /\ Goto(c, "health") /\ Step(c)
  /\ UNCHANGED <<singletonVars, explicit, aborted, fulfilled, started, link,
                 status, hostStopped>>

\* validateBridgeStartup() throws a startup error; whatever else is thrown
\* before the SDK is started is not published.
HealthFails(c) ==
  /\ Quiet /\ phase[c] = "health"
  /\ \E failure \in {"plugin_failure", status} : StartFails(c, failure)

\* The runtime is assembled and the SDK started; only now is the abort
\* signal looked at, and the SDK stopped again.
Healthy(c) ==
  /\ Quiet /\ phase[c] = "health"
  /\ link' = [link EXCEPT ![c] = IF aborted[c] THEN "stopped" ELSE "starting"]
  /\ Goto(c, IF aborted[c] THEN "rejected" ELSE "connecting")
  /\ status' = "connecting"
  /\ Step(c)
  /\ UNCHANGED <<singletonVars, explicit, aborted, fulfilled, started,
                 hostStopped>>

\* The SDK's start() is fulfilled, or rejected; a refused registration
\* fails the runtime and fulfils the start all the same.
SdkStartEnds(c) ==
  /\ Quiet /\ phase[c] = "connecting"
  /\ \/ /\ link' = [link EXCEPT ![c] = "ready"]
        /\ status' = "ready"
        /\ fulfilled' = [fulfilled EXCEPT ![c] = TRUE]
     \/ \E reason \in {"plugin_failure", "server_failure", "network_failure"},
           ok \in BOOLEAN :
          /\ link' = [link EXCEPT ![c] = "failed"]
          /\ status' = FailedStatus(reason)
          /\ fulfilled' = [fulfilled EXCEPT ![c] = ok]
  /\ Goto(c, "raced") /\ Step(c)
  /\ UNCHANGED <<singletonVars, explicit, aborted, started, hostStopped>>

\* The race is over.  An abort that came after the SDK's answer still counts.
RaceEnds(c) ==
  /\ phase[c] = "raced"
  /\ IF aborted[c] THEN Goto(c, "rejected") /\ UNCHANGED <<started, status>>
     ELSE IF fulfilled[c]
     THEN /\ Goto(c, "started")
          /\ started' = [started EXCEPT ![c] = TRUE]
          /\ UNCHANGED status
     ELSE /\ Goto(c, "rejected")
          /\ status' = PluginFailureStatus
          /\ UNCHANGED started
  /\ Step(c)
  /\ UNCHANGED <<singletonVars, explicit, aborted, fulfilled, link, hostStopped>>

\* The connection of a started runtime comes and goes.
LinkMoves(c) ==
  /\ Quiet
  /\ \/ /\ link[c] = "ready"
        /\ link' = [link EXCEPT ![c] = "reconnecting"] /\ status' = "connecting"
     \/ /\ link[c] = "reconnecting"
        /\ link' = [link EXCEPT ![c] = "ready"] /\ status' = "ready"
     \/ /\ link[c] \in {"ready", "reconnecting"}
        /\ link' = [link EXCEPT ![c] = "failed"]
        /\ \E reason \in {"server_failure", "network_failure"} :
             status' = FailedStatus(reason)
  /\ Step(c)
  /\ UNCHANGED <<singletonVars, phase, explicit, aborted, fulfilled, started,
                 hostStopped>>

-----------------------------------------------------------------------------
(* The callbacks of an initialization's promise *)

\* then: a candidate that was overtaken is stopped, which resets the status.
Initialized(c) ==
  IF holder = c
  THEN /\ runtime' = c /\ initState' = "succeeded" /\ locked' = FALSE
       /\ Goto(c, "settled")
       /\ UNCHANGED <<link, started, status>>
  ELSE /\ link' = [link EXCEPT ![c] = "stopped"]
       /\ started' = [started EXCEPT ![c] = FALSE]
       /\ status' = "not_ready"
       /\ Goto(c, "rejected")
       /\ UNCHANGED <<runtime, initState, locked>>

Then(c) ==
  /\ phase[c] = "started"
  /\ Initialized(c)
  /\ Step(c)
  /\ UNCHANGED <<loaded, initializing, holder, explicit, aborted, fulfilled,
                 hostStopped>>

\* catch: whatever is installed is forgotten.
Catch(c) ==
  /\ phase[c] = "rejected"
  /\ runtime' = NoCandidate
  /\ initState' = IF holder = c THEN "failed_latched" ELSE "never"
  /\ Goto(c, "caught") /\ Step(c)
  /\ UNCHANGED <<loaded, initializing, holder, locked, explicit, aborted,
                 fulfilled, started, link, status, hostStopped>>

\* finally: whatever is being initialized is forgotten.
Finally(c) ==
  /\ phase[c] \in {"settled", "caught"}
  /\ initializing' = NoCandidate
  /\ Goto(c, IF phase[c] = "settled" /\ explicit[c] THEN "returning" ELSE "over")
  /\ Step(c)
  /\ UNCHANGED <<loaded, runtime, holder, initState, locked, explicit, aborted,
                 fulfilled, started, link, status, hostStopped>>

\* startRuntimeFromLoadedInput() goes on after its await and installs the
\* candidate once more.
Return(c) ==
  /\ phase[c] = "returning"
  /\ runtime' = c
  /\ Goto(c, "over") /\ Step(c)
  /\ UNCHANGED <<loaded, initializing, holder, initState, locked, explicit,
                 aborted, fulfilled, started, link, status, hostStopped>>

-----------------------------------------------------------------------------
Callback(c) == RaceEnds(c) \/ Then(c) \/ Catch(c) \/ Finally(c) \/ Return(c)

PluginNext ==
  \/ LoadOnly
  \/ ExplicitStop
  \/ \E c \in Candidates :
       \/ LoadBegins(c) \/ ExplicitStart(c)
       \/ ConfigFails(c) \/ ConfigResolved(c) \/ HealthFails(c) \/ Healthy(c)
       \/ SdkStartEnds(c) \/ LinkMoves(c)
       \/ Callback(c)

PluginSpec == PluginInit /\ [][PluginNext]_pluginVars

\* Microtasks run; a file is read and the host answers its health call.
\* Nothing is assumed of the SDK's start().
FairPluginSpec ==
  /\ PluginSpec
  /\ \A c \in Candidates :
       /\ WF_pluginVars(Callback(c))
       /\ WF_pluginVars(ConfigFails(c) \/ ConfigResolved(c))
       /\ WF_pluginVars(HealthFails(c) \/ Healthy(c))

-----------------------------------------------------------------------------
(* Properties *)

\* Unless initializations crossed, when the microtasks have run at most one
\* connection is live and a stopped plugin has none: a stop reaches whatever
\* is connected or connecting, at whichever callback it comes.
StopIsHeeded ==
  Quiet /\ ~crossed =>
             /\ Cardinality({c \in Candidates : link[c] \in Live}) <= 1
             /\ hostStopped => \A c \in Candidates : link[c] \notin Live

\* Unless initializations crossed, a live connection whose start is over is
\* the installed runtime: events reach it, and a stop will.
ConnectionIsHeld ==
  \A c \in Candidates :
    link[c] \in Live /\ phase[c] = "over" =>
      crossed \/ (runtime = c /\ started[c])

\* Unless initializations crossed, after an explicit stop none begins but by an
\* explicit start.
StopSticks ==
  [][\A c \in Candidates :
       hostStopped /\ phase[c] = "unused" /\ phase'[c] # "unused"
         => crossed \/ explicit'[c]]_pluginVars

\* A start that is given up ends, whether or not the SDK ever answers.
AbortedStartsEnd ==
  \A c \in Candidates : aborted[c] ~> phase[c] = "over"

\* "When the runtime runs or is starting, loading again creates no second one."
NoSecondRuntime ==
  [][\A c \in Candidates :
       phase[c] = "unused" /\ phase'[c] # "unused" /\ ~explicit'[c] =>
         \A d \in Candidates :
           \/ d = c \/ aborted[d]
           \/ ~(phase[d] \in Awaits \/ link[d] \in Live)]_pluginVars
=============================================================================
