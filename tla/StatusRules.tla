----------------------------- MODULE StatusRules -----------------------------
(***************************************************************************)
(* What the plugins say of themselves: the status message-bridge publishes *)
(* for what its runtime reports, and the snapshot, the probe's verdict and *)
(* the issues message-bridge-openclaw shows for its account.               *)
(***************************************************************************)
EXTENDS Settings

------------------------------------------------------------------------------
(* Who is to blame for a failure of the runtime.                            *)

\* The codes of gateway-client; those after the first seven have no code of the
\* runtime of their own.
RuntimeGatewayCodes ==
  {"connect_parameter_invalid", "auth_rejected", "handshake_timeout", "handshake_rejected",
   "handshake_invalid", "transport_error", "reconnect_exhausted"}
GatewayClientCodes ==
  RuntimeGatewayCodes \cup
  {"connect_aborted", "closed_manual", "inbound_protocol_invalid", "outbound_protocol_invalid",
   "not_connected", "not_ready", "unknown_error"}

\* An error is of the runtime, of the gateway client or anything else.
toRuntimeError(error, fallback, mapped) ==
  CASE error.kind = "runtime" -> error.code
    [] error.kind = "gateway" /\ mapped ->
         IF error.code \in RuntimeGatewayCodes THEN error.code ELSE "unknown_error"
    [] OTHER -> fallback
fromProviderStartFailure(error) == toRuntimeError(error, "provider_unavailable", TRUE)
fromGatewayConnectFailure(error) == toRuntimeError(error, "unknown_error", TRUE)
fromRuntimeInternalFailure(error) == toRuntimeError(error, "runtime_internal_error", FALSE)
\* Being cancelled is no failure.
fromGatewayClosedFailure(error) ==
  IF error.kind # "gateway" \/ error.code \in {"connect_aborted", "closed_manual"}
    THEN "none" ELSE toRuntimeError(error, "unknown_error", TRUE)

mapBridgeRuntimeErrorCodeToUnavailableReason(code) ==
  CASE code = "connect_parameter_invalid" -> "config_invalid"
    [] code \in {"auth_rejected", "handshake_timeout", "handshake_rejected", "handshake_invalid"} ->
         "server_failure"
    [] code \in {"transport_error", "reconnect_exhausted"} -> "network_failure"
    [] OTHER -> "plugin_failure"

------------------------------------------------------------------------------
(* The status of message-bridge.                                            *)

Never == 0      \* no time at all; the times begin with 1
StatusOf(phase, reason, reconnects, readyAt) ==
  [connected |-> phase = "ready", phase |-> phase, unavailableReason |-> reason,
   willReconnect |-> reconnects, lastReadyAt |-> readyAt]
DefaultStatus == StatusOf("unavailable", "not_ready", "no", Never)
Unavailable(current, reason) == StatusOf("unavailable", reason, "no", current.lastReadyAt)
Connecting(current) == StatusOf("connecting", "none", "yes", current.lastReadyAt)

assertValid(status) ==
  CASE status.phase = "ready" ->
         status.connected /\ status.unavailableReason = "none" /\ status.willReconnect = "unknown"
    [] status.phase = "connecting" ->
         ~status.connected /\ status.unavailableReason = "none" /\ status.willReconnect = "yes"
    [] OTHER ->
         ~status.connected /\ status.unavailableReason # "none" /\ status.willReconnect = "no"

\* publishRuntimeStatus(): what the network does after the server refused does
\* not hide the refusal.
publishRuntimeStatus(current, runtime, now) ==
  LET reason == mapBridgeRuntimeErrorCodeToUnavailableReason(runtime.code)
  IN CASE runtime.state = "ready" -> StatusOf("ready", "none", "unknown", now)
       [] runtime.state \in {"starting", "reconnecting"} -> Connecting(current)
       [] /\ runtime.state = "failed"
          /\ ~(/\ reason = "network_failure"
               /\ current.phase = "unavailable" /\ current.unavailableReason = "server_failure") ->
            Unavailable(current, reason)
       [] OTHER -> current

\* syncSdkStatus(), whenever the runtime says that something changed.
syncSdkStatus(current, runtime, now) ==
  IF runtime.state = "ready" /\ current.phase = "ready" /\ current.connected
    THEN current ELSE publishRuntimeStatus(current, runtime, now)

\* What else is published: that it starts, that it is switched off, that its
\* configuration is refused, that it failed.
Published(current, event, now) ==
  CASE event.kind = "connecting" -> Connecting(current)
    [] event.kind = "runtime" -> syncSdkStatus(current, event, now)
    [] OTHER -> Unavailable(current, event.kind)

\* The statuses after each of some events, one after the other.
Statuses(events) ==
  LET status[i \in 0..Len(events)] ==
        IF i = 0 THEN DefaultStatus ELSE Published(status[i - 1], events[i], i)
  IN  status

------------------------------------------------------------------------------
(* How OpenClaw streams.                                                    *)

resolveStreamingExecutionPlan(enabled, hasRoute, hasReply) ==
  IF hasRoute /\ hasReply
    THEN [path |-> "runtime_reply",
          reason |-> IF enabled THEN "runtime_reply_available"
                     ELSE "plugin_streaming_disabled_runtime_reply"]
    ELSE [path |-> "subagent_fallback",
          reason |-> IF hasRoute THEN "missing_reply_runtime" ELSE "missing_route_resolver"]

\* resolveEffectiveReplyConfig(): the sections of the host that are looked at,
\* and four defaults of its agents.
ReplyParent ==
  [agents |-> "root", defaults |-> "agents", blockStreamingDefault |-> "defaults",
   blockStreamingBreak |-> "defaults", blockStreamingChunk |-> "defaults",
   blockStreamingCoalesce |-> "defaults", channels |-> "root", section |-> "channels",
   streaming |-> "section"]
ReplyPaths == {"root"} \cup DOMAIN ReplyParent
ReplySections == {"agents", "defaults", "channels", "section"}
ReplyDefaults ==
  {"blockStreamingDefault", "blockStreamingBreak", "blockStreamingChunk", "blockStreamingCoalesce"}
StreamingEnabled(host) == host.streaming # "off"
MalformedPaths(host) ==
  {p \in ReplySections : host[p] \notin {"absent", "record"}}
  \cup {p \in {"streaming"} : host[p] \notin {"absent", "good", "off"}}

\* What is given stays, and a section that is none gives way.
EffectiveConfig(host) ==
  IF ~StreamingEnabled(host) \/ \A p \in ReplyDefaults : host[p] # "absent" THEN host
  ELSE [p \in ReplyPaths |->
          CASE p \in ReplySections -> "record"
            [] p \in ReplyDefaults /\ host[p] = "absent" -> "injected"
            [] OTHER -> host[p]]

\* The streaming status before a run has shown what really happens, and after.
NoOutcome == "none"
Outcomes == {NoOutcome, "disabled", "chunks", "final only"}
resolveStreamingStatus(enabled, hasRoute, hasReply) ==
  LET plan == resolveStreamingExecutionPlan(enabled, hasRoute, hasReply)
  IN  [healthy |-> plan.path = "runtime_reply", reason |-> plan.reason]
StreamingStatus(enabled, hasRoute, hasReply, outcome) ==
  CASE outcome = NoOutcome -> resolveStreamingStatus(enabled, hasRoute, hasReply)
    [] outcome = "disabled" -> [healthy |-> TRUE, reason |-> "plugin_streaming_disabled_runtime_reply"]
    [] outcome = "chunks" -> [healthy |-> TRUE, reason |-> "runtime_reply_available"]
    [] OTHER -> [healthy |-> FALSE, reason |-> "runtime_reply_final_only"]

------------------------------------------------------------------------------
(* The account of OpenClaw, its ages in seconds.                            *)

HEARTBEAT_INTERVAL == 30
HeartbeatThreshold == HEARTBEAT_INTERVAL * 2 + 5
NoAge == 0 - 1      \* nothing of the kind has happened

\* A runtime without a heartbeat yet is taken to be healthy.
isRuntimeHealthy(runtime) ==
  /\ runtime.connected /\ runtime.lastReadyAt
  /\ runtime.heartbeatAge <= HeartbeatThreshold

\* What a probe says without connecting: the phase of the coordinator decides,
\* and then the last snapshot.  One that waits looks at the phase again.
ProbeVerdict(phase, afterWait, runtime) ==
  CASE phase = "ready" -> "ready"
    [] phase = "connecting" -> IF afterWait = "ready" THEN "ready" ELSE "connecting"
    [] isRuntimeHealthy(runtime) -> "ready"
    [] OTHER -> "connects"

\* buildMessageBridgeAccountSnapshot(): a runtime that was never started has
\* nothing to say.
Snapshot(section, runtime, probe) ==
  [legacyAccountsConfigured |-> hasLegacyAccountsConfig(section),
   missingConfigFields |-> getMissingRequiredConfigPaths(section),
   configured |-> isAccountConfigured(section),
   running |-> runtime.running, connected |-> runtime.connected,
   lastReadyAt |-> runtime.lastReadyAt, heartbeatAge |-> runtime.heartbeatAge,
   activityAge |-> runtime.activityAge, lastError |-> runtime.lastError,
   healthy |-> runtime.healthy, reason |-> runtime.reason, probe |-> probe]

\* Words that are taken for a matter of credentials, wherever they occur: the
\* pattern also finds its "ak" in "handshake".
isAuthRejectedReason(reason) == reason \in {"auth", "handshake"}

Suppressed(s) ==
  s.probe.state = "rejected" /\ s.probe.reason = "duplicate_connection" /\ isRuntimeHealthy(s)
ProbeIsSkipped(s) ==
  \/ s.probe.state = "connecting"
  \/ s.probe.state = "cancelled" /\ s.probe.reason = "runtime lifecycle"

\* Issues of the configuration, of the streaming path and of what was probed.
FirstIssues(s) ==
  (IF s.legacyAccountsConfigured THEN {"legacy"} ELSE {})
  \cup (IF s.missingConfigFields # {} THEN {"missing"} ELSE {})
  \cup (IF s.healthy THEN {} ELSE {IF s.reason = "none" THEN "missing_route_resolver" ELSE s.reason})
  \cup (IF s.probe.error THEN {"probe failed"} ELSE {})
  \cup (IF s.probe.state # "rejected" \/ Suppressed(s) THEN {}
        ELSE {IF isAuthRejectedReason(s.probe.reason) THEN "auth" ELSE "rejected"})

ProbeIssues(s) ==
  (IF s.probe.state \in {"connect_error", "timeout"} THEN {s.probe.state} ELSE {})
  \cup (IF s.lastError THEN {"last error"} ELSE {})

\* Three heartbeats, or as long as a run may take.
ActivityThreshold(runTimeout) ==
  IF runTimeout > HEARTBEAT_INTERVAL * 3 THEN runTimeout ELSE HEARTBEAT_INTERVAL * 3
RuntimeIssues(s, runTimeout) ==
  IF ~s.running THEN {}
  ELSE (IF s.heartbeatAge > HeartbeatThreshold THEN {"heartbeat"} ELSE {})
       \cup (IF s.activityAge > ActivityThreshold(runTimeout) THEN {"stuck"} ELSE {})

collectMessageBridgeStatusIssues(s, runTimeout) ==
  FirstIssues(s) \cup
  (IF ProbeIsSkipped(s) THEN {} ELSE ProbeIssues(s) \cup RuntimeIssues(s, runTimeout))
==============================================================================
