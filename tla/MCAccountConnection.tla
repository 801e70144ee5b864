------------------------- MODULE MCAccountConnection -------------------------
(* A small instance of AccountConnection. *)
EXTENDS AccountConnection
CONSTANTS p1, p2

-----------------------------------------------------------------------------
(***************************************************************************)
(* What is said of a plugin, against what it is: for TLC to evaluate over  *)
(* short histories of a runtime and over every snapshot of an account.     *)
(***************************************************************************)
LOCAL INSTANCE StatusRules
LOCAL INSTANCE FiniteSets

Runtime(state, code) == [kind |-> "runtime", state |-> state, code |-> code]
Failures == {Runtime("failed", code) : code \in {"auth_rejected", "transport_error", "unknown_error"}}
RuntimeEvents == Failures \cup {Runtime(state, "none") : state \in {"ready", "starting", "idle"}}
HostEvents == {[kind |-> kind] : kind \in {"connecting", "disabled", "config_invalid"}}
Histories(E, n) == UNION {[1..i -> E] : i \in 0..n}

\* Whatever the runtime reports and in whatever order, what is published is a
\* status the store takes (assertValidMessageBridgeStatusSnapshot), which
\* otherwise throws into the callback of the runtime.
ASSUME StatusesAreWellFormed ==
  \A events \in Histories(RuntimeEvents \cup HostEvents, 4) :
    \A i \in 0..Len(events) : assertValid(Statuses(events)[i])

\* The time it was ready last is the time it became ready, not one at which it
\* still was, and nothing else that happens moves it.
ASSUME ReadyTimeIsWhenItBecameReady ==
  \A events \in Histories(RuntimeEvents \cup HostEvents, 4) :
    LET status == Statuses(events)
        entered == {i \in 1..Len(events) : status[i].phase = "ready" /\ status[i - 1].phase # "ready"}
    IN  status[Len(events)].lastReadyAt =
          IF entered = {} THEN Never ELSE CHOOSE i \in entered : \A j \in entered : j <= i

\* While it keeps failing, a refusal of the server is shown until something
\* else than the network fails: of the failures, the last that is not the
\* network's, and the network's only when there is no other.
ASSUME RefusalsAreNotHidden ==
  \A events \in Histories(Failures, 4) \ {<<>>} :
    LET reasons == [i \in 1..Len(events) |-> mapBridgeRuntimeErrorCodeToUnavailableReason(events[i].code)]
        Since(i) == {reasons[j] : j \in i..Len(events)}
        reason == Statuses(events)[Len(events)].unavailableReason
    IN  reason = "network_failure" <=>
          \E i \in 1..Len(events) : /\ Since(i) = {"network_failure"}
                                    /\ \/ i = 1 \/ reasons[i - 1] = "plugin_failure"

\* Nobody but the plugin is blamed for what it or its provider does, and it is
\* blamed for nothing the gateway client has a code for, except for codes the
\* runtime does not know: a gateway that breaks the protocol is one of those.
ASSUME TheRightOneIsBlamed ==
  LET Reason(code) == mapBridgeRuntimeErrorCodeToUnavailableReason(code)
      Errors == [kind : {"gateway"}, code : GatewayClientCodes]
      Other == [kind |-> "other"]
  IN  /\ \A error \in Errors :
           /\ Reason(fromGatewayConnectFailure(error)) = "plugin_failure" <=>
                error.code \notin RuntimeGatewayCodes
           /\ Reason(fromRuntimeInternalFailure(error)) = "plugin_failure"
           /\ fromGatewayClosedFailure(error) = "none" =>
                Reason(fromGatewayConnectFailure(error)) = "plugin_failure"
      /\ \A code \in {fromProviderStartFailure(Other), fromGatewayConnectFailure(Other)} :
           Reason(code) = "plugin_failure"

------------------------------------------------------------------------------

Hosts ==
  LET Kinds == {"absent", "record", "wrong"}
      Build(a, d, b, c, ch, s, st) ==
        [p \in ReplyPaths |->
           CASE p = "root" -> "record" [] p = "agents" -> a [] p = "defaults" -> d
             [] p = "blockStreamingDefault" -> b [] p = "channels" -> ch [] p = "section" -> s
             [] p = "streaming" -> st [] OTHER -> c]
  IN  {host \in {Build(a, d, b, c, ch, s, st) :
         a, d, ch, s \in Kinds, b \in {"absent", "good"}, c \in {"absent", "null"},
         st \in {"absent", "good", "off", "wrong"}} : Formed(host, ReplyParent)}

\* What the host has configured for its replies is never replaced: only what is
\* not there is filled in, nothing is when streaming is off, and what is given
\* to a reply is well formed but for the switch itself.
ASSUME RepliesKeepTheirDefaults ==
  \A host \in Hosts :
    LET effective == EffectiveConfig(host)
    IN  /\ \A p \in ReplyDefaults \cup {"streaming"} : host[p] # "absent" => effective[p] = host[p]
        /\ "injected" \in {effective[p] : p \in ReplyDefaults} =>
             StreamingEnabled(host) /\ MalformedPaths(effective) \subseteq {"streaming"}
        /\ StreamingEnabled(host) => \A p \in ReplyDefaults : effective[p] # "absent"

\* An account is never told that it streams badly because streaming is switched
\* off: that is its choice, and the text kept for it is never shown.
ASSUME ChoicesAreNoIssues ==
  \A enabled, hasRoute, hasReply \in BOOLEAN, last \in Outcomes :
    LET status == StreamingStatus(enabled, hasRoute, hasReply, last)
    IN  ~status.healthy => status.reason # "plugin_streaming_disabled_runtime_reply"

------------------------------------------------------------------------------

ProbeAnswers ==
  [state : {"none", "ready", "rejected", "connecting", "cancelled", "timeout"},
   reason : {"none", "auth", "handshake", "duplicate_connection", "runtime lifecycle"}, error : {FALSE}]
Runtimes ==
  [running : BOOLEAN, connected : BOOLEAN, lastReadyAt : BOOLEAN, heartbeatAge : {NoAge, 65, 66},
   activityAge : {NoAge, 90, 91, 301}, lastError : BOOLEAN, healthy : BOOLEAN,
   reason : {"none", "missing_reply_runtime"}]
Account ==
  [DEFAULT_ACCOUNT_CONFIG EXCEPT !["ak"] = "good", !["sk"] = "good"]
Accounts ==
  {Account, NoSection, [Account EXCEPT !["accounts"] = "record"], [Account EXCEPT !["sk"] = "blank"]}
Snapshots == {Snapshot(Account, runtime, probe) : runtime \in Runtimes, probe \in ProbeAnswers}
Issues(s) == collectMessageBridgeStatusIssues(s, 300)

\* A rejection is left out only where it does not matter: the account has a
\* connection of its own that is alive, no issue says otherwise, and a probe
\* that had not connected would have said ready.
ASSUME HiddenRejectionsAreHarmless ==
  \A s \in Snapshots :
    s.probe.state = "rejected" /\ {"auth", "rejected"} \cap Issues(s) = {} =>
      /\ s.connected /\ "heartbeat" \notin Issues(s)
      /\ ProbeVerdict("idle", "idle", s) = "ready"

\* A probe that is answered from the snapshot never contradicts what the
\* account shows of its heartbeats.
ASSUME VerdictsAgreeWithIssues ==
  \A s \in Snapshots : ProbeVerdict("idle", "idle", s) = "ready" => "heartbeat" \notin Issues(s)

\* An account that is configured shows no issue of its configuration, one that
\* is not shows one, whatever its runtime and its probe do.
ASSUME UnconfiguredAccountsSaySo ==
  \A section \in Accounts, runtime \in Runtimes, probe \in ProbeAnswers :
    LET s == Snapshot(section, runtime, probe)
    IN  s.configured <=> {"legacy", "missing"} \cap Issues(s) = {}

\* As long as probes are skipped nothing is shown of the runtime: neither its
\* last error nor a heartbeat that stopped, and a runtime that keeps being
\* started hides both.
ASSUME SkippedProbesHideTheRuntime ==
  /\ \A s \in Snapshots :
       ProbeIsSkipped(s) => Issues(s) \cap {"last error", "heartbeat", "stuck", "timeout"} = {}
  /\ \E s \in Snapshots : s.lastError /\ s.heartbeatAge > HeartbeatThreshold /\ Issues(s) = {}

\* A connection that beats but has nobody to talk to is said to be stuck once
\* it was silent for longer than a run may take: heartbeats are no activity.
ASSUME QuietLooksStuck ==
  \E s \in Snapshots :
    /\ ProbeVerdict("idle", "idle", s) = "ready" /\ s.heartbeatAge <= HeartbeatThreshold
    /\ Issues(s) = {"stuck"}
=============================================================================
