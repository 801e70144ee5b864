------------------------------ MODULE FrameRules ------------------------------
(***************************************************************************)
(* What the gateway client makes of a frame it receives and of a message   *)
(* it is to send, and what the runtime answers a frame that is no valid    *)
(* invocation and a command that keeps no state.                           *)
(*                                                                         *)
(* A frame is the data of a socket event: binary, a text that is no JSON,  *)
(* a JSON value that is no object, or an object with its type and action,  *)
(* the fields `m` the schema of its kind names, and the toolSessionId in   *)
(* the place that schema does not look at.                                 *)
(***************************************************************************)
EXTENDS Facts

Handshakes == {"register_ok", "register_rejected"}
ControlTypes == {"register", "heartbeat"}
BusinessTypes ==
  {"tool_event", "tool_done", "tool_error", "session_created", "status_response",
   "slash_commands_result"}
Invocations == DOMAIN DownstreamSchemas \ {"status_query"}

FrameTypes ==
  DOMAIN UpstreamSchemas \cup {"invoke", "status_query", "padded invoke", "other", "blank", "absent"}
FrameActions == Invocations \cup {"padded chat", "other", "blank", "absent"}

------------------------------------------------------------------------------
(* The fields a message is logged and answered by: texts as they are.       *)

Field(m, f) == IF f \in DOMAIN m THEN m[f] ELSE "absent"
TextOf(v) == IF v \in Texts THEN v ELSE "absent"

getMessageType(frame) ==
  IF frame.data = "object" /\ frame.type # "absent" THEN frame.type ELSE "unknown"

extractWelinkSessionId(frame) == TextOf(Field(frame.m, "welinkSessionId"))

\* The outer id, or else the one inside the payload.  The commands of a session
\* are asked for with the outer one, everything else with the inner one.
extractToolSessionId(frame) ==
  LET named == Field(frame.m, "toolSessionId")
      isOuter == frame.action = "query_slash_commands"
      outer == TextOf(IF isOuter THEN named ELSE frame.elsewhere)
      inner == TextOf(IF isOuter THEN frame.elsewhere ELSE named)
  IN  IF Truthy(outer) # "absent" THEN outer
      ELSE IF Field(frame.m, "payload") \in Objects THEN inner ELSE "absent"

------------------------------------------------------------------------------
(* A frame comes in.                                                        *)

decode(frame) ==
  CASE frame.data = "binary" -> "decode_error"
    [] frame.data = "broken" -> "parse_error"
    [] OTHER -> "parsed"

\* The violation that refuses a business message, or none.
Violation(frame) ==
  CASE frame.data # "object" \/ frame.type \in {"blank", "absent"} -> "invalid_field_value"
    [] frame.type = "status_query" ->
         IF Accepted("status_query", frame.m) THEN "none" ELSE "invalid_field_value"
    [] frame.type # "invoke" -> "unsupported_message"
    [] frame.action \notin Invocations \cup {"padded chat"} -> "unsupported_action"
    [] OTHER -> IF frame.action \in Invocations /\ Accepted(frame.action, frame.m)
                  THEN "none" ELSE "invalid_field_value"

Kind(frame) == IF frame.type = "invoke" THEN frame.action ELSE frame.type

Invalid(code) == [kind |-> "invalid", code |-> code, message |-> Nothing]
adapt(frame) ==
  LET type == getMessageType(frame)
  IN  IF type \in Handshakes
        THEN IF Accepted(type, frame.m)
               THEN [kind |-> "control", code |-> "none", message |-> Normalized(type, frame.m)]
               ELSE Invalid("invalid_field_value")
        ELSE IF Violation(frame) # "none" THEN Invalid(Violation(frame))
        ELSE [kind |-> "business", code |-> "none", message |-> Normalized(Kind(frame), frame.m)]

\* "throws" stands for the two branches meant never to be taken.
classify(frame) ==
  LET inbound == adapt(frame)
  IN  CASE decode(frame) # "parsed" -> "nonparsed"
        [] getMessageType(frame) \in Handshakes ->
             (CASE inbound.kind = "control" -> "handshake-control"
                [] inbound.kind = "invalid" -> "invalid-handshake"
                [] OTHER -> "throws")
        [] inbound.kind = "invalid" -> "invalid-business"
        [] inbound.kind = "business" -> "business"
        [] OTHER -> "throws"

\* What a handshake frame decides; a rejection gives a reason or a default.
process(frame) ==
  CASE classify(frame) = "invalid-handshake" -> [kind |-> "protocol-error", reason |-> "text"]
    [] frame.type = "register_ok" -> [kind |-> "ready", reason |-> "absent"]
    [] frame.type = "register_rejected" ->
         [kind |-> "rejected", reason |-> Default(Truthy(adapt(frame).message.reason), "gateway_register_rejected")]
    [] OTHER -> [kind |-> "protocol-error", reason |-> "text"]

\* The kinds of message the host is handed: one at most, and only when READY.
route(frame, isReady) ==
  IF classify(frame) = "business" /\ isReady THEN {Kind(frame)} ELSE {}

------------------------------------------------------------------------------
(* A message goes out: its type, its fields and, in a tool event, the event *)
(* with a kind and fields of its own.  The client has a socket that is open *)
(* or not, a status that is READY or not, and a transport that may throw.   *)

validateTransport(msg) ==
  /\ msg.type \in DOMAIN UpstreamSchemas
  /\ Accepted(msg.type, msg.m)
  /\ msg.type = "tool_event" => /\ msg.event.kind \in DOMAIN SkillSchemas \cup DOMAIN OpencodeSchemas
                                /\ Accepted(msg.event.kind, msg.event.m)

validateGatewayUplinkBusinessMessage(msg) == validateTransport(msg) /\ msg.type \in BusinessTypes

validateBusiness(msg) ==
  msg.type \notin ControlTypes /\ validateGatewayUplinkBusinessMessage(msg)
validateControl(msg) == msg.type \in ControlTypes /\ validateTransport(msg)

Outcome(code, retryable) == [code |-> code, retryable |-> retryable]

dispatch(isBusiness, client) ==
  CASE ~client.connected -> Outcome("GATEWAY_NOT_CONNECTED", TRUE)
    [] isBusiness /\ ~client.ready -> Outcome("GATEWAY_NOT_READY", TRUE)
    [] client.throws -> Outcome("GATEWAY_UNKNOWN_ERROR", FALSE)
    [] OTHER -> Outcome("sent", FALSE)

send(msg, client) ==
  IF validateBusiness(msg) THEN dispatch(TRUE, client)
                           ELSE Outcome("GATEWAY_OUTBOUND_PROTOCOL_INVALID", FALSE)
sendInternalControl(msg, client) ==
  IF validateControl(msg) THEN dispatch(FALSE, client)
                          ELSE Outcome("GATEWAY_OUTBOUND_PROTOCOL_INVALID", FALSE)

------------------------------------------------------------------------------
(* What is kept for the log of a close: the last message of either kind and *)
(* direction, and the last three of the host's.                             *)

RECENT_OUTBOUND_SUMMARY_LIMIT == 3
NoSummaries == [last |-> Nothing, recent |-> <<>>]

recordOutboundSummary(recent, msg) ==
  LET all == Append(recent, msg)
  IN  IF Len(all) > RECENT_OUTBOUND_SUMMARY_LIMIT THEN Tail(all) ELSE all

markReceived(seen, msg) == [seen EXCEPT !.last = [direction |-> "received", message |-> msg]]

\* Marked before the transport is asked, so before it can fail.
markSent(seen, msg, isBusiness) ==
  [last |-> [direction |-> "sent", message |-> msg],
   recent |-> IF isBusiness THEN recordOutboundSummary(seen.recent, msg) ELSE seen.recent]

Marks(outcome) == outcome.code \in {"sent", "GATEWAY_UNKNOWN_ERROR"}

------------------------------------------------------------------------------
(* The runtime: what it answers.                                            *)

\* The runtime checks a message before it gives it to the client; one that is
\* refused is noted and forgotten, and whoever sent it believes it was sent.
Uplink(type, m) == IF IsSome(m) /\ Accepted(type, m) THEN Normalized(type, m) ELSE Nothing

\* A refused invocation is answered if it names a session and the gateway is
\* READY, with the ids as they came (GatewayInboundPolicy).
shouldReplyToInvalidInvoke(frame) ==
  decode(frame) = "parsed" /\ adapt(frame).kind = "invalid" /\ getMessageType(frame) = "invoke"
InvalidInvokeAnswer(frame, isGatewayReady) ==
  LET welink == Truthy(extractWelinkSessionId(frame))
      tool == Truthy(extractToolSessionId(frame))
  IN  IF /\ shouldReplyToInvalidInvoke(frame)
         /\ {welink, tool} # {"absent"}
         /\ isGatewayReady
        THEN Message("tool_error", [welinkSessionId |-> welink, toolSessionId |-> tool, error |-> "text"])
        ELSE Nothing

\* The session a command that failed is summarized with: the one in its payload.
getDownstreamToolSessionId(kind, m) ==
  IF kind = "query_slash_commands" \/ Field(m, "payload") \notin Objects THEN "absent"
  ELSE TextOf(Field(m, "toolSessionId"))

summarizeDownstreamMessage(kind, m) ==
  [toolSessionId |-> getDownstreamToolSessionId(kind, m),
   welinkSessionId |-> TextOf(Field(m, "welinkSessionId"))]

\* The answers to the commands that keep no state, from what the provider gave:
\* `failure` is how it failed, or Nothing.
QueryStatus(online, failure) ==
  IF IsSome(failure) THEN Nothing ELSE Message("status_response", [opencodeOnline |-> online])

ListSlashCommands(m, commands, failure) ==
  SlashCommands(m.toolSessionId, m.traceId,
                IF IsSome(failure) THEN [slashCommands |-> "empty list", command |-> "absent",
                                         description |-> "absent"]
                                   ELSE commands)

CreateSession(m, id, failure) ==
  IF IsSome(failure) THEN CommandFailure(summarizeDownstreamMessage("create_session", m), failure)
                     ELSE SessionCreated(m.welinkSessionId, id)

=============================================================================
