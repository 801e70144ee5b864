-------------------------- MODULE MCGatewayClient --------------------------
(* The gateway client against the contract it promises its host. *)
EXTENDS GatewayClient
LOCAL INSTANCE FrameRules

Promised ==
  INSTANCE GatewayContract WITH status <- status, reason <- reason

\* The reported status follows the contract: first attempts are not retried,
\* only READY opens a reconnect window, only a window is exhausted, and both
\* a first attempt and a window come to an end.  GatewayLifecycleState is the
\* one place that writes the status, from callbacks of every component.
ImplementsContract == Promised!Spec

-----------------------------------------------------------------------------
(* Frames and messages, for TLC to evaluate: objects of every type and      *)
(* action, complete or with any field replaced, and named or not by both    *)
(* of their ids.                                                            *)

\* A text that is not "text", and the values an id is tried with.
Another == "array text"
Ids == {"text", "padded", "blank", "empty", "number", "absent"}

\* A value the reader takes.
Taken(reader) == IF reader.takes \cap {"object", "list"} # {} THEN CHOOSE v \in {"object", "list"} : v \in reader.takes
                 ELSE IF "text" \in reader.takes THEN "text" ELSE CHOOSE v \in reader.takes : TRUE
Whole(kind) == [f \in DOMAIN Schemas[kind].fields |-> Taken(Schemas[kind].fields[f])]

\* The fields of a kind: all of them good, one of them another value; and the
\* ids given in any way.
Bodies(kind) ==
  LET whole == Whole(kind)
  IN  {whole} \cup {[whole EXCEPT ![f] = v] : f \in DOMAIN whole, v \in {"absent", "blank", "null", "number", "bad object"}}
WithIds(m, welink, tool) ==
  [f \in DOMAIN m |-> CASE f = "welinkSessionId" -> welink [] f = "toolSessionId" -> tool [] OTHER -> m[f]]
\* Of an action that is none, the ids and the payload are all that is looked at.
Unknown == [welinkSessionId |-> "text", payload |-> "object", toolSessionId |-> "text"]

Frame(data, type, action, m, elsewhere) ==
  [data |-> data, type |-> type, action |-> action, m |-> m, elsewhere |-> elsewhere]
InvokeFrames ==
  UNION {{Frame("object", "invoke", action, WithIds(m, welink, tool), elsewhere) :
            m \in IF action \in Invocations THEN Bodies(action) ELSE {Unknown, [Unknown EXCEPT !.payload = "absent"]},
            welink \in Ids \ {"padded", "number"}, tool \in Ids, elsewhere \in {"absent", "empty", Another}} : action \in FrameActions}
OtherFrames ==
  {Frame(data, "absent", "absent", Nothing, "absent") : data \in {"binary", "broken", "primitive"}}
  \cup UNION {{Frame("object", type, "absent", m, "absent") :
                  m \in IF type \in DOMAIN Schemas THEN Bodies(type) ELSE {Unknown}} : type \in FrameTypes \ {"invoke"}}
Good == [connected |-> TRUE, ready |-> TRUE, throws |-> FALSE]
Frames == InvokeFrames \cup OtherFrames

\* No frame of the gateway makes a handler throw, and none of the handshake can
\* be refused: with the schemas of the repository GATEWAY_HANDSHAKE_INVALID is
\* an error only another codec can cause (InboundFrameClassifier.ts,
\* HandshakeFrameProcessor.ts).
ASSUME FramesAreSorted ==
  \A frame \in Frames :
    /\ classify(frame) \notin {"throws", "invalid-handshake"}
    /\ classify(frame) = "handshake-control" =>
         /\ process(frame).kind # "protocol-error"
         /\ process(frame).kind = "rejected" => process(frame).reason \in Filled \cup {"gateway_register_rejected"}

\* The host is handed an invocation it knows or a status query and nothing else,
\* never before READY, and never what it would also be asked to refuse: a frame
\* is handled or answered, not both (InboundFrameRouter.ts,
\* GatewayInboundPolicy.ts).
ASSUME FramesAreHandledOnce ==
  \A frame \in Frames : \A isReady \in BOOLEAN :
    LET handed == route(frame, isReady)
    IN  /\ handed \subseteq DOMAIN DownstreamSchemas
        /\ handed # {} => isReady /\ frame.type \in {"invoke", "status_query"}
        /\ handed = {} \/ ~IsSome(InvalidInvokeAnswer(frame, isReady))

\* Who sends an invocation that is refused hears of it, once READY, if it gave
\* any id: the answer always passes the schema, but an id of blanks is as good as
\* an id to the policy and none to the schema, which leaves an answer to nobody.
\* It is given only to a client that can send it.  A type with blanks around it
\* is no invocation and is not answered.
ASSUME RefusedInvocationsAreAnswered ==
  \A frame \in InvokeFrames :
    LET answer == Uplink("tool_error", InvalidInvokeAnswer(frame, TRUE))
        given == {extractWelinkSessionId(frame), extractToolSessionId(frame)}
    IN  /\ ~IsSome(InvalidInvokeAnswer(frame, FALSE))
        /\ classify(frame) = "invalid-business" =>
          /\ IsSome(answer) <=> given \ {"empty", "absent"} # {}
          /\ IsSome(answer) =>
               /\ send([type |-> "tool_error", m |-> answer, event |-> Nothing], Good).code = "sent"
               /\ {answer.welinkSessionId, answer.toolSessionId} = {"absent"}
                    <=> given \subseteq {"blank", "empty", "absent"}

\* A chat that names another session beside its payload is prompted in the one
\* and refused in the name of the other.
ASSUME OuterIdsAreAnswered ==
  \A frame \in InvokeFrames : frame.action = "chat" /\ frame.elsewhere = Another =>
    IF classify(frame) = "business"
      THEN adapt(frame).message.toolSessionId = Trim(frame.m.toolSessionId)
      ELSE InvalidInvokeAnswer(frame, TRUE).toolSessionId = Another

-----------------------------------------------------------------------------
Clients == [connected : BOOLEAN, ready : BOOLEAN, throws : BOOLEAN]
NoEvent == [kind |-> "none", m |-> Nothing]
Outbound(type, m, event) == [type |-> type, m |-> m, event |-> event]
Messages ==
  UNION {{Outbound(type, m, NoEvent) : m \in IF type \in DOMAIN Schemas THEN Bodies(type) ELSE {Unknown}} :
           type \in FrameTypes}
  \cup {Outbound("tool_event", m, [kind |-> "text.done", m |-> event]) :
           m \in Bodies("tool_event"), event \in Bodies("text.done")}

\* A refusal that says it may be tried again is one of the moment: the same
\* message is sent by a client that is READY.  One that does not is final but
\* for a transport that threw.  The host sends nothing but business messages,
\* the client itself nothing but control messages (OutboundSender.ts,
\* OutboundProtocolGate.ts).
ASSUME RetryableMeansLater ==
  \A msg \in Messages, client \in Clients :
    LET outcome == send(msg, client)
    IN  /\ outcome.retryable => send(msg, Good).code = "sent"
        /\ outcome.code = "GATEWAY_OUTBOUND_PROTOCOL_INVALID" => send(msg, Good).code = outcome.code
        /\ outcome.code = "sent" => /\ msg.type \in BusinessTypes /\ client.connected /\ client.ready
                                    /\ sendInternalControl(msg, Good).code # "sent"
        /\ sendInternalControl(msg, client).code = "sent" => msg.type \in ControlTypes /\ client.connected

\* The log of a close shows the last three messages the host gave to the
\* transport: heartbeats and frames received do not push them out, a message
\* the transport threw away is among them (GatewayClientTelemetry.ts).
Marked(steps) ==
  LET after[i \in 0..Len(steps)] ==
        IF i = 0 THEN NoSummaries
        ELSE CASE steps[i] = "received" -> markReceived(after[i - 1], i)
               [] steps[i] = "heartbeat" -> markSent(after[i - 1], i, FALSE)
               [] Marks(dispatch(TRUE, [Good EXCEPT !.throws = steps[i] = "thrown",
                                                    !.ready = steps[i] # "early"])) ->
                    markSent(after[i - 1], i, TRUE)
               [] OTHER -> after[i - 1]
  IN  after[Len(steps)]
ASSUME SummariesAreTheLastThree ==
  \A n \in 0..6 : \A steps \in [1..n -> {"received", "heartbeat", "sent", "thrown", "early"}] :
    LET given == {i \in 1..n : steps[i] \in {"sent", "thrown"}}
        recent == Marked(steps).recent
    IN  /\ Len(recent) = (IF Cardinality(given) > 3 THEN 3 ELSE Cardinality(given))
        /\ \A i \in DOMAIN recent : recent[i] \in given /\ Cardinality({j \in given : j > recent[i]}) = Len(recent) - i

-----------------------------------------------------------------------------
\* A command that keeps no state is heard of unless the provider's answer does
\* not fit the wire: then nobody is told, neither the gateway nor the runtime,
\* which counts the command as done (GatewayOutboundSinkAdapter.ts).  A list of
\* commands that failed is an empty list; a status query that failed is no
\* answer at all.
Failed(message, code) == [message |-> message, code |-> code]
ASSUME StatelessCommandsAreHeard ==
  /\ \A online \in Values :
       IsSome(Uplink("status_response", QueryStatus(online, Nothing))) <=> online = "flag"
  /\ ~IsSome(QueryStatus("flag", Failed("text", "internal_error")))
  /\ \A m \in Bodies("query_slash_commands") : Accepted("query_slash_commands", m) =>
       \A name, description \in Maybe(Texts) : \A failure \in {Nothing, Failed("text", "internal_error")} :
         LET list == [slashCommands |-> "list", command |-> name, description |-> description]
         IN  IsSome(Uplink("slash_commands_result",
                           ListSlashCommands(Normalized("query_slash_commands", m), list, failure)))
               <=> \/ IsSome(failure)
                   \/ name \in Filled /\ description # "absent"

\* A session that could not be created is reported without the id the request
\* was made under: the projector asks for either id and passes on just the one a
\* create_session never has (CommandFailureToolErrorProjector.ts).
ASSUME FailedCreationsNameNobody ==
  \A m \in Bodies("create_session") : Accepted("create_session", m) =>
    LET asked == Normalized("create_session", m)
        answer == Uplink("tool_error", CreateSession(asked, "text", Failed("text", "internal_error")))
    IN  /\ asked.welinkSessionId \in Filled
        /\ IsSome(answer) /\ {answer.welinkSessionId, answer.toolSessionId} = {"absent"}
=============================================================================
