-------------------------------- MODULE Facts --------------------------------
(***************************************************************************)
(* From an event of a host to a fact of the provider, and from a fact to a *)
(* message of the wire.  An event and a fact are functions from fields to  *)
(* the values of Wire; a field of an object that is not there is absent,   *)
(* and one entry of a list stands for each.  When a message is open, and   *)
(* which run a fact belongs to, is in HostSessionRuns.                     *)
(***************************************************************************)
EXTENDS Wire

\* No fact has no fields.
Nothing == Flat
IsSome(fact) == DOMAIN fact # {}

\* A fact whose identifying fields must be there.
Identified(ids, fields) == IF "absent" \in ids THEN Nothing ELSE fields

Default(v, otherwise) == IF v = "absent" THEN otherwise ELSE v
Truthy(v) == IF v \in {"empty", "null"} THEN "absent" ELSE v

asString == Loose(Texts)
asTrimmedString == loose
asNumber == Loose(Numbers)
asRecord == Loose(Objects)
asBoolean == Loose({"flag"})
Said(v) == Read(asTrimmedString, v)

------------------------------------------------------------------------------
(* What the contract lets a provider put into a fact.                       *)

Maybe(S) == S \cup {"absent"}

StreamFact == [messageId |-> Texts, partId |-> Texts, content |-> Texts]

ToolUpdateFact ==
  [messageId |-> Texts, partId |-> Texts, toolCallId |-> Texts, toolName |-> Texts,
   status |-> PartStatuses, title |-> Maybe(Texts), input |-> Maybe(Objects),
   output |-> Maybe(Texts), error |-> Maybe(Texts)]

QuestionItem ==
  [item_question |-> Texts, item_header |-> Maybe(Texts), item_options |-> Maybe(Lists),
   item_multiSelect |-> {"absent", "flag"},
   option_label |-> Texts, option_description |-> Maybe(Texts)]

QuestionAskFact ==
  [messageId |-> Texts, partId |-> Texts, questionId |-> Texts, questions |-> Lists,
   toolCallId |-> Maybe(Texts), status |-> Maybe(Texts), extParam |-> Values] @@ QuestionItem

PermissionAskFact ==
  [messageId |-> Maybe(Texts), partId |-> Texts, permissionId |-> Texts,
   permType |-> Texts, title |-> Maybe(Texts), metadata |-> Maybe(Objects)]

PermissionReplyFact ==
  [permissionId |-> Texts, response |-> Responses, permType |-> Maybe(Texts)]

MessageDoneFact ==
  [messageId |-> Texts, reason |-> Maybe(Texts), tokens |-> Values, cost |-> Maybe(Numbers)]

SessionErrorFact == [error |-> Texts]

Contract ==
  [t \in {"text.delta", "text.done", "thinking.delta", "thinking.done"} |-> StreamFact]
  @@ ("message.start" :> [messageId |-> Texts]) @@ ("message.done" :> MessageDoneFact)
  @@ ("tool.update" :> ToolUpdateFact) @@ ("question.ask" :> QuestionAskFact)
  @@ ("permission.ask" :> PermissionAskFact) @@ ("permission.reply" :> PermissionReplyFact)
  @@ ("session.title" :> [title |-> Texts]) @@ ("session.error" :> SessionErrorFact)

\* What the runtime does with a fact of each type.
RequiresOpenMessage ==
  {"text.delta", "text.done", "thinking.delta", "thinking.done", "tool.update", "question.ask"}

\* A value the validator of facts lets into a tool update.
isJsonObject(v) == v \in Objects
PassesValidator(f) ==
  /\ f.input = "absent" \/ isJsonObject(f.input)
  /\ f.output \in Maybe(Texts)

------------------------------------------------------------------------------
(* Events of OpenCode to facts.                                             *)

Happened(v) == v \notin {"absent", "null"}

MessageStart(m) ==
  IF Said(m.role) = "assistant" /\ Happened(m.created)
    THEN Identified({Said(m.sessionID), Said(m.id)}, [messageId |-> Said(m.id)])
    ELSE Nothing

MessageDone(m) ==
  IF Said(m.role) = "assistant" /\ Happened(m.completed)
    THEN Identified({Said(m.sessionID), Said(m.id)},
           [messageId |-> Said(m.id), reason |-> Said(m.finish),
            tokens |-> Read(asRecord, m.tokens), cost |-> Read(asNumber, m.cost)])
    ELSE Nothing

PartText(m, content) ==
  Identified({Said(m.sessionID), Said(m.messageID), Said(m.partID)},
    [messageId |-> Said(m.messageID), partId |-> Said(m.partID),
     content |-> Default(Read(asString, content), "empty")])

ThinkingDone(m) == IF Happened(m.end) THEN PartText(m, m.text) ELSE Nothing

ToolStatus(v) == IF v \in {"running", "completed", "error"} THEN v ELSE "pending"

ToolUpdate(m) ==
  Identified({Said(m.sessionID), Said(m.messageID), Said(m.partID)},
    [messageId |-> Said(m.messageID), partId |-> Said(m.partID),
     toolCallId |-> Default(Said(m.callID), Said(m.partID)),
     toolName |-> Default(Said(m.tool), "text"),
     status |-> ToolStatus(Said(m.status)), title |-> Said(m.title),
     input |-> Read(asRecord, m.input), output |-> Truthy(Read(asString, m.output)),
     error |-> Truthy(Read(asString, m.error))])

\* Entries that are no objects are left out, options without a label too.
QuestionOptions(m) ==
  IF m.item_options \notin Lists THEN "absent"
  ELSE IF m.item_options = "list" /\ m.option_label \in Texts THEN "list"
  ELSE "empty list"

QuestionItems(m) ==
  IF m.questions = "list"
    THEN [questions |-> "list", item_question |-> Default(Read(asString, m.item_question), "empty"),
          item_header |-> Said(m.item_header), item_options |-> QuestionOptions(m),
          item_multiSelect |-> Read(asBoolean, m.item_multiple),
          option_label |-> Read(asString, m.option_label),
          option_description |-> Read(asString, m.option_description)]
    ELSE [f \in DOMAIN QuestionItem |-> "absent"] @@ [questions |-> "empty list"]

\* A part of its own when the event names none: the id of the question is the
\* target of replies only.
PartId(m) == Default(Said(m.partID), "text")

QuestionAsk(m) ==
  IF m.questions \in {"list", "bad list"}
    THEN Identified({Said(m.sessionID), Said(m.id), Said(m.messageID)},
           [messageId |-> Said(m.messageID), partId |-> PartId(m), questionId |-> Said(m.id),
            toolCallId |-> "absent", status |-> "absent", extParam |-> "absent"]
           @@ QuestionItems(m))
    ELSE Nothing

\* The first pattern that says something, of the list or of the legacy field.
resolvePermissionPattern(m) ==
  Default(Said(m.patterns_entry),
          IF m.pattern \in Lists THEN Said(m.pattern_entry) ELSE Said(m.pattern))

\* A field of the metadata names what is asked for; a command is described by
\* its description alone, the other types fall back to the pattern.
resolvePermissionAskTitle(m, permType) ==
  Default(Said(m.metadata_named),
          IF permType = "bash" THEN "empty" ELSE Default(resolvePermissionPattern(m), "empty"))

PermissionAsk(m) ==
  LET permType == Default(Said(m.permission), Said(m.type))
  IN  Identified({Said(m.sessionID), Said(m.id), permType},
        [messageId |-> Default(Said(m.tool_messageID), Said(m.messageID)),
         partId |-> PartId(m), permissionId |-> Said(m.id), permType |-> permType,
         title |-> resolvePermissionAskTitle(m, permType),
         metadata |-> Default(Read(asRecord, m.metadata), "empty object")])

PermissionReply(m) ==
  IF Said(m.reply) \in Responses
    THEN Identified({Said(m.sessionID), Said(m.requestID)},
           [permissionId |-> Said(m.requestID), response |-> Said(m.reply),
            permType |-> "absent"])
    ELSE Nothing

SessionTitle(m) == Identified({Said(m.id), Said(m.title)}, [title |-> Said(m.title)])

\* The fields each event is read for.
EventFields ==
  ("message.start" :> {"sessionID", "id", "role", "created"})
  @@ ("message.done" :> {"sessionID", "id", "role", "completed", "finish", "tokens", "cost"})
  @@ ("text.delta" :> {"sessionID", "messageID", "partID", "delta"})
  @@ ("text.done" :> {"sessionID", "messageID", "partID", "text"})
  @@ ("thinking.done" :> {"sessionID", "messageID", "partID", "text", "end"})
  @@ ("tool.update" :> {"sessionID", "messageID", "partID", "callID", "tool", "status",
                        "title", "input", "output", "error"})
  @@ ("question.ask" :> {"sessionID", "id", "messageID", "partID", "questions",
                         "item_question", "item_header", "item_options", "item_multiple",
                         "option_label", "option_description"})
  @@ ("permission.ask" :> {"sessionID", "id", "permission", "type", "tool_messageID",
                           "messageID", "partID", "metadata", "metadata_named",
                           "patterns_entry", "pattern", "pattern_entry"})
  @@ ("permission.reply" :> {"sessionID", "requestID", "reply"})
  @@ ("session.title" :> {"id", "title"})

Translated(type, m) ==
  CASE type = "message.start" -> MessageStart(m)
    [] type = "message.done" -> MessageDone(m)
    [] type = "text.delta" -> PartText(m, m.delta)
    [] type = "text.done" -> PartText(m, m.text)
    [] type = "thinking.done" -> ThinkingDone(m)
    [] type = "tool.update" -> ToolUpdate(m)
    [] type = "question.ask" -> QuestionAsk(m)
    [] type = "permission.ask" -> PermissionAsk(m)
    [] type = "permission.reply" -> PermissionReply(m)
    [] type = "session.title" -> SessionTitle(m)

------------------------------------------------------------------------------
(* Facts OpenClaw builds: fields that are given are copied, and what a tool *)
(* was given and gave is turned into a text.                                *)

stringifyToolPayload(v) ==
  IF v \in Texts \cup {"absent"} THEN v ELSE "text"

buildFact(type, given) ==
  [f \in DOMAIN Contract[type] |-> IF f \in DOMAIN given THEN given[f] ELSE "absent"]

buildToolUpdateFact(given) ==
  [buildFact("tool.update", given)
     EXCEPT !.input = stringifyToolPayload(@), !.output = stringifyToolPayload(@),
            !.error = stringifyToolPayload(@)]

handleApprovalRequested(m) ==
  LET permType == Default(Said(m.type), Said(m.permission))
      permissionId == Default(Said(m.id), Said(m.permissionId))
  IN  Identified({permissionId, Said(m.sessionID), permType},
        buildFact("permission.ask",
          [messageId |-> Default(Said(m.messageId), "text"), partId |-> "text",
           permissionId |-> permissionId, permType |-> permType,
           title |-> Default(Said(m.title), "empty"), metadata |-> "object"]))

ApprovalFields == {"id", "permissionId", "sessionID", "type", "permission", "messageId", "title"}

------------------------------------------------------------------------------
(* Facts to events of the skill protocol.                                   *)

\* The answer to a permission is completed by what was shown when it was asked.
enrichPermissionReply(f, ask) ==
  [f EXCEPT !.permType = Default(@, ask.permType)]
  @@ [partId |-> ask.partId, messageId |-> Truthy(ask.messageId)]

WireKind ==
  [t \in DOMAIN Contract |->
     CASE t = "message.start" -> "step.start"
       [] t = "message.done" -> "step.done"
       [] t = "question.ask" -> "question"
       [] t = "session.error" -> "cloud session.error"
       [] OTHER -> t]

\* The properties of an event, absent where nothing is said.
Properties(kind, fields) ==
  [f \in DOMAIN Schemas[kind].fields |->
     IF f \in DOMAIN fields THEN fields[f] ELSE IF f = "properties" THEN "object" ELSE "absent"]

\* A record keeps the entries that are numbers, and is left out without any.
toOptionalNumericRecord(v) == Read(Loose({"object"}), v)

\* The fields that are left out when they are empty.
Shorten(fact, fields) == [f \in DOMAIN fact |-> IF f \in fields THEN Truthy(fact[f]) ELSE fact[f]]

projectQuestionAskFact(f) ==
  LET shown == Shorten(f, {"status", "item_header"})
  IN  [shown EXCEPT !.toolCallId = Default(@, f.questionId),
                    !.item_options = IF @ = "empty list" THEN "absent" ELSE @]

ProjectFact(type, f) ==
  CASE type = "tool.update" -> Shorten(f, {"title", "error"})
    [] type = "question.ask" -> projectQuestionAskFact(f)
    [] type = "permission.ask" ->
         [Shorten(f, {"messageId"}) EXCEPT !.title = Default(@, "empty")]
    [] type = "permission.reply" -> Shorten(f, {"permType", "messageId", "partId"})
    [] type = "message.done" ->
         [Shorten(f, {"reason"}) EXCEPT !.tokens = toOptionalNumericRecord(@)]
    [] OTHER -> f

projectFact(type, f) == Properties(WireKind[type], ProjectFact(type, f))

Reaches(type, f) == Accepted(WireKind[type], projectFact(type, f))
Shown(type, f) == Normalized(WireKind[type], projectFact(type, f))

\* The envelope around an event.
ToolEvent(toolSessionId, f) ==
  [toolSessionId |-> toolSessionId, subagentSessionId |-> Truthy(f.subagentSessionId),
   subagentName |-> Truthy(f.subagentName)]

------------------------------------------------------------------------------
(* What ends a run and what answers a command.                              *)

Message(type, fields) ==
  [f \in DOMAIN Schemas[type].fields |-> IF f \in DOMAIN fields THEN fields[f] ELSE "absent"]

\* A run that completed or was aborted is done; one that failed says why.
TerminalType(outcome) == IF outcome \in {"completed", "aborted"} THEN "tool_done" ELSE "tool_error"
TerminalSignal(outcome, session, error) ==
  Message(TerminalType(outcome),
        [toolSessionId |-> session,
         error |-> Default(error.message, "text"),
         reason |-> IF error.code = "session_not_found" THEN "session_not_found" ELSE "absent"])

\* Failures the front end is told of in words of the runtime, and those it is
\* not told of.
CataloguedFailures == {"run_already_active", "pending_interaction_not_found"}
QuietFailures ==
  {"fact_sequence_invalid", "pending_interaction_conflict", "outbound_already_active",
   "session_closed", "session_not_found"}

resolveErrorMessage(error) ==
  IF error.code \in CataloguedFailures THEN "text"
  ELSE IF error.code \in QuietFailures THEN "absent"
  ELSE Truthy(error.message)

\* The answer to a command that failed names its tool session only: that of a
\* failed create_session, which has none yet, names nobody.
CommandFailure(command, error) ==
  IF resolveErrorMessage(error) = "absent"
     \/ {Truthy(command.toolSessionId), Truthy(command.welinkSessionId)} = {"absent"}
    THEN Nothing
    ELSE Message("tool_error", [toolSessionId |-> Truthy(command.toolSessionId),
                              error |-> resolveErrorMessage(error)])

SessionCreated(welinkSessionId, toolSessionId) ==
  Message("session_created", [welinkSessionId |-> welinkSessionId, toolSessionId |-> toolSessionId,
                            session |-> "object", sessionId |-> toolSessionId])

SlashCommands(toolSessionId, traceId, commands) ==
  Message("slash_commands_result",
        [toolSessionId |-> toolSessionId, traceId |-> traceId, payload |-> "object"] @@ commands)

=============================================================================
