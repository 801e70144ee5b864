-------------------------------- MODULE Wire --------------------------------
(***************************************************************************)
(* gateway-schema: which messages of the wire are accepted, and the form   *)
(* an accepted message is given.  A message is a function from the names   *)
(* of its fields (the fields of its nested objects included) to abstract   *)
(* values; a value tells apart just what the readers of the schemas tell   *)
(* apart.  A schema gives every field the reader that admits it.           *)
(***************************************************************************)
EXTENDS Naturals, FiniteSets, Sequences, TLC

------------------------------------------------------------------------------
(* Values.                                                                  *)

\* The words of the enumerations, and the two texts a legacy answer may hold.
Responses == {"once", "always", "reject"}
Roles == {"user", "assistant"}
PartStatuses == {"running", "completed", "error", "pending"}
SessionStatuses == {"busy", "idle"}
Words == Responses \cup Roles \cup PartStatuses \cup SessionStatuses
            \cup {"text field", "session_not_found", "true", "grid text", "array text"}

\* "padded" is "text" between blanks, "blank" is nothing but blanks.
Texts == {"text", "padded", "blank", "empty"} \cup Words
Numbers == {"number", "nan"}

\* A "bad" object or list holds an entry the reader of its entries refuses.
Objects == {"object", "bad object", "empty object"}
Lists == {"list", "bad list", "empty list"}
Values == Texts \cup Numbers \cup Objects \cup Lists \cup {"absent", "null", "flag"}

Trim(v) == IF v = "padded" THEN "text" ELSE IF v = "blank" THEN "empty" ELSE v

------------------------------------------------------------------------------
(* Readers.  A reader may trim the value; it takes it, drops it (the field  *)
(* is then absent), or else refuses it and the whole message with it.       *)

Reader(trims, takes, drops) == [trims |-> trims, takes |-> takes, drops |-> drops]

Read(reader, v) ==
  LET w == IF reader.trims THEN Trim(v) ELSE v
  IN  IF w \in reader.drops THEN "absent" ELSE IF w \in reader.takes THEN w ELSE "rejected"

Must(S) == Reader(FALSE, S, {})
May(S) == Reader(FALSE, S, {"absent"})
Loose(S) == Reader(FALSE, S, Values \ S)
Trimmed(reader) == [reader EXCEPT !.trims = TRUE]

\* The texts that say something.
Filled == Texts \ {"blank", "empty"}
OpaqueJson == {"bad object", "bad list"}

required == Trimmed(Must(Filled))
requiredIfGiven == Trimmed(May(Filled))
loose == Trimmed(Loose(Filled))
requiredText == Trimmed(Must(Texts))
looseText == Trimmed(Loose(Texts))
textIfGiven == Trimmed(May(Texts))
protocolString == Must(Texts \ {"empty"})

\* null counts as absent, a blank text too; what is no text is refused.
strict == Reader(TRUE, Filled, {"absent", "null", "empty"})

\* The hardware address: a plain optional text, trimmed after the parse.
macAddress == Reader(TRUE, Filled, {"absent", "empty"})

\* A JSON value: readJsonValue gives up on a bad container, the schema refuses
\* it, and only the schema refuses a number that is not finite.
readJsonValue == Loose(Values \ OpaqueJson)
jsonValueSchema == May(Values \ (OpaqueJson \cup {"nan"}))

\* The metadata of a permission: no object or an empty one is left out.
permissionMetadataSchema == Reader(FALSE, {"object"}, Values \ {"object", "bad object"})

\* The status of a permission: a text, or an object whose type is the text.
permissionStatusSchema == Reader(TRUE, Filled \cup {"object"}, {"absent", "empty"})

\* The error of a session: a text, or an object whose message is the text.
sessionErrorInfoSchema ==
  Reader(TRUE, Texts \cup {"object"}, Values \ (Texts \cup Objects))

\* An array, or else nothing; an entry that does not fit is refused.
arrayOrNothing == Reader(FALSE, {"list"}, Values \ {"list", "bad list"})

number == Must({"number"})
optionalNumber == May({"number"})
readNumber == Loose({"number"})
boolean == Must({"flag"})
optionalBoolean == May({"flag"})
readBoolean == Loose({"flag"})
object == Must({"object"})
optionalObject == May({"object"})
readPlainObject == Loose({"object"})
string == Must(Texts)
optionalString == May(Texts)
optionalRecord == May(Objects)
numberRecord == May({"object", "empty object"})
array == Must({"list", "empty list"})
filledArray == Must({"list"})
optionalArray == May({"list", "empty list"})
readArray == Loose({"list"})
upstreamExt == May(Objects)
downstreamExt == May({"object", "empty object"})
permissionResponse == Must(Responses)
role == Must(Roles)
partStatus == Must(PartStatuses)
sessionStatus == Must(SessionStatuses)
deltaField == Must({"text field"})
toolErrorReason == May({"session_not_found"})
anything == May(Values)
never == May({})

------------------------------------------------------------------------------
(* Schemas: the reader of each field, and the container a nested field is   *)
(* in.  The fields of a container that is not there are not read.           *)

Flat == <<>>
Schema(fields, within) == [fields |-> fields, within |-> within]

\* The fields, all inside one required object (payload, properties).
Inside(container, fields, within) ==
  Schema((container :> object) @@ fields,
         [f \in DOMAIN fields |-> IF f \in DOMAIN within THEN within[f] ELSE container])

Beside(S, fields) == Schema(S.fields @@ fields, S.within)

\* The container of a nested field is there and taken by its own reader.
IsOpen(S, m, f) ==
  f \in DOMAIN S.within => Read(S.fields[S.within[f]], m[S.within[f]]) \in {"object", "list"}

Reads(S, m, f) == IF IsOpen(S, m, f) THEN Read(S.fields[f], m[f]) ELSE "absent"

Accepts(S, m) == \A f \in DOMAIN S.fields : Reads(S, m, f) # "rejected"
Parsed(S, m) == [f \in DOMAIN S.fields |-> Reads(S, m, f)]

\* What every reader and every schema here is like: a reader that drops anything
\* leaves alone what is absent, and a nested field is inside a field.
IsReader(r) ==
  /\ r \in [trims : BOOLEAN, takes : SUBSET Values, drops : SUBSET Values]
  /\ r.drops # {} => "absent" \in r.takes \cup r.drops
IsSchema(S) ==
  /\ \A f \in DOMAIN S.fields : IsReader(S.fields[f])
  /\ \A f \in DOMAIN S.within : S.within[f] \in DOMAIN S.fields

\* a ?? b, and the fields a transform leaves out.
OrElse(m, to, from) == [m EXCEPT ![to] = IF @ = "absent" THEN m[from] ELSE @]
Without(m, fs) == [f \in DOMAIN m |-> IF f \in fs THEN "absent" ELSE m[f]]
PruneEmpty(m, container, children) ==
  IF \A c \in children : m[c] = "absent" THEN Without(m, {container}) ELSE m

------------------------------------------------------------------------------
(* Downstream: the seven invocations and the status query.                  *)

Invoke(payload) ==
  Beside(Inside("payload", payload @@ [extParameters |-> downstreamExt], Flat),
         [welinkSessionId |-> loose])

chatInvokeSchema ==
  Beside(Invoke([toolSessionId |-> required, text |-> required, assistantId |-> strict,
                 assistantAccount |-> strict, sendUserAccount |-> strict,
                 imGroupId |-> strict]),
         [suppressReply |-> optionalBoolean])

createSessionInvokeSchema ==
  Beside(Inside("payload", [title |-> strict, assistantId |-> strict,
                            extParameters |-> downstreamExt], Flat),
         [welinkSessionId |-> required])

closeSessionInvokeSchema == Invoke([toolSessionId |-> required])
abortSessionInvokeSchema == Invoke([toolSessionId |-> required])
permissionReplyInvokeSchema == Invoke([permissionId |-> required, response |-> permissionResponse])

questionReplyInvokeSchema ==
  Invoke([questionId |-> strict, toolCallId |-> strict, answers |-> optionalArray,
          answer |-> anything])

querySlashCommandsInvokeSchema ==
  Schema([toolSessionId |-> required, traceId |-> required, payload |-> optionalObject,
          extParameters |-> downstreamExt], [extParameters |-> "payload"])

statusQueryMessageSchema == Schema(Flat, Flat)

\* A question is named by its id or by its call; the legacy answer counts when
\* there are no answers, and a text that holds a JSON array must hold a grid.
AnswerIsUsable(m) ==
  /\ m.questionId # "absent" \/ m.toolCallId # "absent"
  /\ m.answers # "absent" \/ m.answer \in Texts \ {"array text"}

QuestionAnswers(m) ==
  [Without(OrElse(m, "questionId", "toolCallId"), {"toolCallId", "answer"})
     EXCEPT !.answers = IF @ = "absent" THEN "list" ELSE @]

DownstreamSchemas ==
  ("chat" :> chatInvokeSchema) @@ ("create_session" :> createSessionInvokeSchema)
  @@ ("close_session" :> closeSessionInvokeSchema) @@ ("abort_session" :> abortSessionInvokeSchema)
  @@ ("permission_reply" :> permissionReplyInvokeSchema)
  @@ ("question_reply" :> questionReplyInvokeSchema)
  @@ ("query_slash_commands" :> querySlashCommandsInvokeSchema)
  @@ ("status_query" :> statusQueryMessageSchema)

------------------------------------------------------------------------------
(* Upstream: control and business messages.                                 *)

registerMessageSchema ==
  Schema([deviceName |-> required, macAddress |-> macAddress, os |-> required,
          toolType |-> required, toolVersion |-> required,
          sdkVersion |-> requiredIfGiven, pluginVersion |-> requiredIfGiven], Flat)
NamesAVersion(m) == m.sdkVersion # "absent" \/ m.pluginVersion # "absent"

registerOkMessageSchema == Schema(Flat, Flat)
registerRejectedMessageSchema == Schema([reason |-> loose], Flat)
heartbeatMessageSchema == Schema([timestamp |-> required], Flat)

UsageFields == {"tokens", "inputTokens", "outputTokens", "totalTokens"}
toolDoneMessageSchema ==
  Schema([toolSessionId |-> required, welinkSessionId |-> loose, usage |-> optionalObject]
           @@ [f \in UsageFields |-> optionalNumber], [f \in UsageFields |-> "usage"])

toolErrorMessageSchema ==
  Schema([welinkSessionId |-> loose, toolSessionId |-> loose, error |-> required,
          reason |-> toolErrorReason], Flat)

sessionCreatedMessageSchema ==
  Schema([welinkSessionId |-> required, toolSessionId |-> strict,
          session |-> optionalObject, sessionId |-> strict], [sessionId |-> "session"])

statusResponseMessageSchema == Schema([opencodeOnline |-> boolean], Flat)

slashCommandsResultMessageSchema ==
  Schema([toolSessionId |-> required, traceId |-> required, payload |-> object,
          slashCommands |-> array, command |-> required, description |-> requiredText],
         [slashCommands |-> "payload", command |-> "slashCommands",
          description |-> "slashCommands"])

\* The envelope of a tool event; its event is parsed by the schemas below.
toolEventMessageSchema ==
  Schema([toolSessionId |-> required, subagentSessionId |-> requiredIfGiven,
          subagentName |-> requiredIfGiven], Flat)

UpstreamSchemas ==
  ("register" :> registerMessageSchema) @@ ("register_ok" :> registerOkMessageSchema)
  @@ ("register_rejected" :> registerRejectedMessageSchema)
  @@ ("heartbeat" :> heartbeatMessageSchema) @@ ("tool_done" :> toolDoneMessageSchema)
  @@ ("tool_error" :> toolErrorMessageSchema) @@ ("session_created" :> sessionCreatedMessageSchema)
  @@ ("status_response" :> statusResponseMessageSchema)
  @@ ("slash_commands_result" :> slashCommandsResultMessageSchema)
  @@ ("tool_event" :> toolEventMessageSchema)

------------------------------------------------------------------------------
(* Events of the skill ("cloud") protocol.                                  *)

Event(fields, within) == Inside("properties", fields, within)
SkillEvent(fields) == Event(fields @@ [extParameters |-> upstreamExt], Flat)

skillTextEventSchema ==
  SkillEvent([messageId |-> protocolString, partId |-> protocolString,
              content |-> string])

skillToolUpdateEventSchema ==
  SkillEvent([messageId |-> protocolString, partId |-> protocolString,
              toolName |-> protocolString, toolCallId |-> protocolString,
              status |-> partStatus, title |-> optionalString,
              input |-> optionalRecord, output |-> optionalString,
              error |-> optionalString])

skillStepStartEventSchema == SkillEvent([messageId |-> required])
skillStepDoneEventSchema ==
  SkillEvent([messageId |-> required, tokens |-> numberRecord, cost |-> optionalNumber,
              reason |-> requiredIfGiven])

\* The fields of the former shape of a question fail it.
skillQuestionEventSchema ==
  Event([messageId |-> required, partId |-> required, questionId |-> required,
         toolCallId |-> requiredIfGiven, status |-> requiredIfGiven,
         extParam |-> anything, extParameters |-> upstreamExt, questions |-> filledArray,
         item_question |-> required, item_header |-> requiredIfGiven,
         item_options |-> optionalArray, item_multiSelect |-> optionalBoolean,
         option_label |-> required, option_description |-> looseText,
         question |-> never, header |-> never, options |-> never, multiSelect |-> never],
        [item_question |-> "questions", item_header |-> "questions",
         item_options |-> "questions", item_multiSelect |-> "questions",
         option_label |-> "item_options", option_description |-> "item_options"])

skillPermissionAskEventSchema ==
  SkillEvent([messageId |-> requiredIfGiven, partId |-> required,
              permissionId |-> required, permType |-> required, title |-> string,
              metadata |-> optionalRecord, toolCallId |-> never])

skillPermissionReplyEventSchema ==
  SkillEvent([permissionId |-> required, response |-> required,
              permType |-> requiredIfGiven, messageId |-> requiredIfGiven,
              partId |-> requiredIfGiven])

skillSessionStatusEventSchema == SkillEvent([sessionStatus |-> sessionStatus])
skillSessionTitleEventSchema == SkillEvent([title |-> required])
skillSessionErrorEventSchema == SkillEvent([error |-> required])

SkillSchemas ==
  [t \in {"text.delta", "text.done", "thinking.delta", "thinking.done"} |-> skillTextEventSchema]
  @@ ("tool.update" :> skillToolUpdateEventSchema) @@ ("question" :> skillQuestionEventSchema)
  @@ ("permission.ask" :> skillPermissionAskEventSchema)
  @@ ("permission.reply" :> skillPermissionReplyEventSchema)
  @@ ("step.start" :> skillStepStartEventSchema) @@ ("step.done" :> skillStepDoneEventSchema)
  @@ ("cloud session.status" :> skillSessionStatusEventSchema)
  @@ ("session.title" :> skillSessionTitleEventSchema)
  @@ ("cloud session.error" :> skillSessionErrorEventSchema)

------------------------------------------------------------------------------
(* Events of the opencode protocol.  message.updated and                    *)
(* message.part.updated are projected to a white list before their schema.  *)

ModelFields == {"providerID", "modelID", "provider", "name", "thinkLevel"}
DiffTexts == {"diff_file", "diff_status"}
DiffNumbers == {"diff_additions", "diff_deletions"}
SummaryNumbers == {"additions", "deletions", "files"}

\* What a nested field of message.updated is inside of.
MessageUpdatedNesting ==
  [f \in {"id", "sessionID", "role", "time", "model", "summary", "finish", "error"} |-> "info"]
  @@ [f \in {"created", "completed"} |-> "time"] @@ [f \in ModelFields |-> "model"]
  @@ [f \in SummaryNumbers \cup {"diffs"} |-> "summary"]
  @@ [f \in DiffTexts \cup DiffNumbers |-> "diffs"]
  @@ [f \in {"error_name", "error_message", "statusCode", "retryable", "error_providerID"}
        |-> "error"]

\* info.id ?? properties.messageID on the raw values: a blank id hides the other.
Given(m, first, second) ==
  [m EXCEPT ![first] = IF @ \in {"absent", "null"} THEN m[second] ELSE @]
ProjectMessageIds(m) ==
  IF m.info = "object"
    THEN Without(Given(Given(m, "id", "messageID"), "sessionID", "properties_sessionID"),
                 {"messageID", "properties_sessionID"})
    ELSE m

projectMessageUpdatedEvent ==
  Event([messageID |-> anything, properties_sessionID |-> anything, info |-> object,
         id |-> required, sessionID |-> required, role |-> role, time |-> object,
         created |-> number, completed |-> readNumber, model |-> readPlainObject,
         summary |-> readPlainObject, diffs |-> readArray, finish |-> looseText,
         error |-> readPlainObject, error_name |-> loose, error_message |-> looseText,
         statusCode |-> readNumber, retryable |-> readBoolean, error_providerID |-> loose]
          @@ [f \in ModelFields \cup DiffTexts |-> loose]
          @@ [f \in SummaryNumbers \cup DiffNumbers |-> readNumber],
        MessageUpdatedNesting)

\* An object nothing is left of is left out, an error without a name too.
PruneMessage(m) ==
  LET diffs == PruneEmpty(m, "diffs", DiffTexts \cup DiffNumbers)
      summary == PruneEmpty(diffs, "summary", SummaryNumbers \cup {"diffs"})
      model == PruneEmpty(summary, "model", ModelFields)
  IN  IF model.error_name # "absent" THEN model
      ELSE Without(model, {"error", "error_message", "statusCode", "retryable",
                           "error_providerID"})

messageUpdatedEventSchema ==
  Event([messageID |-> loose, properties_sessionID |-> loose, info |-> object,
         id |-> loose, sessionID |-> loose, role |-> role, time |-> object,
         created |-> number, completed |-> optionalNumber, model |-> optionalObject,
         summary |-> optionalObject, diffs |-> optionalArray, finish |-> looseText,
         error |-> optionalObject, error_name |-> required, error_message |-> looseText,
         statusCode |-> optionalNumber, retryable |-> optionalBoolean,
         error_providerID |-> requiredIfGiven]
          @@ [f \in ModelFields \cup DiffTexts |-> requiredIfGiven]
          @@ [f \in SummaryNumbers \cup DiffNumbers |-> optionalNumber],
        MessageUpdatedNesting)

PartFields == [part |-> object, id |-> required, sessionID |-> required,
               messageID |-> required]
Part(fields, within) ==
  Event(PartFields @@ fields,
        within @@ [f \in (DOMAIN PartFields \cup DOMAIN fields) \ {"part", "delta"} |-> "part"])

StateFields == {"status", "output", "error", "title"}
projectMessagePartUpdatedEvent ==
  [t \in {"part text", "part reasoning"} |->
     Part([text |-> requiredText, delta |-> textIfGiven], Flat)]
  @@ ("part tool" :> Part([tool |-> required, callID |-> required, state |-> readPlainObject,
                           status |-> partStatus, output |-> readJsonValue,
                           error |-> looseText, title |-> looseText],
                          [f \in StateFields |-> "state"]))
  @@ ("part step-start" :> Part(Flat, Flat))
  @@ ("part step-finish" :> Part([tokens |-> readJsonValue, cost |-> readNumber,
                                  reason |-> looseText], Flat))
  @@ ("part file" :> Part([f \in {"filename", "url", "mime"} |-> looseText], Flat))

messagePartUpdatedEventSchema ==
  [t \in {"part text", "part reasoning"} |->
     Part([text |-> requiredText, delta |-> looseText], Flat)]
  @@ ("part tool" :> Part([tool |-> required, callID |-> required,
                           state |-> optionalObject, status |-> partStatus,
                           output |-> jsonValueSchema, error |-> looseText, title |-> looseText],
                          [f \in StateFields |-> "state"]))
  @@ ("part step-start" :> Part(Flat, Flat))
  @@ ("part step-finish" :> Part([tokens |-> jsonValueSchema, cost |-> optionalNumber,
                                  reason |-> looseText], Flat))
  @@ ("part file" :> Part([f \in {"filename", "url", "mime"} |-> looseText], Flat))

messagePartDeltaEventSchema ==
  Event([sessionID |-> required, messageID |-> required, partID |-> required,
         field |-> deltaField, delta |-> requiredText], Flat)
messagePartRemovedEventSchema ==
  Event([sessionID |-> required, messageID |-> required, partID |-> required], Flat)

sessionStatusEventSchema ==
  Event([sessionID |-> required, status |-> object, status_type |-> sessionStatus],
        [status_type |-> "status"])
sessionIdleEventSchema == Event([sessionID |-> required], Flat)

sessionUpdatedEventSchema ==
  Event([sessionID |-> loose, title |-> looseText, info |-> object, id |-> required,
         info_title |-> looseText], [id |-> "info", info_title |-> "info"])
SessionUpdated(m) ==
  Without(OrElse(OrElse(m, "sessionID", "id"), "info_title", "title"), {"title"})

sessionErrorEventSchema ==
  Event([sessionID |-> required, error |-> sessionErrorInfoSchema,
         error_message |-> requiredText], [error_message |-> "error"])
SessionError(m) ==
  Without([m EXCEPT !.error = IF @ = "object" THEN m.error_message ELSE @], {"error_message"})

permissionEventSchema ==
  Event([sessionID |-> required, id |-> loose, permissionID |-> loose,
         messageID |-> loose, type |-> loose, permission |-> loose,
         title |-> looseText, metadata |-> permissionMetadataSchema, status |-> permissionStatusSchema,
         status_type |-> string, response |-> looseText, decision |-> looseText,
         answer |-> looseText, resolved |-> optionalBoolean, isResolved |-> optionalBoolean,
         result |-> optionalObject, result_resolved |-> optionalBoolean,
         result_isResolved |-> optionalBoolean],
        [status_type |-> "status", result_resolved |-> "result",
         result_isResolved |-> "result"])

\* The older names a permission goes by: the first that is given counts.
PermissionAliases ==
  <<<<"type", "permission">>, <<"response", "decision">>, <<"response", "answer">>,
    <<"resolved", "isResolved">>, <<"resolved", "result_resolved">>,
    <<"resolved", "result_isResolved">>>>
Permission(m, aliases) ==
  LET fill[i \in 0..Len(aliases)] ==
        IF i = 0 THEN m ELSE OrElse(fill[i - 1], aliases[i][1], aliases[i][2])
      status == [fill[Len(aliases)] EXCEPT
                   !.status = IF @ # "object" THEN @
                              ELSE Read(loose, m.status_type)]
  IN  Without(status, {a[2] : a \in {aliases[i] : i \in DOMAIN aliases}}
                        \cup {"permissionID", "status_type", "result"})
PermissionUpdated(m) == Permission(m, PermissionAliases \o <<<<"id", "permissionID">>>>)
PermissionAsked(m) == Permission(m, PermissionAliases)

permissionRepliedEventSchema ==
  Event([sessionID |-> required, requestID |-> required, reply |-> permissionResponse], Flat)

questionAskedEventSchema ==
  Event([sessionID |-> required, id |-> loose, messageID |-> loose, callID |-> loose,
         toolCallId |-> loose, questions |-> arrayOrNothing, item_question |-> requiredText,
         item_header |-> looseText, item_options |-> arrayOrNothing,
         option_label |-> requiredText, option_description |-> looseText,
         tool |-> readPlainObject, tool_messageID |-> loose, tool_callID |-> loose],
        [item_question |-> "questions", item_header |-> "questions",
         item_options |-> "questions", option_label |-> "item_options",
         option_description |-> "item_options", tool_messageID |-> "tool",
         tool_callID |-> "tool"])

\* The tool a question belongs to is kept when both of its names are known.
QuestionAsked(m) ==
  LET named == OrElse(OrElse(OrElse(m, "tool_messageID", "messageID"),
                             "tool_callID", "callID"), "tool_callID", "toolCallId")
      bare == Without(named, {"messageID", "callID", "toolCallId"})
  IN  IF bare.tool_messageID # "absent" /\ bare.tool_callID # "absent"
        THEN [bare EXCEPT !.tool = "object"]
        ELSE Without(bare, {"tool", "tool_messageID", "tool_callID"})

OpencodeSchemas ==
  ("message.part.delta" :> messagePartDeltaEventSchema)
  @@ ("message.part.removed" :> messagePartRemovedEventSchema)
  @@ ("session.status" :> sessionStatusEventSchema) @@ ("session.idle" :> sessionIdleEventSchema)
  @@ ("session.updated" :> sessionUpdatedEventSchema)
  @@ ("session.error" :> sessionErrorEventSchema)
  @@ [t \in {"permission.updated", "permission.asked"} |-> permissionEventSchema]
  @@ ("permission.replied" :> permissionRepliedEventSchema)
  @@ ("question.asked" :> questionAskedEventSchema)
  @@ ("message.updated" :> messageUpdatedEventSchema) @@ messagePartUpdatedEventSchema

------------------------------------------------------------------------------
(* The dispatch: what kind a message is of decides its schema, a message of *)
(* no known kind is refused.                                                *)

Projections == ("message.updated" :> projectMessageUpdatedEvent) @@ projectMessagePartUpdatedEvent
Schemas == DownstreamSchemas @@ UpstreamSchemas @@ SkillSchemas @@ OpencodeSchemas

\* What a kind demands beyond its fields.
CrossChecks(kind, m) ==
  CASE kind = "question_reply" -> AnswerIsUsable(m)
    [] kind = "register" -> NamesAVersion(m)
    [] kind = "message.updated" -> /\ m.id # "absent" \/ m.messageID # "absent"
                                   /\ m.sessionID # "absent" \/ m.properties_sessionID # "absent"
    [] OTHER -> TRUE

\* The transform of a kind.
Transformed(kind, m) ==
  CASE kind = "question_reply" -> QuestionAnswers(m)
    [] kind = "tool_done" -> PruneEmpty(m, "usage", UsageFields)
    [] kind = "message.updated" ->
         PruneEmpty(PruneEmpty(ProjectMessageIds(m), "model", ModelFields),
                    "summary", SummaryNumbers \cup {"diffs"})
    [] kind = "session.updated" -> SessionUpdated(m)
    [] kind = "session.error" -> SessionError(m)
    [] kind = "permission.updated" -> PermissionUpdated(m)
    [] kind = "permission.asked" -> PermissionAsked(m)
    [] kind = "question.asked" -> QuestionAsked(m)
    [] OTHER -> m

SchemaAccepts(kind, m) ==
  /\ kind \in DOMAIN Schemas
  /\ Accepts(Schemas[kind], m)
  /\ CrossChecks(kind, Parsed(Schemas[kind], m))
SchemaOutput(kind, m) == Transformed(kind, Parsed(Schemas[kind], m))

\* The projection, where the kind has one.
RawIds(kind, m) == IF kind = "message.updated" THEN ProjectMessageIds(m) ELSE m
ProjectionAccepts(kind, m) ==
  kind \in DOMAIN Projections => Accepts(Projections[kind], RawIds(kind, m))
Projected(kind, m) ==
  IF kind \notin DOMAIN Projections THEN m
  ELSE LET parsed == Parsed(Projections[kind], RawIds(kind, m))
       IN  IF kind = "message.updated" THEN PruneMessage(parsed) ELSE parsed

Accepted(kind, m) == ProjectionAccepts(kind, m) /\ SchemaAccepts(kind, Projected(kind, m))
Normalized(kind, m) == SchemaOutput(kind, Projected(kind, m))

=============================================================================
