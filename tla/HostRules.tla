------------------------------ MODULE HostRules ------------------------------
(***************************************************************************)
(* How message-bridge reads what the OpenCode host answers: the errors of  *)
(* its client, the sessions, messages, models and commands it returns, the *)
(* end of a prompt; and the tokens of the questions a run waits for.  An   *)
(* error is the sequence of an object and of the objects nested in it,     *)
(* outermost first, with the evidence attached to the outermost.           *)
(***************************************************************************)
EXTENDS Facts

------------------------------------------------------------------------------
(* Errors.                                                                  *)

Names == {"absent", "blank", "text", "NotFoundError", "MessageAbortedError"}
Statuses == {"absent", "404", "text 404", "out of range", "text"}
NoEvidence == [sourceErrorCode |-> "absent", httpStatus |-> "absent", sourceOperation |-> "absent"]

readString(v) == IF v \in {"blank", "empty"} \cup Numbers \cup Objects \cup Lists \cup {"null", "flag"}
                   THEN "absent" ELSE v
stringifyScalar(v) == IF v \in Numbers \cup {"flag"} THEN "text" ELSE readString(v)
asHttpStatus(v) == IF v \in {"404", "text 404"} THEN "404" ELSE "absent"

\* The first of the values that says something.
FirstOf(values) ==
  LET said == SelectSeq(values, LAMBDA v : v # "absent")
  IN  IF said = <<>> THEN "absent" ELSE Head(said)

\* An Error answers for itself, with its name or else a word when its message
\* is empty; an object asks the one nested in it; a text is its own message.
getErrorMessage(error) ==
  LET layers == error.layers
      message[i \in 1..Len(layers)] ==
        LET layer == layers[i] IN
        CASE layer.kind = "Error" -> IF layer.message # "empty" THEN layer.message ELSE "text"
          [] layer.kind = "text" -> layer.message
          [] OTHER -> FirstOf(<<stringifyScalar(layer.message),
                                IF i < Len(layers) THEN message[i + 1] ELSE "text">>)
  IN  message[1]

\* The code of the outermost layer that has one; nothing is read below an Error.
ErrorCode(error) ==
  LET layers == error.layers
      code[i \in 1..Len(layers)] ==
        IF layers[i].kind = "text" THEN "absent"
        ELSE FirstOf(<<stringifyScalar(layers[i].code),
                       IF i < Len(layers) /\ layers[i].kind = "object" THEN code[i + 1] ELSE "absent">>)
  IN  code[1]

\* The status is looked for in the error and in the one nested directly in it.
HttpStatus(error) ==
  FirstOf(<<asHttpStatus(error.layers[1].status),
            IF Len(error.layers) > 1 THEN asHttpStatus(error.layers[2].status) ELSE "absent">>)

getToolErrorEvidence(error, operation) ==
  [sourceErrorCode |-> FirstOf(<<stringifyScalar(error.attached.sourceErrorCode), ErrorCode(error)>>),
   httpStatus |-> FirstOf(<<asHttpStatus(error.attached.httpStatus), HttpStatus(error)>>),
   sourceOperation |-> FirstOf(<<operation, error.attached.sourceOperation>>)]

\* The error, or one nested in it, is named NotFoundError.
isNotFoundError(error) ==
  \E i \in 1..Len(error.layers) :
    error.layers[i].kind # "text" /\ error.layers[i].name = "NotFoundError"

------------------------------------------------------------------------------
(* Calls of the client.  A call is rejected, or gives a result that holds   *)
(* an error, that holds data, or that is bare data.  The message of most    *)
(* failures begins with what failed, so that it is never blank.             *)

hasError(result) == result.kind = "error"

Failed(message, evidence) ==
  [success |-> FALSE, errorMessage |-> message, errorEvidence |-> evidence, data |-> Flat]
Succeeded(data) ==
  [success |-> TRUE, errorMessage |-> "absent", errorEvidence |-> NoEvidence, data |-> data]

\* `answer` is what onSuccess makes of the result.
executeSdkCall(result, operation, answer) ==
  IF result.kind = "thrown" THEN Failed("text", NoEvidence)
  ELSE IF hasError(result) THEN Failed("text", getToolErrorEvidence(result.error, operation))
  ELSE answer

\* createSession passes on the message of a rejected call as it is, and takes
\* an answer without an id for a session.
extractSessionObject(result) ==
  IF result.kind = "data"
    THEN [sessionId |-> readString(result.data.id), session |-> result.data]
    ELSE [sessionId |-> "absent", session |-> [id |-> "absent"]]
createSession(result) ==
  IF result.kind = "thrown" THEN Failed(getErrorMessage(result.error), NoEvidence)
  ELSE IF hasError(result) THEN Failed("text", getToolErrorEvidence(result.error, "session.create"))
  ELSE Succeeded(extractSessionObject(result))

\* The two ways to a new session: the owned sessions', the old control plane's.
CreatedSession(result) ==
  LET created == createSession(result)
  IN  IF created.success THEN created.data.session ELSE [id |-> "refused"]
BootstrapSession(result) ==
  LET created == createSession(result)
  IN  IF ~created.success \/ created.data.sessionId = "absent" THEN [id |-> "refused"]
      ELSE [id |-> created.data.sessionId]

------------------------------------------------------------------------------
(* Is the session still there?                                              *)

\* SessionLookupResolver, before a prompt.
LookupFailure(error) ==
  IF isNotFoundError(error)
    THEN [reason |-> "not_found",
          errorEvidence |-> [NoEvidence EXCEPT !.sourceErrorCode = "session_not_found",
                                               !.sourceOperation = "session.get"]]
    ELSE [reason |-> "failed", errorEvidence |-> getToolErrorEvidence(error, "session.get")]
MissingId == [layers |-> <<[kind |-> "Error", message |-> "text", name |-> "text",
                            code |-> "absent", status |-> "absent"]>>,
              attached |-> NoEvidence]
resolve(result) ==
  IF result.kind \in {"thrown", "error"} THEN LookupFailure(result.error)
  ELSE IF result.kind # "data" \/ readString(result.data.id) = "absent" THEN LookupFailure(MissingId)
  ELSE [reason |-> "found", errorEvidence |-> NoEvidence]

\* getHostSessionInfo, for the control plane.
getHostSessionInfo(result) ==
  IF result.kind \in {"thrown", "error"}
    THEN [found |-> FALSE, errorEvidence |-> getToolErrorEvidence(result.error, "session.get")]
    ELSE [found |-> Said(result.data.id) # "absent", errorEvidence |-> NoEvidence]
shouldInvalidateBinding(evidence) ==
  evidence.sourceOperation = "session.get" /\ evidence.sourceErrorCode = "session_not_found"

------------------------------------------------------------------------------
(* The end of a prompt.                                                     *)

\* Every number must be finite; total is read when it is there.
TokenFields == {"input", "output", "reasoning", "read", "write"}
normalizePromptMessage(m) ==
  IF readString(m.id) = "absent" \/ m.cost # "number" \/ \E f \in TokenFields : m[f] # "number"
    THEN Nothing
    ELSE [error |-> readString(m.error_name), statusCode |-> m.error_statusCode]

\* A failure carries the name of the error, so that its message is never blank.
derivePromptTerminal(message) ==
  CASE message.error = "absent" -> [kind |-> "completed", message |-> "absent"]
    [] message.error = "MessageAbortedError" -> [kind |-> "aborted", message |-> "absent"]
    [] OTHER -> [kind |-> "failed", message |-> "text"]

PromptPayload(operation, result) ==
  LET message == IF result.kind = "thrown" THEN Nothing ELSE normalizePromptMessage(result.data)
  IN  IF IsSome(message) THEN Succeeded(derivePromptTerminal(message))
      ELSE Failed("text", [NoEvidence EXCEPT !.sourceOperation = operation])

promptSession(lookup, result) ==
  LET found == resolve(lookup)
  IN  IF found.reason # "found" THEN Failed("text", found.errorEvidence)
      ELSE executeSdkCall(result, "session.prompt", PromptPayload("session.prompt", result))

\* A command of the host is not preceded by a lookup.
commandSession(available, result) ==
  IF ~available THEN Failed("text", [NoEvidence EXCEPT !.sourceOperation = "session.command"])
  ELSE executeSdkCall(result, "session.command", PromptPayload("session.command", result))

mapFailureCode(evidence) ==
  IF evidence.sourceOperation = "session.get" /\ evidence.sourceErrorCode = "session_not_found"
    THEN "session_not_found" ELSE "provider_unavailable"

\* What the end of a call does to the run.
RunEnd(answer) ==
  IF answer.success
    THEN [outcome |-> answer.data.kind,
          error |-> [code |-> "internal_error", message |-> answer.data.message]]
    ELSE [outcome |-> "failed",
          error |-> [code |-> mapFailureCode(answer.errorEvidence), message |-> answer.errorMessage]]

\* Whether the failure takes the binding of the conversation with it.
invalidateAfterFailure(answer) ==
  /\ ~answer.success
  /\ answer.errorEvidence.sourceErrorCode = "session_not_found"
  /\ answer.errorEvidence.sourceOperation \in {"session.get", "session.prompt"}

\* The run of a message that could not be planned.
buildImmediateFailedRun(error) ==
  [outcome |-> "failed", error |-> [code |-> "provider_unavailable", message |-> getErrorMessage(error)]]

------------------------------------------------------------------------------
(* What the host offers.                                                    *)

REQUIRED_SDK_CAPABILITIES ==
  {"session.create", "session.get", "session.list", "session.prompt", "session.abort",
   "session.delete", "config.providers", "_client.post"}
OptionalCapabilities == {"session.command", "command.list"}

getMissingSdkCapabilities(client) == REQUIRED_SDK_CAPABILITIES \ client

\* The calls of the adapted client: none when one that is required is missing.
createSdkAdapter(client) ==
  IF getMissingSdkCapabilities(client) # {} THEN {}
  ELSE (client \cap (REQUIRED_SDK_CAPABILITIES \cup OptionalCapabilities))
         \cup {"permission.reply", "question.reply"}

\* Where the parameters of a call go: the session into the path, the directory
\* into the query unless it is empty, what is given of the others into the body.
LegacyOptions(bodyFields, parameters) ==
  [path |-> parameters.sessionID,
   query |-> Truthy(parameters.directory),
   body |-> {f \in bodyFields : parameters[f] # "absent"}]
PromptFields == {"messageID", "model", "agent", "parts", "variant"}
CommandFields == {"messageID", "arguments", "agent", "model"}
buildLegacyPromptOptions(parameters) == LegacyOptions(PromptFields, parameters)
buildLegacyCommandOptions(parameters) == LegacyOptions(CommandFields, parameters)

\* The health of the host: its own call, or the raw one, which may fail.
adaptGlobalHealth(client, answer) ==
  CASE "global.health" \in client -> answer.healthy
    [] "_client.get" \notin client -> "absent"
    [] answer.error # "absent" \/ answer.healthy \notin {"true", "flag"} -> "thrown"
    [] OTHER -> answer.healthy

\* The sessions of a list that have an id.
listHostSessions(payload, sessions) ==
  IF payload # "list" THEN {} ELSE {s \in sessions : Said(s.id) # "absent"}

\* A model is named by its provider and its own name; either may be under
\* one of three fields.
NameOf(record) == FirstOf(<<Said(record.id), Said(record.otherID), Said(record.name)>>)
listHostModels(payload, provider, model) ==
  IF payload \notin {"list", "providers"} \/ "absent" \in {NameOf(provider), NameOf(model)}
    THEN Nothing
    ELSE [providerId |-> NameOf(provider), modelId |-> NameOf(model)]

\* The name of an entry of the catalog of commands: a text may be any text.
normalizeCommandList(entry) ==
  IF entry.kind = "text" THEN entry.name
  ELSE FirstOf(<<readString(entry.name), readString(entry.id)>>)
\* The catalog is empty when it cannot be had.
listCommandCatalog(client, result, entries) ==
  IF "command.list" \notin client \/ result.kind \in {"thrown", "error"} THEN {}
  ELSE {normalizeCommandList(e) : e \in entries} \ {"absent"}

------------------------------------------------------------------------------
(* Where an event of the host goes.                                         *)

RunScoped ==
  {"message.updated", "message.part.delta", "message.part.updated", "question.asked",
   "permission.asked", "permission.replied", "session.error"}
classifyEvent(type) ==
  CASE type \in RunScoped -> "run_scoped"
    [] type = "session.updated" -> "run_adjacent_metadata"
    [] type \in {"session.created", "session.deleted"} -> "control_metadata"
    [] OTHER -> "unsupported"

\* The field that names the session of an event, if one does.
DirectEvents == {"message.part.delta", "permission.asked", "permission.replied",
                 "question.asked", "session.error"}
rawSessionLocators ==
  [t \in DirectEvents |-> "sessionID"]
  @@ ("message.updated" :> "info.sessionID") @@ ("message.part.updated" :> "part.sessionID")
  @@ ("session.updated" :> "info.id")
locate(type, m) ==
  IF type \in DOMAIN rawSessionLocators THEN Said(m[rawSessionLocators[type]]) ELSE "absent"

\* The locator of the owned sessions knows the idle event as well.
DefaultEventSessionLocator ==
  [t \in DirectEvents \cup {"session.idle"} |-> "sessionID"]
  @@ ("message.updated" :> "info.sessionID") @@ ("message.part.updated" :> "part.sessionID")
  @@ ("session.updated" :> "info.id")

\* The sessions a fact belongs to: that of a subagent is shown in the parent's;
\* when the lookup failed the event is taken as one of its own session.
EventSessionIdentity(raw, lookup) ==
  IF lookup.status = "mapped"
    THEN [tracking |-> raw, host |-> lookup.parent, subagent |-> raw]
    ELSE [tracking |-> raw, host |-> raw, subagent |-> "absent"]

\* The translators that are registered.
TranslatedEvents == (RunScoped \ {"session.error"}) \cup {"session.updated"}

\* Whether the head run of the host session, if its prompt has started, gets
\* the event.
tryRouteToActiveRun(type, m, hasStartedRun) ==
  /\ classifyEvent(type) \in {"run_scoped", "run_adjacent_metadata"}
  /\ locate(type, m) # "absent"
  /\ hasStartedRun
  /\ type \in TranslatedEvents

------------------------------------------------------------------------------
(* The questions and permissions a run waits for: records by token, and an  *)
(* index from runs to tokens that is kept beside them.                      *)

EmptyRegistry == [records |-> Flat, index |-> Flat]
Waiting(index, run) == IF run \in DOMAIN index THEN index[run] ELSE {}
SetIndex(index, run, tokens) ==
  IF tokens = {} THEN [r \in DOMAIN index \ {run} |-> index[r]] ELSE (run :> tokens) @@ index

deleteRunIndex(index, record, token) ==
  SetIndex(index, record.run, Waiting(index, record.run) \ {token})
addRunIndex(index, record, token) ==
  SetIndex(index, record.run, Waiting(index, record.run) \cup {token})

\* A token that is registered again moves to its new run.
register(registry, token, record) ==
  LET cleared == IF token \in DOMAIN registry.records
                   THEN deleteRunIndex(registry.index, registry.records[token], token)
                   ELSE registry.index
  IN  [records |-> (token :> record) @@ registry.records,
       index |-> addRunIndex(cleared, record, token)]

\* A token is consumed only if it still is what the caller has looked at.
consumeIfMatch(registry, token, record) ==
  IF token \notin DOMAIN registry.records \/ registry.records[token] # record THEN registry
  ELSE [records |-> [t \in DOMAIN registry.records \ {token} |-> registry.records[t]],
        index |-> deleteRunIndex(registry.index, record, token)]

hasPendingForRun(registry, run) == Waiting(registry.index, run) # {}

\* A reply finds its token when the conversation is still bound to the session
\* of the run that asked; otherwise the token stays.
findInteraction(registry, token, bindings) ==
  /\ token \in DOMAIN registry.records
  /\ LET record == registry.records[token]
     IN  bindings[record.conversation] = record.session

=============================================================================
