------------------------------ MODULE HostChecks ------------------------------
(***************************************************************************)
(* What the answers of the OpenCode host lead to, for TLC to evaluate over *)
(* errors of every kind, nested or not, over messages any field of which   *)
(* is missing or no number, over sequences of questions and answers, and   *)
(* over every entry, text and catalog of a few words of the chat.          *)
(***************************************************************************)
LOCAL INSTANCE ChatRules

LOCAL Evidences ==
  {NoEvidence} \cup [sourceErrorCode : {"session_not_found"}, httpStatus : {"absent", "text 404"},
                     sourceOperation : {"absent", "session.get"}]
LOCAL Layers ==
  [kind : {"Error", "object", "text"}, message : {"absent", "empty", "blank", "text", "number"},
   name : {"absent", "NotFoundError"}, code : {"absent", "session_not_found", "text"},
   status : {"absent", "404"}]
\* A text says something or not; the fields of an Error are texts.
LOCAL IsLayer(layer) ==
  CASE layer.kind = "text" ->
         /\ layer.message \in Texts /\ <<layer.name, layer.code, layer.status>> = <<"absent", "absent", "absent">>
    [] layer.kind = "Error" -> layer.message \in Texts
    [] OTHER -> TRUE
LOCAL RealLayers == {layer \in Layers : IsLayer(layer)}
LOCAL Inner == {layer \in RealLayers : layer.code # "text" /\ layer.message \in {"absent", "blank", "text"}}
LOCAL Errors ==
  [layers : {<<layer>> : layer \in RealLayers}
              \cup {<<outer, inner>> : outer \in {l \in RealLayers : l.kind # "text"}, inner \in Inner},
   attached : Evidences]

LOCAL FullMessage ==
  [f \in TokenFields \cup {"id", "cost", "error_name", "error_statusCode"} |->
     IF f \in TokenFields \cup {"cost"} THEN "number" ELSE IF f = "id" THEN "text" ELSE "absent"]
LOCAL FieldValues(f) ==
  CASE f \in TokenFields \cup {"cost"} -> {"number", "nan", "absent", "text"}
    [] f = "error_name" -> Names
    [] f = "error_statusCode" -> {"absent", "number"}
    [] OTHER -> {"text", "padded", "blank", "absent", "number"}
LOCAL Messages ==
  UNION {UNION {{[FullMessage EXCEPT ![f] = v, ![g] = w] :
                   v \in FieldValues(f), w \in FieldValues(g)} : g \in {"id", "error_name"}} :
         f \in DOMAIN FullMessage}
LOCAL OneError == [layers |-> <<[kind |-> "Error", message |-> "text", name |-> "text",
                                 code |-> "absent", status |-> "absent"]>>, attached |-> NoEvidence]
LOCAL Failures == {[kind |-> k, error |-> e, data |-> FullMessage] : k \in {"thrown", "error"}, e \in Errors}
LOCAL Results == {[kind |-> k, error |-> OneError, data |-> m] : k \in {"data", "bare"}, m \in Messages}

LOCAL Ends ==
  {RunEnd(PromptPayload("session.prompt", r)) : r \in Results}
  \cup {RunEnd(promptSession(l, r)) : l \in Failures, r \in {CHOOSE x \in Results : TRUE}}
  \cup {RunEnd(commandSession(a, r)) : a \in BOOLEAN, r \in Failures \cup Results}

\* However a prompt or a command of the host ends, the front end is shown its
\* end: no failure has a blank message (OpencodeSessionGatewayAdapter,
\* handlePromptFailure, handleCommandFailure).
ASSUME PromptEndsAreShown ==
  \A end \in Ends : Accepted(TerminalType(end.outcome), TerminalSignal(end.outcome, "text", end.error))

\* A message that could not be planned has an end the front end is shown, but
\* for one the host refused with a blank text: a run without an end.
ASSUME UnplannedRunsMayHaveNoEnd ==
  \A error \in Errors :
    LET end == buildImmediateFailedRun(error)
    IN  Accepted("tool_error", TerminalSignal("failed", "text", end.error))
          <=> getErrorMessage(error) \in Filled

\* A prompt counts as complete only when the host has given its message, all of
\* its numbers, and no error that has a name: an error without one is not told.
ASSUME CompletedMeansNoError ==
  \A result \in Results :
    LET answer == PromptPayload("session.prompt", result)
        m == result.data
    IN  answer.success /\ answer.data.kind = "completed" <=>
          /\ readString(m.id) # "absent" /\ m.cost = "number"
          /\ \A f \in TokenFields : m[f] = "number"
          /\ m.error_name \in {"absent", "blank"}

\* A session that is gone before its prompt is forgotten, and the front end is
\* told that it is gone, so that it opens another.
ASSUME GoneSessionsAreForgotten ==
  \A result \in Failures :
    LET answer == promptSession(result, result)
    IN  isNotFoundError(result.error) =>
          /\ invalidateAfterFailure(answer)
          /\ RunEnd(answer).error.code = "session_not_found"

\* A command of the host never makes its conversation forget a session, not
\* even when the host says that it is gone.
ASSUME CommandsForgetNothing ==
  \A result \in Failures, available \in BOOLEAN :
    ~invalidateAfterFailure(commandSession(available, result))

\* The two readers of session.get disagree on what it means that a session is
\* gone: the lookup before a prompt goes by the name of the error, the control
\* plane by its code, which the errors of the host do not have.
ASSUME GoneIsSeenByTheLookupOnly ==
  \A result \in Failures :
    LET byCode == shouldInvalidateBinding(getHostSessionInfo(result).errorEvidence)
    IN  /\ byCode <=> getToolErrorEvidence(result.error, "session.get").sourceErrorCode
                        = "session_not_found"
        /\ isNotFoundError(result.error) /\ ErrorCode(result.error) = "absent"
             /\ result.error.attached = NoEvidence => resolve(result).reason = "not_found" /\ ~byCode

\* A session the host created without an id is refused by the old control plane
\* and taken by the owned sessions: the check against it is never reached.
ASSUME NamelessSessionsAreTaken ==
  \A id \in {"text", "padded", "blank", "absent", "number"} :
    LET result == [kind |-> "data", error |-> OneError, data |-> [id |-> id]]
    IN  /\ CreatedSession(result).id = id
        /\ BootstrapSession(result).id = "refused" <=> readString(id) = "absent"

\* Without one of the calls that are required there is no client at all; with
\* them, a reply can be given.
ASSUME RepliesCanBeGiven ==
  \A missing \in SUBSET {"session.get", "session.command", "command.list", "_client.post"} :
    LET client == (REQUIRED_SDK_CAPABILITIES \cup OptionalCapabilities) \ missing
    IN  "question.reply" \in createSdkAdapter(client)
          <=> missing \cap REQUIRED_SDK_CAPABILITIES = {}

\* A call of the host carries just what it was given, but for an empty directory.
ASSUME NothingGivenIsLost ==
  \A given \in SUBSET PromptFields, directory \in {"text", "empty", "absent"} :
    LET parameters == [f \in PromptFields \cup {"sessionID", "directory", "arguments"} |->
                         CASE f \in given \cup {"sessionID"} -> "empty"
                           [] f = "directory" -> directory [] OTHER -> "absent"]
        options == buildLegacyPromptOptions(parameters)
    IN  /\ options.body = given /\ options.path = "empty"
        /\ options.query = Truthy(directory)
        /\ buildLegacyCommandOptions(parameters).body = given \cap CommandFields

\* Health is known of every host that can be asked, one way or the other.
ASSUME HealthIsKnown ==
  \A client \in SUBSET {"global.health", "_client.get"} :
    \A healthy \in {"true", "absent", "text"}, error \in {"absent", "text"} :
      LET health == adaptGlobalHealth(client, [healthy |-> healthy, error |-> error])
      IN  health = "thrown" => "global.health" \notin client

\* What is listed can be chosen: a session has an id, a model two names.
ASSUME WhatIsListedCanBeChosen ==
  LET Records == [id : {"text", "blank", "absent"}, otherID : {"padded", "absent"}, name : {"text", "number"}]
  IN  /\ \A payload \in {"list", "object"} :
           \A s \in listHostSessions(payload, Records) : Said(s.id) = "text"
      /\ \A payload \in {"list", "providers", "object"}, provider, model \in Records :
           LET listed == listHostModels(payload, provider, model)
           IN  IsSome(listed) => listed.providerId \in Filled /\ listed.modelId \in Filled

\* A command in an object is offered by its name or its id; a text is offered
\* as it is, so that a blank one is a command nobody can give.
ASSUME BlankTextsAreOffered ==
  LET entries == [kind : {"text", "object"}, name : {"text", "blank"}, id : {"padded", "absent"}]
      listed(kind) == listCommandCatalog({"command.list"}, [kind |-> "data"],
                                         {e \in entries : e.kind = kind})
  IN  listed("object") = {"text", "padded"} /\ listed("text") = {"text", "blank"}

\* Every event that is routed to a run has a translator and a session, the two
\* locators name the same session, and the errors of a session have none to
\* translate them: they reach no run.
ASSUME RoutedEventsAreTranslated ==
  /\ \A type \in DOMAIN rawSessionLocators :
       /\ DefaultEventSessionLocator[type] = rawSessionLocators[type]
       /\ \A v \in {"text", "padded", "blank", "absent", "number"} :
            LET m == rawSessionLocators[type] :> v
            IN  tryRouteToActiveRun(type, m, TRUE)
                  <=> v \in {"text", "padded"} /\ type # "session.error"
  /\ TranslatedEvents \subseteq DOMAIN rawSessionLocators

\* The facts of a subagent are tracked apart and shown in its parent's session;
\* only then do they name it.
ASSUME SubagentsAreShownInTheirParent ==
  \A lookup \in [status : {"mapped", "none", "lookup_failed"}, parent : {"p"}] :
    LET identity == EventSessionIdentity("c", lookup)
    IN  /\ identity.tracking = "c"
        /\ identity.subagent # "absent" <=> identity.host # identity.tracking

\* The index of the registry agrees with its records after any four calls, so
\* that a run is known to wait just while it has a token: an answer to a token
\* that has meanwhile been asked by another run leaves that run waiting.
LOCAL Runs == {"a", "b"}
LOCAL Record(run) == [run |-> run, session |-> "s", conversation |-> "c"]
LOCAL Calls == [op : {"register", "consume"}, token : {1, 2}, run : Runs]
LOCAL After(calls) ==
  LET registry[i \in 0..Len(calls)] ==
        IF i = 0 THEN EmptyRegistry
        ELSE IF calls[i].op = "register"
               THEN register(registry[i - 1], calls[i].token, Record(calls[i].run))
               ELSE consumeIfMatch(registry[i - 1], calls[i].token, Record(calls[i].run))
  IN  registry[Len(calls)]
ASSUME IndexAgrees ==
  \A calls \in [1..4 -> Calls] : \A run \in Runs :
    LET registry == After(calls)
    IN  Waiting(registry.index, run)
          = {t \in DOMAIN registry.records : registry.records[t].run = run}

\* Once a conversation is bound to another session no reply finds the token, and
\* the run goes on waiting for it.
ASSUME MovedConversationsKeepTheirTokens ==
  \A session \in {"s", "other"} :
    LET registry == register(EmptyRegistry, 1, Record("a"))
    IN  /\ findInteraction(registry, 1, [c |-> session]) <=> session = "s"
        /\ hasPendingForRun(registry, "a")

-----------------------------------------------------------------------------
LOCAL Words5 == ALL_SLASH_COMMAND_KINDS \cup {"review", "nested", "absent"}
LOCAL TextsOfChat == [mention : BOOLEAN, slash : BOOLEAN, word : Words5, rest : Rests]
LOCAL Exts == [domain : Domains, type : Types, id : {"text", "padded", "blank", "absent"}]
LOCAL Contexts == [assistantAccount : {"text", "blank", "absent"}, sendUserAccount : {"padded", "absent"}]
LOCAL Keys == {EntryKey(ext, context) : ext \in Exts, context \in Contexts} \ {Nothing}
LOCAL Catalogs == SUBSET {"review", "sessions", "model", "nested"}

\* A group is never shown the sessions of the host and never switches to one,
\* however its domain, its type and its command are written, and whatever
\* command of that name the host may have (BusinessEntryPolicyResolver).
ASSUME GroupsSeeNoSessions ==
  \A ext \in Exts, context \in Contexts, text \in TextsOfChat, commands \in Catalogs :
    LET key == EntryKey(ext, context)
        class == classify(text, key, commands)
    IN  IsSome(key) /\ class.command \in {"sessions", "session"} =>
          /\ class.kind # "opencode_native"
          /\ class.kind \in {"bridge_local", "invalid"} => ext.type \in {"direct", "Direct", "absent", "blank"}

\* A message is never lost between the bridge and the host: what looks like a
\* command and is none of either goes to the model as it is, and what is
\* prompted never is a command the bridge knows.
ASSUME EveryMessageGoesSomewhere ==
  \A key \in Keys, text \in TextsOfChat, commands \in Catalogs :
    LET class == classify(text, key, commands)
        bare == normalizeSlashCandidateText(text, key)
    IN  class.kind = "normal_chat" =>
          \/ bare.mention \/ ~bare.slash
          \/ bare.word \notin ALL_SLASH_COMMAND_KINDS \cup (commands \ {"nested"})

\* The mention of the bot hides a command only outside a group of im.
ASSUME MentionsAreTakenOff ==
  \A key \in Keys, text \in TextsOfChat, commands \in Catalogs :
    classify([text EXCEPT !.mention = TRUE], key, commands)
      = IF key.domain = "im" /\ key.type = "group"
          THEN classify([text EXCEPT !.mention = FALSE], key, commands)
          ELSE Class("normal_chat", "absent")

\* Once a chat has an entry, what it is offered of the bridge is what it may do,
\* though the list is made without the accounts that complete the key.
ASSUME OfferedIsAllowed ==
  \A ext \in Exts, context \in Contexts :
    LET key == EntryKey(ext, context)
    IN  IsSome(key) => resolveLocalSlashCommands(ext) = resolveTemplate(key).allowed

\* Not every command that is offered runs: a command of the host that is named
\* as one the entry may not use is offered and refused, and one with a slash in
\* its name is offered and sent to the model as chat.
ASSUME OfferedButNotRun ==
  \A ext \in Exts, context \in Contexts, commands \in Catalogs :
    LET key == EntryKey(ext, context)
        runs(word) ==
          classify([mention |-> FALSE, slash |-> TRUE, word |-> word, rest |-> "none"], key, commands).kind
            \in {"bridge_local", "invalid", "opencode_native"}
    IN  IsSome(key) =>
          {w \in listSlashCommands(ext, commands) : ~runs(w)}
            = commands \cap ({"nested"} \cup (ALL_SLASH_COMMAND_KINDS \ resolveTemplate(key).allowed))

\* A chat whose entry is not given and cannot be completed is refused before a
\* session is opened for it; a reply to be suppressed is answered even so.
ASSUME NoEntryNoRun ==
  \A ext \in Exts, context \in Contexts, text \in TextsOfChat, suppressed \in BOOLEAN :
    LET message == [text |-> text, suppressReply |-> suppressed]
    IN  plan(message, ext, context, {"review"}) \in {"prompt", "native_command"} =>
          ~suppressed /\ EntryKey(ext, context).id \in Filled

\* Two chats of one entry are one entry however they write it; a miniapp that
\* names no chat is keyed by an account, so that it meets the one that names a
\* direct chat of that very id.
ASSUME EntriesAreWrittenManyWays ==
  \A ext, other \in Exts :
    LET key(e) == readBusinessEntryKey(e)
    IN  IsSome(key(ext)) /\ IsSome(key(other)) =>
          (key(ext) = key(other) <=>
             /\ asNormalizedKeyPart(ext.domain) = asNormalizedKeyPart(other.domain)
             /\ asNormalizedKeyPart(ext.type) = asNormalizedKeyPart(other.type)
             /\ Said(ext.id) = Said(other.id))

\* Every failure of a command is given a reason, its own whenever it is known.
ASSUME FailuresAreExplained ==
  \A source \in {"session_not_found", "other", "absent"}, code \in FailureCodes \cup {"other", "absent"} :
    LET reason == presentFailureReason(normalizeFailure([sourceErrorCode |-> source, code |-> code]))
    IN  reason = "host_unavailable" <=>
          source # "session_not_found" /\ code \notin FailureCodes \ {"sdk_unreachable"}

\* A session never gets a model its host does not list, and one that is refused
\* keeps the model it has.
ASSUME ModelsAreListed ==
  \A models \in SUBSET {"a", "b"}, wanted \in {"a", "b"} : \A now \in models :
    LET after == executeModel(models, wanted, "s" :> now, "s")
    IN  after.overrides["s"] \in models

\* The answer of the bridge is a message the sequence of facts allows: it opens
\* before it speaks and is closed at the end.
ASSUME AnswersAreWellFormed ==
  \A i \in 1..Len(buildSyntheticRun) :
    LET type == buildSyntheticRun[i].type
    IN  type \in RequiresOpenMessage <=> i \notin {1, Len(buildSyntheticRun)}
=============================================================================
