------------------------------ MODULE FactChecks ------------------------------
(***************************************************************************)
(* What the schemas promise of every message near a complete one and near  *)
(* a bare one, and what happens to events and facts on their way to the    *)
(* gateway, for TLC to evaluate: messages, events and facts in which any   *)
(* field has any value and any two are missing, blank or fall back.        *)
(***************************************************************************)
LOCAL INSTANCE Facts

LOCAL INSTANCE TLC

\* A value the reader takes, a container or a text before others.
LOCAL Sample(reader) ==
  LET first == reader.takes \cap {"object", "list"}
      then == reader.takes \cap {"text"}
  IN  IF first # {} /\ then = {} THEN CHOOSE v \in first : TRUE
      ELSE IF then # {} THEN "text"
      ELSE IF reader.takes # {} THEN CHOOSE v \in reader.takes : TRUE ELSE "absent"

\* The fields of an object that is not there are not there either.
LOCAL Cut(S, m) ==
  LET cut(n) == [f \in DOMAIN n |-> IF IsOpen(S, n, f) THEN n[f] ELSE "absent"]
  IN  cut(cut(cut(m)))

LOCAL Full(S) == [f \in DOMAIN S.fields |-> Sample(S.fields[f])]
LOCAL Bare(S) ==
  [f \in DOMAIN S.fields |->
     IF Read(S.fields[f], "absent") = "rejected" THEN Sample(S.fields[f]) ELSE "absent"]

LOCAL Raw(kind) == IF kind \in DOMAIN Projections THEN Projections[kind] ELSE Schemas[kind]

\* P of the messages one field away from a base, and of the complete ones a
\* second field is missing from, or blank in.
LOCAL NearBy(kind, P(_)) ==
  LET S == Raw(kind)
      full == Full(S)
      bare == Bare(S)
  IN  \A f \in DOMAIN S.fields :
        /\ \A v \in Values : /\ P(Cut(S, [full EXCEPT ![f] = v]))
                             /\ P(Cut(S, [bare EXCEPT ![f] = v]))
        /\ \A g \in DOMAIN S.fields \ {f} : \A v \in {"absent", "blank"} :
             P(Cut(S, [full EXCEPT ![f] = "null", ![g] = v]))

\* A message that was normalized is accepted as it is: a business message is
\* parsed twice before it is sent, and an event once more inside its envelope
\* (gateway-schema-facade.ts, transport-message-validator.ts).
ASSUME NormalizingTwiceChangesNothing ==
  \A kind \in DOMAIN Schemas :
    LET Stable(m) == Accepted(kind, m) =>
          LET n == Normalized(kind, m) IN Accepted(kind, n) /\ Normalized(kind, n) = n
    IN  NearBy(kind, Stable)

\* What the white list lets through the schema admits, and leaves alone, but
\* for a number in a JSON value that is not finite (tool-event-validator.ts).
ASSUME ProjectionFitsTheSchema ==
  \A kind \in DOMAIN Projections :
    LET Fits(m) == ProjectionAccepts(kind, m) /\ (\A f \in DOMAIN m : m[f] # "nan") =>
                     SchemaAccepts(kind, Projected(kind, m))
    IN  NearBy(kind, Fits)

\* ReadingIsIdempotent and ParsingIsIdempotent are about the schemas of the code.
ASSUME SchemasAreWellFormed ==
  /\ \A kind \in DOMAIN Schemas : IsSchema(Schemas[kind])
  /\ \A kind \in DOMAIN Projections : IsSchema(Projections[kind])

\* Every kind accepts its complete form, so the claims above are about messages
\* that are accepted.
ASSUME EveryKindIsAccepted ==
  \A kind \in DOMAIN Schemas : Accepted(kind, Full(Raw(kind)))

-----------------------------------------------------------------------------
LOCAL Blanks == {"absent", "blank", "empty"}

\* P of every message within two fields of a base, the second one missing or
\* blank; the values of a field are those of its set.
LOCAL WithinTwo(base, sets, P(_)) ==
  \A f \in DOMAIN base : \A v \in sets[f] :
    /\ P([base EXCEPT ![f] = v])
    /\ \A g \in DOMAIN base \ {f} : \A w \in Blanks \cap sets[g] :
         P([base EXCEPT ![f] = v, ![g] = w])

LOCAL FullEvent(type) ==
  [f \in EventFields[type] |->
     CASE f = "role" -> "assistant" [] f = "reply" -> "once" [] f = "status" -> "running"
       [] f \in {"questions", "item_options"} -> "list" [] f \in {"tokens", "input", "metadata"} -> "object"
       [] f \in {"cost", "created", "completed", "end"} -> "number" [] OTHER -> "padded"]
LOCAL Events(type, P(_)) ==
  WithinTwo(FullEvent(type), [f \in EventFields[type] |-> Values], P)

\* Every event of OpenCode that becomes a fact reaches the gateway, but for a
\* cost that is no number and but for questions: the translators drop what the
\* schemas would refuse (OpenCodeProviderAdapter.translation.ts).
ASSUME EventsReachTheGateway ==
  \A type \in DOMAIN EventFields \ {"question.ask", "permission.reply"} :
    LET Arrives(m) == LET fact == Translated(type, m)
                      IN  IsSome(fact) =>
                            \/ Reaches(type, fact)
                            \/ type = "message.done" /\ m.cost = "nan"
    IN  Events(type, Arrives)

\* A question is lost as a whole, after its id was registered as pending, just
\* when its text or the label of an option says nothing, or when no entry is an
\* object: the translator only checks that there are entries.
ASSUME QuestionsAreLostForBlanks ==
  LET ItemIsClear(fact) ==
        /\ fact.questions = "list" /\ Trim(fact.item_question) \in Filled
        /\ fact.item_options = "list" => Trim(fact.option_label) \in Filled
      Lost(m) == LET fact == Translated("question.ask", m)
                 IN  IsSome(fact) => (Reaches("question.ask", fact) <=> ItemIsClear(fact))
  IN  Events("question.ask", Lost)

\* The target of a reply the gateway shows is the one the runtime registered:
\* the schema trims ids, the registry of pending interactions does not
\* (interaction-coordinator, PendingInteractionRegistry).
ASSUME RepliesFindTheirTarget ==
  \A type \in {"question.ask", "permission.ask"} :
    LET Id(f) == IF type = "question.ask" THEN f.questionId ELSE f.permissionId
        Kept(fact) == IsSome(fact) /\ Reaches(type, fact) => Id(Shown(type, fact)) = Id(fact)
        KeptOpenCode(m) == Kept(Translated(type, m))
        KeptOpenClaw(m) == Kept(handleApprovalRequested(m))
    IN  /\ Events(type, KeptOpenCode)
        /\ type = "permission.ask" =>
             WithinTwo([f \in ApprovalFields |-> "padded"], [f \in ApprovalFields |-> Values],
                    KeptOpenClaw)

\* The question a reply is for is named in both of the fields a front end reads.
ASSUME QuestionIsNamedTwice ==
  LET Named(m) == LET fact == Translated("question.ask", m)
                  IN  IsSome(fact) /\ Reaches("question.ask", fact) =>
                        LET shown == Shown("question.ask", fact)
                        IN  shown.toolCallId = shown.questionId
  IN  Events("question.ask", Named)

\* The answer to a permission reaches the gateway whenever the request did.
ASSUME AnswerFollowsRequest ==
  LET Follows(m) ==
        LET ask == Translated("permission.ask", m)
            reply == Translated("permission.reply",
                       [sessionID |-> "text", requestID |-> m.id, reply |-> "always"])
        IN  IsSome(ask) /\ Reaches("permission.ask", ask) =>
              Reaches("permission.reply", enrichPermissionReply(reply, ask))
  IN  Events("permission.ask", Follows)

\* A fact that keeps to the contract reaches the gateway, as long as its names
\* say something, its numbers are finite and its questions have entries.
LOCAL Free == {"content", "output", "error_text", "option_description", "input", "metadata",
               "tokens", "extParam"}
LOCAL Sets(type) ==
  [f \in DOMAIN Contract[type] |->
     Contract[type][f] \ (IF f \in Free \cup (IF type \in {"tool.update", "permission.ask"}
                                               THEN {"title", "error"} ELSE {})
                            THEN {} ELSE {"blank", "empty", "nan", "bad list", "empty list"})]
LOCAL Base(type) == [f \in DOMAIN Contract[type] |-> CHOOSE v \in Sets(type)[f] : v # "absent"]
ASSUME ContractFactsReachTheGateway ==
  \A type \in DOMAIN Contract \ {"permission.reply"} :
    LET Arrives(f) == Reaches(type, f)
    IN  WithinTwo(Base(type), Sets(type), Arrives)

\* A tool update the validator of the runtime lets through is one the schema
\* accepts: the input and the output are the two fields both of them judge
\* (fact-sequence-validator.ts).
ASSUME ValidatorAgreesWithTheSchema ==
  LET Agrees(f) == PassesValidator(f) => Reaches("tool.update", f)
  IN  WithinTwo(Base("tool.update"),
             [Sets("tool.update") EXCEPT !.input = Values, !.output = Values], Agrees)

\* OpenClaw makes a text of what a tool was given, which neither the validator
\* nor the schema takes; without an input its updates pass (session/facts.ts).
ASSUME OpenClawToolsReachTheGateway ==
  LET fact == [Base("tool.update") EXCEPT !.input = "absent"]
      Arrives(f) == LET built == buildToolUpdateFact(f)
                    IN  (PassesValidator(built) /\ Reaches("tool.update", built))
                          <=> f.input = "absent"
  IN  WithinTwo(fact, [Sets("tool.update") EXCEPT !.output = Values, !.error = Values], Arrives)

\* A fact that goes into an open message names the message, in whatever form
\* the event came (fact-semantics.ts).
ASSUME ContentNamesItsMessage ==
  \A type \in RequiresOpenMessage \cap DOMAIN EventFields :
    LET Names(m) == LET fact == Translated(type, m)
                    IN  IsSome(fact) => fact.messageId = Trim(m.messageID) /\ fact.messageId \in Filled
    IN  Events(type, Names)

\* The end of a run is always reported, but for a failure that says nothing: an
\* empty message is not replaced (DefaultRunTerminalSignalProjector.ts).
ASSUME EndsAreReported ==
  \A outcome \in {"completed", "aborted", "failed"} : \A message \in Maybe(Texts) :
    \A code \in {"session_not_found", "internal_error"} :
      Accepted(TerminalType(outcome),
               TerminalSignal(outcome, "text", [message |-> message, code |-> code]))
        <=> (outcome = "failed" => Trim(message) \in Filled \cup {"absent"})

\* A command that failed is answered or stays quiet, and what is answered
\* reaches the gateway unless the provider's error is blank.
ASSUME CommandFailuresAreAnswered ==
  \A session, chat \in {"absent", "text"} : \A message \in Maybe(Texts) :
    \A code \in CataloguedFailures \cup QuietFailures \cup {"internal_error"} :
      LET answer == CommandFailure([toolSessionId |-> session, welinkSessionId |-> chat],
                                   [message |-> message, code |-> code])
      IN  IsSome(answer) =>
            Accepted("tool_error", answer) \/ (code = "internal_error" /\ Trim(message) = "empty")

\* One command without a name takes the whole list of slash commands with it.
ASSUME CommandsAreListed ==
  \A name \in Texts : \A description \in Texts :
    Accepted("slash_commands_result",
      SlashCommands("text", "text", [slashCommands |-> "list", command |-> name,
                                     description |-> description]))
      <=> Trim(name) \in Filled

\* A session that was created is always reported, though without an id when
\* the provider gave a blank one: the front end then knows of no session to use.
ASSUME SessionsAreReported ==
  \A id \in Texts :
    LET answer == SessionCreated("text", id)
        shown == Normalized("session_created", answer)
    IN  /\ Accepted("session_created", answer)
        /\ shown.toolSessionId = shown.sessionId
        /\ shown.toolSessionId = "absent" <=> Trim(id) = "empty"
=============================================================================
