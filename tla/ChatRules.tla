------------------------------ MODULE ChatRules ------------------------------
(***************************************************************************)
(* How message-bridge takes a message of a chat: the business entry it is  *)
(* from and what that entry may do, whether it is a command of the bridge, *)
(* a command of the host or just chat, what a command answers, and which   *)
(* commands a front end is offered.  A text is what is left of it between  *)
(* its blanks: a mention, a slash, a word and what follows.                *)
(***************************************************************************)
EXTENDS HostRules

------------------------------------------------------------------------------
(* The entry.                                                               *)

\* A domain and a type are compared in lower case.
Domains == {"im", "IM", "miniapp", "other", "blank", "absent"}
Types == {"group", "direct", "Direct", "blank", "absent"}
asNormalizedKeyPart(v) ==
  CASE v = "IM" -> "im" [] v = "Direct" -> "direct" [] v = "blank" -> "absent" [] OTHER -> v

\* The key that is given in full.
readBusinessEntryKey(ext) ==
  LET key == [domain |-> asNormalizedKeyPart(ext.domain), type |-> asNormalizedKeyPart(ext.type),
              id |-> Said(ext.id)]
  IN  IF "absent" \in {key.domain, key.type, key.id} THEN Nothing ELSE key

\* For a miniapp the rest is completed: a direct chat, with the account of the
\* assistant or else that of the sender.
completeChatEntryKey(ext, context) ==
  LET account == FirstOf(<<Said(context.assistantAccount), Said(context.sendUserAccount)>>)
  IN  IF \/ asNormalizedKeyPart(ext.domain) # "miniapp"
         \/ asNormalizedKeyPart(ext.type) \notin {"absent", "direct"}
         \/ account = "absent"
        THEN Nothing
        ELSE [domain |-> "miniapp", type |-> "direct", id |-> account]

EntryKey(ext, context) ==
  LET given == readBusinessEntryKey(ext)
  IN  IF IsSome(given) THEN given ELSE completeChatEntryKey(ext, context)

ALL_SLASH_COMMAND_KINDS == {"new", "sessions", "session", "models", "model"}
LIMITED_SLASH_COMMAND_KINDS == {"new", "models", "model"}

\* Only direct chats see the sessions of the host.
resolveTemplate(key) ==
  IF key.domain \in {"im", "miniapp"} /\ key.type = "direct"
    THEN [controlled |-> FALSE, allowed |-> ALL_SLASH_COMMAND_KINDS]
    ELSE [controlled |-> TRUE, allowed |-> LIMITED_SLASH_COMMAND_KINDS]

------------------------------------------------------------------------------
(* Commands of the bridge.                                                  *)

\* What follows a command: nothing, a word, a word with one slash inside it,
\* or more.
Rests == {"none", "word", "pair", "words"}

Fits(command, rest) ==
  CASE command \in {"new", "sessions", "models"} -> rest = "none"
    [] command = "session" -> rest \in {"word", "pair"}
    [] command = "model" -> rest = "pair"
tryParse(text) ==
  IF ~text.slash \/ text.mention \/ text.word \notin ALL_SLASH_COMMAND_KINDS
    THEN [kind |-> "none", command |-> "absent"]
    ELSE [kind |-> IF Fits(text.word, text.rest) THEN "matched" ELSE "invalid", command |-> text.word]

\* In a group of im the mention in front is taken off.
normalizeSlashCandidateText(text, key) ==
  IF key.domain = "im" /\ key.type = "group" THEN [text EXCEPT !.mention = FALSE] ELSE text

\* A command of the host: one word without another slash in it.
parseNativeSlash(text) == text.slash /\ ~text.mention /\ text.word \notin {"absent", "nested"}

Class(kind, command) == [kind |-> kind, command |-> command]
classifyBridgeLocalSlash(text, policy) ==
  LET parsed == tryParse(text)
  IN  CASE parsed.kind = "none" -> Class("none", "absent")
        [] parsed.command \notin policy.allowed -> Class("disabled", parsed.command)
        [] parsed.kind = "invalid" -> Class("invalid", parsed.command)
        [] OTHER -> Class("bridge_local", parsed.command)

classify(text, key, commands) ==
  LET candidate == normalizeSlashCandidateText(text, key)
      local == classifyBridgeLocalSlash(candidate, resolveTemplate(key))
  IN  CASE local.kind # "none" -> local
        [] parseNativeSlash(candidate) /\ candidate.word \in commands ->
             Class("opencode_native", candidate.word)
        [] OTHER -> Class("normal_chat", "absent")

\* What becomes of a message: an answer of the bridge at once, or a run.
plan(message, ext, context, commands) ==
  LET key == EntryKey(ext, context)
  IN  IF message.suppressReply THEN "synthetic"
      ELSE IF ~IsSome(key) THEN "invalid_input"
      ELSE LET class == classify(message.text, key, commands)
           IN  CASE class.kind = "opencode_native" -> "native_command"
                 [] class.kind = "normal_chat" -> "prompt"
                 [] OTHER -> "synthetic"

------------------------------------------------------------------------------
(* What a command of the bridge answers.                                    *)

FailureCodes ==
  {"session_not_found", "session_out_of_scope", "model_not_found", "invalid_command",
   "command_disabled_in_group_chat", "sdk_unreachable"}
ReasonOf ==
  [code \in FailureCodes |->
     CASE code = "session_not_found" -> "current_session_unavailable"
       [] code = "session_out_of_scope" -> "target_session_out_of_scope"
       [] code = "model_not_found" -> "target_model_unavailable"
       [] code = "invalid_command" -> "unsupported_command"
       [] code = "command_disabled_in_group_chat" -> "command_not_available_in_group_chat"
       [] OTHER -> "host_unavailable"]

\* The evidence goes before the code, and what is not known is the host's fault.
normalizeFailure(error) ==
  CASE error.sourceErrorCode = "session_not_found" -> "session_not_found"
    [] error.code \in FailureCodes -> error.code
    [] OTHER -> "sdk_unreachable"
presentFailureReason(failure) == ReasonOf[failure]

\* The model of a session is set only to one the host lists.
executeModel(models, wanted, overrides, session) ==
  IF wanted \in models THEN [answer |-> "model", overrides |-> (session :> wanted) @@ overrides]
  ELSE [answer |-> "model_not_found", overrides |-> overrides]

\* An answer of the bridge is a message of its own, from start to end.
buildSyntheticRun ==
  <<[type |-> "message.start"], [type |-> "text.delta"], [type |-> "text.done"], [type |-> "message.done"]>>

------------------------------------------------------------------------------
(* The commands a front end is offered.                                     *)

\* The request for the list has no accounts to complete a key with.
resolveLocalSlashCommands(ext) ==
  LET key == EntryKey(ext, [assistantAccount |-> "absent", sendUserAccount |-> "absent"])
  IN  IF IsSome(key) THEN resolveTemplate(key).allowed ELSE ALL_SLASH_COMMAND_KINDS

\* A command of the host is left out when a local one of its name is in the list.
listSlashCommands(ext, commands) == resolveLocalSlashCommands(ext) \cup commands

=============================================================================
