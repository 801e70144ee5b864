------------------------------- MODULE Settings -------------------------------
(***************************************************************************)
(* What the two plugins are configured with: message-bridge from its       *)
(* defaults, two files and the environment; message-bridge-openclaw from   *)
(* its section of the host's file, which a setup writes.  A configuration  *)
(* is a function from the paths of a tree to what is found there: "absent",*)
(* "record" where there is a section, or the kind of a value.              *)
(***************************************************************************)
EXTENDS Integers, Sequences

\* The sections and fields of message-bridge, each with the section it is in.
Parent ==
  [gateway |-> "root", sdk |-> "root", auth |-> "root", events |-> "root",
   enabled |-> "root", bridgeDirectory |-> "root", config_version |-> "root",
   reconnect |-> "gateway", ping |-> "gateway", url |-> "gateway", channel |-> "gateway",
   heartbeatIntervalMs |-> "gateway", baseMs |-> "reconnect", maxMs |-> "reconnect",
   maxElapsedMs |-> "reconnect", jitter |-> "reconnect", intervalMs |-> "ping",
   timeoutMs |-> "sdk", ak |-> "auth", sk |-> "auth", allowlist |-> "events"]
Sections == {"gateway", "sdk", "auth", "events", "reconnect", "ping"}
Paths == {"root"} \cup DOMAIN Parent
Fields == Paths \ ({"root"} \cup Sections)

\* A file without anything in it, also one that is not there.
Silent == [p \in Paths |-> "absent"]

\* A value counts only inside of sections.
Formed(c, parent) == \A p \in DOMAIN parent : c[p] # "absent" => c[parent[p]] = "record"

\* Whether what the source says leaves the place of a path standing.
Standing(source, parent) ==
  LET standing[p \in DOMAIN source] ==
        IF p = "root" THEN TRUE
        ELSE source[parent[p]] \in {"absent", "record"} /\ standing[parent[p]]
  IN  standing

\* Records are merged; anything else, also null, replaces what was there.
Merged(target, source, parent) ==
  LET standing == Standing(source, parent)
  IN  [p \in DOMAIN target |->
         IF source[p] # "absent" THEN source[p]
         ELSE IF standing[p] THEN target[p] ELSE "absent"]
mergeConfig(target, source) == Merged(target, source, Parent)

DEFAULT_BRIDGE_CONFIG ==
  [p \in Paths |->
     CASE p \in {"root"} \cup Sections -> "record"
       [] p \in {"ak", "sk"} -> "blank"
       [] p = "bridgeDirectory" -> "absent"
       [] OTHER -> "good"]

------------------------------------------------------------------------------
(* The environment: each variable unset, empty, blank, good or wrong.       *)

EnvNames == Fields \cup {"eventHeartbeat"}
NoEnv == [name \in EnvNames |-> "unset"]
Given(v) == v \notin {"unset", "empty"}
Trimmed(v) == v \in {"good", "wrong"}

\* A channel takes the credentials from the environment whether they are there
\* or not.
resolveAuthCredentialPolicy(env) ==
  Trimmed(env.channel) \/ (Trimmed(env.ak) /\ Trimmed(env.sk))

envField(env, name) ==
  LET v == env[name]
      heartbeat == IF v # "unset" THEN v ELSE env.eventHeartbeat
  IN CASE name = "enabled" ->
            IF v = "unset" THEN "absent" ELSE IF v = "good" THEN "good" ELSE "off"
       [] name = "bridgeDirectory" -> IF Trimmed(v) THEN v ELSE "absent"
       [] name = "config_version" ->
            IF v = "unset" THEN "absent" ELSE IF v = "good" THEN "good" ELSE "wrong"
       [] name \in {"ak", "sk"} ->
            IF ~resolveAuthCredentialPolicy(env) THEN "absent"
            ELSE IF Given(v) THEN v ELSE "blank"
       [] name = "heartbeatIntervalMs" ->
            IF ~Given(heartbeat) THEN "absent" ELSE IF heartbeat = "blank" THEN "wrong" ELSE heartbeat
       [] name \in {"url", "channel"} -> IF Given(v) THEN v ELSE "absent"
       [] OTHER -> IF ~Given(v) THEN "absent" ELSE IF v = "blank" THEN "wrong" ELSE v

\* The variables as a source: a section is there when one of its fields is.
loadEnvConfig(env) ==
  LET fields == {name \in Fields : envField(env, name) # "absent"}
      given == fields \cup {Parent[name] : name \in fields}
      all == given \cup {Parent[p] : p \in given \cap Sections}
  IN  [p \in Paths |-> IF p \in fields THEN envField(env, p)
                       ELSE IF p \in all THEN "record" ELSE "absent"]

------------------------------------------------------------------------------
(* ConfigResolver and ConfigValidator.                                      *)

\* A directory holds message-bridge.jsonc and message-bridge.json, each a
\* configuration or Missing; what is found first is read, whatever it says.
Missing == <<>>
Candidates(directory) == <<directory.jsonc, directory.json>>
FirstExisting(files) ==
  LET found == SelectSeq(files, LAMBDA file : file # Missing)
  IN  IF found = <<>> THEN Silent ELSE Head(found)

\* The project's directories, innermost first.
findProjectConfig(directories) ==
  FirstExisting([i \in 1..(2 * Len(directories)) |->
                   Candidates(directories[(i + 1) \div 2])[2 - (i % 2)]])

\* What is left of something that is no object has no fields.
normalizeConfig(c) ==
  [p \in Paths |->
     CASE p = "root" -> "record"
       [] p = "bridgeDirectory" /\ c[p] = "blank" -> "absent"
       [] OTHER -> c[p]]

resolveConfig(user, project, env) ==
  LET files == mergeConfig(mergeConfig(DEFAULT_BRIDGE_CONFIG, FirstExisting(Candidates(user))),
                           findProjectConfig(project))
  IN  normalizeConfig(mergeConfig(files, loadEnvConfig(env)))

PositiveIntegers == {"heartbeatIntervalMs", "baseMs", "maxMs", "maxElapsedMs", "timeoutMs"}
Checked == PositiveIntegers \cup {"url", "jitter", "bridgeDirectory", "config_version", "allowlist"}
Keys == {"good", "filed"}

\* The paths that are complained about.
validate(c) ==
  (IF c.enabled = "off" \/ c.auth \notin {"absent", "record"} THEN {}
   ELSE {key \in {"ak", "sk"} : c[key] \notin Keys})
  \cup {p \in Checked : c[p] \notin {"absent", "good"}}
  \cup {p \in Sections : c[p] \notin {"absent", "record"}}
  \cup (IF c.enabled \in {"absent", "good", "off"} THEN {} ELSE {"enabled"})

\* loadConfig(): what the plugin runs with, or nothing.
Loads(c) == validate(c) = {}

------------------------------------------------------------------------------
(* The section of message-bridge-openclaw.                                  *)

AccountParent ==
  [gateway |-> "root", auth |-> "root", accounts |-> "root", name |-> "root",
   enabled |-> "root", url |-> "gateway", deprecated |-> "gateway", ak |-> "auth", sk |-> "auth"]
AccountPaths == {"root"} \cup DOMAIN AccountParent
NoSection == [p \in AccountPaths |-> "absent"]

DEFAULT_ACCOUNT_CONFIG ==
  [NoSection EXCEPT !["root"] = "record", !["gateway"] = "record", !["auth"] = "record",
                    !["url"] = "good", !["ak"] = "empty", !["sk"] = "empty", !["enabled"] = "good"]

hasLegacyAccountsConfig(section) == section.accounts = "record"

\* Only a gateway that is a record is kept.
stripLegacyAccounts(section) ==
  [p \in AccountPaths |->
     CASE p \in {"accounts", "deprecated"} -> "absent"
       [] p = "gateway" /\ section[p] # "record" -> "absent"
       [] OTHER -> section[p]]

resolveAccount(section) ==
  Merged(DEFAULT_ACCOUNT_CONFIG,
         IF section.root = "record" THEN stripLegacyAccounts(section) ELSE NoSection, AccountParent)

\* Whether a value is a text with something in it.
Says(v) == v \in {"good", "http"}

\* The section is asked before the account, which answers for the defaults.
MissingIn(section, account) ==
  {p \in {"url", "ak", "sk"} : ~Says(stripLegacyAccounts(section)[p]) /\ ~Says(account[p])}
getMissingRequiredConfigPaths(section) == MissingIn(section, resolveAccount(section))

isAccountConfigured(section) ==
  getMissingRequiredConfigPaths(section) = {} /\ ~hasLegacyAccountsConfig(section)

\* The credentials are trimmed as they are: the second only if the first is
\* blank.
TokenSourceThrows(account) ==
  LET Text(v) == v \in {"good", "blank", "empty"}
  IN  \/ account.auth = "null"
      \/ ~Text(account.ak)
      \/ account.ak # "good" /\ ~Text(account.sk)
describeAccountThrows(section) == TokenSourceThrows(resolveAccount(section))

\* What the host asks of the section before it takes it: the channel's schema.
SchemaErrors(section) ==
  {p \in {"gateway", "auth"} : section[p] # "record"}
  \cup (IF section.gateway = "record" /\ section.url \notin {"good", "http", "blank"} THEN {"url"} ELSE {})
  \cup {p \in {"ak", "sk"} : section.auth = "record" /\ section[p] \notin {"good", "blank"}}
  \cup {p \in {"accounts"} : section[p] # "absent"}
  \cup {p \in {"name"} : section[p] \notin {"absent", "good", "blank"}}
  \cup {p \in {"enabled"} : section[p] \notin {"absent", "good", "off"}}

------------------------------------------------------------------------------
(* A setup: each input unset, or a text.                                    *)

Inputs == {"name", "url", "ak", "sk"}
NoInput == [p \in Inputs |-> "unset"]

applyMessageBridgeSetupConfig(section, input) ==
  LET before == IF section.root = "record" THEN stripLegacyAccounts(section) ELSE NoSection
  IN  [p \in AccountPaths |->
         CASE p \in {"root", "gateway", "auth"} -> "record"
           [] p = "enabled" -> "good"
           [] p \in {name \in Inputs : Says(input[name])} -> input[p]
           [] OTHER -> before[p]]

validateMessageBridgeSetupInput(section, input) ==
  LET next == applyMessageBridgeSetupConfig(section, input)
  IN CASE hasLegacyAccountsConfig(section) -> "legacy"
       [] getMissingRequiredConfigPaths(next) # {} -> "missing"
       [] resolveAccount(next).url # "good" -> "url"
       [] OTHER -> "accepted"

\* The wizard asks for one input after the other and writes each answer.
validateCurrentField(p, answer) ==
  CASE p = "name" -> TRUE
    [] p = "url" -> answer = "good"
    [] OTHER -> Says(answer)
WizardOrder == <<"name", "url", "ak", "sk">>
Wizard(section, answers) ==
  LET step[i \in 0..4] ==
        IF i = 0 THEN section
        ELSE IF answers[WizardOrder[i]] = "unset" THEN step[i - 1]
        ELSE applyMessageBridgeSetupConfig(step[i - 1],
               [NoInput EXCEPT ![WizardOrder[i]] = answers[WizardOrder[i]]])
  IN  step[4]
WizardAccepts(section, answers) ==
  /\ ~hasLegacyAccountsConfig(section)
  /\ \A p \in Inputs : answers[p] # "unset" => validateCurrentField(p, answers[p])
  /\ validateMessageBridgeSetupInput(Wizard(section, answers), NoInput) = "accepted"

\* Onboarding asks for all of them, beginning with what the account has, until
\* the answers are accepted.
Onboarded(section, answers) ==
  IF validateMessageBridgeSetupInput(section, answers) = "accepted"
    THEN applyMessageBridgeSetupConfig(section, answers) ELSE Missing

buildSelectionHint(section) ==
  CASE hasLegacyAccountsConfig(section) -> "migration required"
    [] ~isAccountConfigured(section) -> "not configured"
    [] resolveAccount(section).enabled = "good" -> "configured"
    [] OTHER -> "configured, disabled"

\* Deleting the account removes the section.
deleteMessageBridgeAccount(section) == NoSection
==============================================================================
