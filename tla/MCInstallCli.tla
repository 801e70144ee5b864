---------------------------- MODULE MCInstallCli ----------------------------
(* Two commands, the second of which meets what the first left behind. *)
EXTENDS InstallCli, TLC
CONSTANTS r1, v1, v2, q1, q2

\* The codes have the same part, and no definition chooses one.
AlikeCodes == Permutations({q1, q2})

-----------------------------------------------------------------------------
(***************************************************************************)
(* What a plugin ends up with, for TLC to evaluate over sources that give  *)
(* a few of the fields in every way they can be given.                     *)
(***************************************************************************)
LOCAL INSTANCE Settings

\* Configurations that give some of the fields, and their sections as a
\* section or as something else.
FilesOf(fields, values, others) ==
  LET sections == {Parent[p] : p \in fields} \ {"root"}
      above == {Parent[p] : p \in sections} \ {"root"}
      Trees == [fields -> values] \X [sections \cup above -> {"absent", "record"} \cup others]
      Build(t) == [p \in Paths |-> CASE p = "root" -> "record"
                                     [] p \in fields -> t[1][p]
                                     [] p \in sections \cup above -> t[2][p]
                                     [] OTHER -> "absent"]
  IN  {c \in {Build(t) : t \in Trees} : Formed(c, Parent)}

Roots == {Silent, [Silent EXCEPT !["root"] = "wrong"]}
AsUser(c) == [jsonc |-> Missing, json |-> c]
AsProject(c) == <<[jsonc |-> Missing, json |-> Missing], [jsonc |-> c, json |-> Missing]>>
Resolve(user, project, env) == resolveConfig(AsUser(user), AsProject(project), env)
EnvOf(names, values) ==
  {[name \in EnvNames |-> IF name \in names THEN e[name] ELSE "unset"] : e \in [names -> values]}
EnvValues == {"unset", "empty", "blank", "good", "wrong"}
KeyEnvs == EnvOf({"channel", "ak", "sk"}, EnvValues)
KeyFiles == FilesOf({"ak", "sk"}, {"absent", "filed", "blank"}, {"null"})
GatewayFiles == FilesOf({"url", "baseMs"}, {"absent", "good", "wrong"}, {"null", "wrong"})

\* As long as every source writes its sections as sections, a field is what
\* the last source says that mentions it: merging level by level never loses
\* or revives anything (ConfigResolver.mergeConfig).
ASSUME TheLastOneSaysIt ==
  \A user, project \in FilesOf({"url", "baseMs", "enabled"}, {"absent", "good", "wrong"}, {}),
     env \in EnvOf({"url", "baseMs"}, {"unset", "empty", "wrong"}) :
    LET c == Resolve(user, project, env)
        said(p) == SelectSeq(<<DEFAULT_BRIDGE_CONFIG[p], user[p], project[p], loadEnvConfig(env)[p]>>,
                             LAMBDA v : v # "absent")
    IN  \A p \in {"url", "baseMs", "enabled", "timeoutMs"} : c[p] = said(p)[Len(said(p))]

\* A configuration the plugin runs with has an address and a positive delay,
\* unless a source replaced a whole section: null in the file of the user and
\* a record in that of the project pass the validation without them.
ASSUME NothingIsMissing ==
  \A user, project \in GatewayFiles \cup Roots :
    LET c == Resolve(user, project, NoEnv)
    IN  (validate(c) \ {"ak", "sk"} = {}) /\ "absent" \in {c.url, c.baseMs} =>
          \E source \in {user, project} :
            \E p \in {"root", "gateway", "reconnect"} : source[p] \notin {"absent", "record"}
ASSUME SomethingCanBeMissing ==
  \E user, project \in GatewayFiles :
    LET c == Resolve(user, project, NoEnv)
    IN  (validate(c) \ {"ak", "sk"} = {}) /\ c.url = "absent"

\* A key of the environment is never combined with one of a file: it comes
\* with the other key or with none (resolveAuthCredentialPolicy).
ASSUME KeysAreNotMixed ==
  \A user, project \in KeyFiles, env \in KeyEnvs :
    LET c == Resolve(user, project, env)
    IN  Loads(c) => {c.ak, c.sk} # {"good", "filed"}

\* A channel in the environment takes the keys of the files away: without keys
\* beside it in the environment the plugin refuses to start, whatever the files
\* say, unless it is switched off.
ASSUME ChannelNeedsKeys ==
  \A user, project \in KeyFiles, env \in KeyEnvs :
    /\ Trimmed(env.channel) /\ ~(Given(env.ak) /\ Given(env.sk))
    => /\ ~Loads(Resolve(user, project, env))
       /\ Loads(Resolve(user, project, [env EXCEPT !["enabled"] = "wrong"]))

\* A number a variable holds is never used when it is none, nor replaced by
\* what the files say: the plugin refuses to start.  Only the interval of the
\* pings is taken as it comes.
ASSUME BadNumbersAreRefused ==
  \A p \in PositiveIntegers \cup {"intervalMs", "config_version"}, v \in EnvValues,
     other \in {"unset", "good"}, keys \in {"good"} :
    LET env == [NoEnv EXCEPT !["ak"] = keys, !["sk"] = keys, !["eventHeartbeat"] = other, ![p] = v]
        c == Resolve(Silent, Silent, env)
    IN  Loads(c) <=> \/ v \in {"unset", "good"} \/ p = "intervalMs"
                     \/ v = "empty" /\ p # "config_version"

------------------------------------------------------------------------------

SectionsOf(names, keys, urls, auths) ==
  LET Build(t, n, d, l, e) ==
        [NoSection EXCEPT !["root"] = "record", !["gateway"] = t.gateway, !["url"] = t.url,
           !["auth"] = t.auth, !["ak"] = t.ak, !["sk"] = t.sk, !["name"] = n,
           !["deprecated"] = IF t.gateway = "record" THEN d ELSE "absent",
           !["accounts"] = l, !["enabled"] = e]
      Trees == [gateway : {"absent", "record", "wrong"}, url : urls, auth : auths, ak : keys, sk : keys]
  IN  {NoSection} \cup
      {c \in {Build(t, n, d, l, e) : t \in Trees, n \in names, d \in {"absent", "good"},
                                     l \in {"absent", "record"}, e \in {"absent", "off"}} :
         Formed(c, AccountParent)}
Written == SectionsOf({"absent", "good"}, {"absent", "good", "blank"},
                            {"absent", "good", "http"}, {"absent", "record", "null"})
Odd == SectionsOf({"absent", "wrong"}, {"absent", "good", "empty", "null", "wrong"},
                        {"absent", "blank", "null"}, {"absent", "record", "null", "wrong"})
Typed == [name : {"unset", "good"}, url : {"unset", "blank", "good", "http"},
                ak : {"unset", "good"}, sk : {"unset", "blank", "good"}]

\* The account alone says what is missing: the second look at the section, for
\* which the whole configuration is handed around, never changes the answer.
ASSUME TheAccountTellsIt ==
  \A section \in Written \cup Odd :
    getMissingRequiredConfigPaths(section) = {p \in {"url", "ak", "sk"} : ~Says(resolveAccount(section)[p])}

\* A setup that is accepted leaves an account that is configured, enabled and
\* described without an exception, with an address of a websocket, and nothing
\* of what was there before is lost but what is deprecated.
ASSUME SetupConfigures ==
  \A section \in Written, input \in Typed :
    LET next == applyMessageBridgeSetupConfig(section, input)
    IN  validateMessageBridgeSetupInput(section, input) = "accepted" =>
          /\ buildSelectionHint(next) = "configured"
          /\ resolveAccount(next).url = "good"
          /\ ~describeAccountThrows(next)
          /\ \A p \in Inputs : next[p] = IF Says(input[p]) THEN input[p] ELSE section[p]

\* What a setup writes is what the schema of the channel asks for, but for the
\* address: without one of its own the section relies on the default, and the
\* schema requires it.
ASSUME SchemaTakesSetups ==
  \A section \in Written, input \in Typed :
    LET next == applyMessageBridgeSetupConfig(section, input)
    IN  validateMessageBridgeSetupInput(section, input) = "accepted" =>
          SchemaErrors(next) = {p \in {"url"} : section.url = "absent" /\ input.url \in {"unset", "blank"}}

\* A section the schema takes is described without an exception; one that
\* gives the credentials as something else is not.
ASSUME SchemaKeepsItSafe ==
  /\ \A section \in Written \cup Odd : SchemaErrors(section) = {} => ~describeAccountThrows(section)
  /\ \E section \in Odd : describeAccountThrows(section)

\* The wizard, which writes one answer after the other, and the setup, which
\* writes them at once, end with the same section, and what the wizard accepts
\* the setup accepts.
ASSUME WizardIsASetup ==
  \A section \in Written, answers \in Typed :
    WizardAccepts(section, answers) =>
      /\ validateMessageBridgeSetupInput(section, answers) = "accepted"
      /\ Wizard(section, answers) =
           IF answers = NoInput THEN section ELSE applyMessageBridgeSetupConfig(section, answers)
      /\ Onboarded(section, answers) # Missing

\* Accounts of the old form block every way to a configured account until they
\* are gone, and an account that was deleted is not configured.
ASSUME OldAccountsBlock ==
  \A section \in {s \in Written : hasLegacyAccountsConfig(s)}, input \in Typed :
    /\ ~isAccountConfigured(section)
    /\ Onboarded(section, input) = Missing
    /\ ~WizardAccepts(section, input)
    /\ ~isAccountConfigured(deleteMessageBridgeAccount(section))
=============================================================================
