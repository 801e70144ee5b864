----------------------------- MODULE InstallCli -----------------------------
(***************************************************************************)
(* skill-plugin-cli: one installation of a host's plugin, stage by stage   *)
(* (InstallPluginCliUseCase), over what it leaves behind: the npm registry *)
(* line of .npmrc, the plugin the host knows, the cache of fetched         *)
(* packages and the configuration files.  A command may be killed between  *)
(* any two steps and run again; the files are then as it left them.        *)
(*                                                                         *)
(* A configuration file is edited as text.  What decides the outcome is    *)
(* its layout: "absent", "other" (not a JSON object), "block" (ends in a   *)
(* brace on a line of its own), "hollow" (such a file without any key),    *)
(* "inline" (no line begins with a brace after what is edited), or         *)
(* "broken", which an edit of a hollow file makes of it.  In the bridge's  *)
(* file it is also how the credentials stand in it: there is no key "auth" *)
(* ("none"), it is an object that ends on a line of its own ("object"), an *)
(* object on one line with both keys ("keyed") or without them ("bare"),   *)
(* or no object at all ("null").                                           *)
(***************************************************************************)
EXTENDS QrCodeAuth

CONSTANTS
  Versions,      \* the published versions of the plugin
  Registries,    \* npm registries
  MaxCommands,   \* bound: commands ever run
  Layouts        \* layouts the host's configuration files may begin with

ASSUME CommandsAreBounded == MaxCommands \in Nat \ {0}
ASSUME KnownLayouts ==
  Layouts \subseteq {"absent", "other", "block", "hollow", "inline"}

NoRegistry == "noRegistry"
DefaultRegistry == "defaultRegistry"
NpmSpec == "npmSpec"      \* the plugin by its package name
Foreign == "foreign"      \* somebody else's plugin

ASSUME PathsAreApart ==   \* a version is listed by a path of the cache
  Versions # {} /\ Versions \cap {NpmSpec, Foreign} = {}

NoCredentials == "noCredentials"
AuthForms == {"none", "object", "keyed", "bare", "null"}

Hosts == {"opencode", "openclaw"}
Strategies == {"host-native", "fallback"}
Commands ==
  [host : Hosts, strategy : Strategies, registry : Registries \cup {NoRegistry}]

VARIABLES
  command, pc, result, commandsRun,
  registry,        \* InstallContext.registry
  npmrc,           \* the scoped registry of .npmrc, or NoRegistry
  installed,       \* openclaw: the plugin is installed
  opencodeFile,    \* opencode.json: [layout, items, listed]
  cache, backup,   \* the versions whose extracted package, or its backup, is whole
  version,         \* the version being fetched, and then the artifact's
  bridgeFile,      \* message-bridge.json: [layout, auth, credentials], the
                   \* credentials "auth" holds of those the commands got
  channelKeys,     \* openclaw: the credentials its channel was given
  credentials,
  torn             \* history: versions whose replacement was cut short

cliVars == <<command, pc, result, commandsRun, registry, npmrc, installed,
             opencodeFile, cache, backup, version, bridgeFile, channelKeys,
             credentials, torn>>
vars == <<qrVars, cliVars>>

Pcs ==
  {"idle", "context", "preflight", "registry", "uninstall", "install", "view",
   "swap", "swapped", "reconcile", "verify", "auth", "configure", "confirm"}

TypeOK ==
  /\ command \in Commands
  /\ pc \in Pcs
  /\ result \in {"none", "success", "failed", "cancelled", "killed"}
  /\ commandsRun \in 0 .. MaxCommands
  /\ {registry, npmrc} \subseteq Registries \cup {NoRegistry, DefaultRegistry}
  /\ installed \in BOOLEAN
  /\ cache \subseteq Versions /\ backup \subseteq Versions
  /\ version \in Versions /\ torn \subseteq Versions
  /\ opencodeFile.items \subseteq Versions \cup {NpmSpec, Foreign}
  /\ {credentials, bridgeFile.credentials, channelKeys} \subseteq
       Codes \cup {NoCredentials}

Init ==
  /\ QrInit
  /\ command = CHOOSE c \in Commands : TRUE
  /\ pc = "idle" /\ result = "none" /\ commandsRun = 0
  /\ registry = NoRegistry
  /\ npmrc \in Registries \cup {NoRegistry}
  /\ installed \in BOOLEAN
  /\ opencodeFile \in
       [layout : Layouts, items : {{}, {Foreign}}, listed : BOOLEAN]
  /\ opencodeFile.items # {} => opencodeFile.listed
  /\ opencodeFile.listed => opencodeFile.layout \in {"block", "inline"}
  /\ cache = {} /\ backup = {} /\ torn = {}
  /\ version = CHOOSE v \in Versions : TRUE
  /\ bridgeFile \in
       [layout : Layouts, auth : AuthForms, credentials : {NoCredentials}]
  /\ bridgeFile.auth # "none" => bridgeFile.layout \in {"block", "inline"}
  /\ credentials = NoCredentials /\ channelKeys = NoCredentials

-----------------------------------------------------------------------------
(* NpmrcRegistryConfigAdapter *)

\* resolveRegistry(): the command line, then .npmrc, then the default.
ResolvedRegistry ==
  IF command.registry # NoRegistry THEN command.registry
  ELSE IF npmrc # NoRegistry THEN npmrc ELSE DefaultRegistry

-----------------------------------------------------------------------------
(* Slips: what a definition below would be if the code had it wrong. *)

\* Replacing the cache fails and the backup is not put back.
CacheAfterFailedSwapLost == cache

\* The keys of an object on one line are not found, and new ones are put
\* behind it.
BridgeConfigAppends(file, keys) ==
  IF file.auth \in {"keyed", "bare", "null"} THEN file
  ELSE [layout |-> IF file.layout = "absent" THEN "block" ELSE file.layout,
        auth |-> "object", credentials |-> keys]

-----------------------------------------------------------------------------
(* config-editors.ts *)

\* upsertJsonObjectField() where the object is found, or a new object before
\* the closing line: both need a line that begins with a brace.
Editable(layout) == layout \in {"block", "broken"}

\* buildNextBridgeConfig() and ...WithoutUrl(): the file after the edit.  Where
\* "auth" is, the keys are put before the first line after it that begins with
\* a brace: inside an object that ends there, and behind one that is on one
\* line, unless the keys it has are found first.  Where it is not, it is added;
\* a file without any key gets a comma too many by that.
BridgeConfig(file, keys) ==
  LET added == [file EXCEPT !.auth = "object", !.credentials = keys]
  IN CASE file.layout = "absent" -> [added EXCEPT !.layout = "block"]
       [] file.layout = "hollow" -> [added EXCEPT !.layout = "broken"]
       [] file.auth = "object" -> added
       [] file.auth = "keyed" /\ Editable(file.layout) ->
            [file EXCEPT !.credentials = keys]
       [] file.auth = "none" /\ Editable(file.layout) -> added
       [] OTHER -> file

\* buildNextOpencodeConfig(): of the references the installer controls, its
\* package name and the paths of its cache, only the new one is kept.
OpencodeConfig(file, spec) ==
  LET items == (file.items \cap {Foreign}) \cup {spec}
  IN CASE file.layout = "absent" ->
            [layout |-> "block", items |-> items, listed |-> TRUE]
       [] file.layout = "hollow" ->
            [layout |-> "broken", items |-> items, listed |-> TRUE]
       [] Editable(file.layout) \/ file.listed ->
            [file EXCEPT !.items = items, !.listed = TRUE]
       [] OTHER -> file

-----------------------------------------------------------------------------
(* InstallPluginCliUseCase.execute *)

Goto(next) == pc' = next

\* The catch of execute(), toInstallCliError() and mapFailure().
Fail ==
  /\ result' = IF qrPc = "done" /\ \E e \in endings : e[1] = "cancelled"
               THEN "cancelled" ELSE "failed"
  /\ Goto("idle")

filesUnchanged ==
  UNCHANGED <<npmrc, installed, opencodeFile, cache, backup, bridgeFile,
              channelKeys, torn>>

\* parseInstallArgv() accepted a command; another one is run when one is over.
Run ==
  /\ pc = "idle" /\ commandsRun < MaxCommands
  /\ command' \in Commands
  /\ commandsRun' = commandsRun + 1
  /\ result' = "none" /\ credentials' = NoCredentials
  /\ qrPc' = "idle" /\ activeCode' = NoCode /\ refreshCount' = 0
  /\ emitted' = {} /\ endings' = {}
  /\ Goto("context")
  /\ filesUnchanged /\ UNCHANGED <<registry, version>>

\* parse_install_args: ResolveInstallContextUseCase
ResolveContext ==
  /\ pc = "context"
  /\ registry' = ResolvedRegistry
  /\ Goto("preflight")
  /\ filesUnchanged
  /\ UNCHANGED <<qrVars, command, result, commandsRun, version, credentials>>

\* check_host_environment: the host is not there, or too old.
Preflight ==
  /\ pc = "preflight"
  /\ \/ Goto("registry") /\ UNCHANGED result
     \/ Fail
  /\ filesUnchanged
  /\ UNCHANGED <<qrVars, command, commandsRun, registry, version,
                 credentials>>

\* prepare_npm_registry: ensureRegistry()
EnsureRegistry ==
  /\ pc = "registry"
  /\ npmrc' = registry
  /\ Goto(CASE command.host = "openclaw" -> "uninstall"
            [] command.strategy = "fallback" -> "view"
            [] OTHER -> "install")
  /\ UNCHANGED <<qrVars, command, result, commandsRun, registry, installed,
                 opencodeFile, cache, backup, version, bridgeFile,
                 channelKeys, credentials, torn>>

\* openclaw, install_plugin: what is installed is removed first.
Uninstall ==
  /\ pc = "uninstall"
  /\ \/ /\ installed' = FALSE
        /\ Goto(IF command.strategy = "fallback" THEN "view" ELSE "install")
        /\ UNCHANGED result
     \/ installed /\ Fail /\ UNCHANGED installed
  /\ UNCHANGED <<qrVars, command, commandsRun, registry, npmrc, opencodeFile,
                 cache, backup, version, bridgeFile, channelKeys, credentials,
                 torn>>

\* The host installs the plugin: opencode by its name, which the host lists;
\* openclaw by its name or from the tarball.
HostInstalls ==
  /\ pc = "install"
  /\ \/ /\ IF command.host = "openclaw"
           THEN installed' = TRUE /\ UNCHANGED opencodeFile
           ELSE /\ opencodeFile.layout # "other"
                /\ opencodeFile' =
                     [layout |-> IF opencodeFile.layout \in {"absent", "hollow"}
                                 THEN "block" ELSE opencodeFile.layout,
                      items |-> opencodeFile.items \cup {NpmSpec},
                      listed |-> TRUE]
                /\ UNCHANGED installed
        /\ Goto(IF command.host = "openclaw" THEN "verify" ELSE "reconcile")
        /\ UNCHANGED result
     \/ Fail /\ UNCHANGED <<installed, opencodeFile>>
  /\ UNCHANGED <<qrVars, command, commandsRun, registry, npmrc, cache, backup,
                 version, bridgeFile, channelKeys, credentials, torn>>

\* NpmPluginArtifactAdapter.fetchArtifact(): npm view, npm pack, and the
\* package unpacked into a directory of its own and found whole.
Fetch ==
  /\ pc = "view"
  /\ \/ version' \in Versions /\ Goto("swap") /\ UNCHANGED result
     \/ Fail /\ UNCHANGED version
  /\ filesUnchanged
  /\ UNCHANGED <<qrVars, command, commandsRun, registry, credentials>>

\* The package that is there is moved out of the way, or cannot be.
BackUp ==
  /\ pc = "swap"
  /\ \/ /\ backup' = (backup \ {version}) \cup (cache \cap {version})
        /\ cache' = cache \ {version}
        /\ Goto("swapped") /\ UNCHANGED result
     \/ backup' = backup \ {version} /\ Fail /\ UNCHANGED cache
  /\ UNCHANGED <<qrVars, command, commandsRun, registry, npmrc, installed,
                 opencodeFile, version, bridgeFile, channelKeys, credentials,
                 torn>>

AfterFetch == IF command.host = "openclaw" THEN "install" ELSE "reconcile"

\* The new package takes its place.
Replace ==
  /\ pc = "swapped"
  /\ cache' = cache \cup {version} /\ backup' = backup \ {version}
  /\ torn' = torn \ {version}
  /\ Goto(AfterFetch)
  /\ UNCHANGED <<qrVars, command, result, commandsRun, registry, npmrc,
                 installed, opencodeFile, version, bridgeFile, channelKeys,
                 credentials>>

\* It cannot; what was there is put back, unless that fails too.
CacheAfterFailedSwap == cache \cup (backup \cap {version})

ReplaceFails ==
  /\ pc = "swapped"
  /\ \/ /\ cache' = CacheAfterFailedSwap
        /\ backup' = backup \ {version}
        /\ UNCHANGED torn
     \/ /\ version \in backup
        /\ torn' = torn \cup {version}
        /\ UNCHANGED <<cache, backup>>
  /\ Fail
  /\ UNCHANGED <<qrVars, command, commandsRun, registry, npmrc, installed,
                 opencodeFile, version, bridgeFile, channelKeys, credentials>>

\* opencode: reconcilePluginReference(), then cleanupLegacyArtifacts(), which
\* only warns.
PluginSpec == IF command.strategy = "fallback" THEN version ELSE NpmSpec

Reconcile ==
  /\ pc = "reconcile"
  /\ IF opencodeFile.layout = "other" THEN Fail /\ UNCHANGED opencodeFile
     ELSE /\ opencodeFile' = OpencodeConfig(opencodeFile, PluginSpec)
          /\ Goto("verify") /\ UNCHANGED result
  /\ UNCHANGED <<qrVars, command, commandsRun, registry, npmrc, installed,
                 cache, backup, version, bridgeFile, channelKeys, credentials,
                 torn>>

\* verify_plugin_installation
PluginIsThere ==
  IF command.host = "openclaw" THEN installed
  ELSE PluginSpec \in opencodeFile.items

Verify ==
  /\ pc = "verify"
  /\ IF PluginIsThere THEN Goto("auth") /\ UNCHANGED result ELSE Fail
  /\ filesUnchanged
  /\ UNCHANGED <<qrVars, command, commandsRun, registry, version,
                 credentials>>

\* create_welink_assistant: QrCodeAuthAdapter runs the authorization ...
Authorize ==
  /\ pc = "auth" /\ QrNext
  /\ UNCHANGED cliVars

\* ... and returns the credentials of a confirmed code, or fails.
Authorized ==
  /\ pc = "auth" /\ qrPc = "done"
  /\ \/ \E c \in Codes :
          /\ <<"confirmed", c>> \in endings
          /\ credentials' = c
          /\ Goto("configure") /\ UNCHANGED result
     \/ /\ \A e \in endings : e[1] # "confirmed"
        /\ Fail /\ UNCHANGED credentials
  /\ filesUnchanged
  /\ activeCode' = NoCode /\ refreshCount' = 0 /\ emitted' = {}
  /\ UNCHANGED <<qrPc, endings, command, commandsRun, registry, version>>

\* write_host_configuration: openclaw is given the credentials by a command
\* of its own, opencode's file is edited.
Configure ==
  /\ pc = "configure"
  /\ \/ /\ command.host = "openclaw"
        /\ channelKeys' = credentials
        /\ Goto("confirm") /\ UNCHANGED <<result, bridgeFile>>
     \/ /\ command.host = "openclaw"
        /\ Fail /\ UNCHANGED <<channelKeys, bridgeFile>>
     \/ /\ command.host = "opencode" /\ bridgeFile.layout # "other"
        /\ bridgeFile' = BridgeConfig(bridgeFile, credentials)
        /\ Goto("confirm") /\ UNCHANGED <<result, channelKeys>>
     \/ /\ command.host = "opencode" /\ bridgeFile.layout = "other"
        /\ Fail /\ UNCHANGED <<channelKeys, bridgeFile>>
  /\ UNCHANGED <<qrVars, command, commandsRun, registry, npmrc, installed,
                 opencodeFile, cache, backup, version, credentials, torn>>

\* check_connection_availability
Confirm ==
  /\ pc = "confirm"
  /\ \/ result' = "success" /\ Goto("idle")
     \/ Fail
  /\ filesUnchanged
  /\ UNCHANGED <<qrVars, command, commandsRun, registry, version,
                 credentials>>

\* The process is killed.
Kill ==
  /\ pc # "idle"
  /\ torn' = IF pc = "swapped" THEN torn \cup {version} ELSE torn
  /\ result' = "killed" /\ Goto("idle")
  /\ UNCHANGED <<qrVars, command, commandsRun, registry, npmrc, installed,
                 opencodeFile, cache, backup, version, bridgeFile,
                 channelKeys, credentials>>

Next ==
  \/ Run \/ ResolveContext \/ Preflight \/ EnsureRegistry \/ Uninstall
  \/ HostInstalls \/ Fetch \/ BackUp \/ Replace \/ ReplaceFails \/ Reconcile
  \/ Verify \/ Authorize \/ Authorized \/ Configure \/ Confirm \/ Kill

Spec == Init /\ [][Next]_vars

-----------------------------------------------------------------------------
(* Properties *)

\* A path of the cache that opencode was told to load the plugin from is
\* there, unless a replacement of that very version was cut short.
ListedIsThere ==
  pc # "swapped" => opencodeFile.items \cap Versions \subseteq cache \cup torn

\* The layouts in which an edit of the bridge's file reaches the credentials:
\* not where "auth" is no object or lies on one line without both keys, nor in
\* a file that has no line to put them before.
TakesCredentials(file) ==
  \/ file.layout \in {"absent", "hollow"}
  \/ file.auth = "object"
  \/ file.auth \in {"none", "keyed"} /\ Editable(file.layout)

\* A command that says it succeeded left the registry it used, exactly one
\* reference to the plugin, and the credentials the user confirmed: openclaw's
\* channel has them, and the bridge's file where its layout takes them.  In
\* the other layouts buildNextBridgeConfig() leaves the bridge without them
\* and the command succeeds all the same; a file that began without any key
\* holds them, but is no JSON any more.
SuccessIsComplete ==
  result = "success" =>
    /\ npmrc = registry
    /\ command.host = "opencode" =>
         /\ opencodeFile.items \ {Foreign} = {PluginSpec}
         /\ TakesCredentials(bridgeFile) => bridgeFile.credentials = credentials
    /\ command.host = "openclaw" => installed /\ channelKeys = credentials
    /\ <<"confirmed", credentials>> \in endings
=============================================================================
