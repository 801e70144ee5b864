-------------------------- MODULE InstallCliProofs --------------------------
(***************************************************************************)
(* What an installation leaves behind, for every number of commands,       *)
(* versions, registries and codes, and for commands killed between any two *)
(* steps: the authorization ends once, what opencode is told to load is    *)
(* there, and a command that says it succeeded did.                        *)
(***************************************************************************)
EXTENDS InstallCli, FiniteSetTheorems, TLAPS

-----------------------------------------------------------------------------
(* The authorization. *)

Ends(key) == key[1] \in Terminal

\* An authorization in progress has reported no ending, so the one it comes
\* to is new; one that polls shows the code it polls.
QrInv ==
  /\ qrPc \in {"idle", "create", "poll", "done"}
  /\ refreshCount \in 0 .. MaxRefreshCount
  /\ qrPc \in {"create", "poll"} =>
       endings = {} /\ \A key \in emitted : ~Ends(key)
  /\ qrPc = "poll" =>
       activeCode \in Codes /\ <<"qrcode_generated", activeCode>> \in emitted
  /\ qrPc = "done" => \E key \in endings : endings = {key}

-----------------------------------------------------------------------------
(* The files. *)

OpencodeFiles ==
  [layout : {"absent", "other", "block", "hollow", "inline", "broken"},
   items : SUBSET (Versions \cup {NpmSpec, Foreign}), listed : BOOLEAN]
BridgeFiles ==
  [layout : {"absent", "other", "block", "hollow", "inline", "broken"},
   auth : AuthForms, credentials : Codes \cup {NoCredentials}]

\* A list of plugins is in a file that is edited line by line.
ListKnown(file) ==
  /\ file.items # {} => file.listed
  /\ file.listed => file.layout \in {"block", "inline", "broken"}

TypeInv ==
  /\ TypeOK
  /\ opencodeFile \in OpencodeFiles /\ bridgeFile \in BridgeFiles
  /\ ListKnown(opencodeFile)

\* While the package of a version is being replaced, its backup stands in.
CacheInv ==
  opencodeFile.items \cap Versions \subseteq
    cache \cup torn \cup IF pc = "swapped" THEN backup \cap {version} ELSE {}

\* What the stages of a command have established when one is entered.
AfterRegistry ==
  {"uninstall", "install", "view", "swap", "swapped", "reconcile", "verify",
   "auth", "configure", "confirm"}

PluginIsWhole ==
  IF command.host = "openclaw" THEN installed
  ELSE opencodeFile.items \ {Foreign} = {PluginSpec}

StagesInv ==
  /\ pc # "idle" => result = "none"
  /\ pc \in AfterRegistry \/ result = "success" => npmrc = registry
  /\ pc = "uninstall" => command.host = "openclaw"
  /\ pc = "install" => command.host = "openclaw" \/ command.strategy # "fallback"
  /\ pc = "reconcile" =>
       /\ command.host = "opencode"
       /\ command.strategy = "fallback" => version \in cache
  /\ pc = "verify" =>
       \/ PluginIsWhole
       \/ command.host = "openclaw"
       \/ opencodeFile.items = {}
  /\ pc \in {"auth", "configure", "confirm"} \/ result = "success" =>
       PluginIsWhole
  /\ pc \in {"configure", "confirm"} \/ result = "success" =>
       <<"confirmed", credentials>> \in endings
  /\ pc = "confirm" \/ result = "success" =>
       IF command.host = "openclaw" THEN channelKeys = credentials
       ELSE TakesCredentials(bridgeFile) => bridgeFile.credentials = credentials

\* The inductive invariant.
CliInv == QrInv /\ TypeInv /\ CacheInv /\ StagesInv

-----------------------------------------------------------------------------
(* The authorization ends once. *)

LEMMA CreateKinds ==
  ASSUME NEW r \in CreateResults
  PROVE  \/ r.kind = "failed"
         \/ r.kind = "created" /\ r.qrcode \in Codes
<1>1. PICK answer \in CreateAnswers : r = CreateResult(answer)
  BY DEF CreateResults
<1>2. answer.qrcode \in Codes \cup {NoCode}
  BY DEF CreateAnswers
<1> QED
  BY <1>1, <1>2 DEF CreateResult

LEMMA QueryKinds ==
  ASSUME NEW ref \in Codes, NEW r \in QueryResults[ref]
  PROVE  r.kind \in {"waiting", "scanned", "expired", "failed", "confirmed",
                     "cancelled"}
<1>1. PICK answer \in QueryAnswers : r = QueryResult(ref, answer)
  BY DEF QueryResults
<1>2. r.kind = QueryKind(answer)
  BY <1>1 DEF QueryResult
<1> QED
  BY <1>2 DEF QueryKind, StatusKind

\* The first ending that is reported is the only one, and reports that are no
\* endings are none.
LEMMA EmitEnding ==
  ASSUME endings = {}, \A key \in emitted : ~Ends(key),
         NEW reports, \A key \in reports : ~Ends(key),
         NEW ending, Ends(ending), Emit(reports \cup {ending})
  PROVE  endings' = {ending}
  BY DEF Emit, Ends

LEMMA EmitReports ==
  ASSUME endings = {}, \A key \in emitted : ~Ends(key),
         NEW reports, \A key \in reports : ~Ends(key), Emit(reports)
  PROVE  /\ endings' = {} /\ \A key \in emitted' : ~Ends(key)
         /\ emitted \cup reports \subseteq emitted'
  BY DEF Emit, Ends

LEMMA KeysThatEnd ==
  /\ \A c : /\ Ends(<<"failed", NoCode, c>>) /\ Ends(<<"confirmed", c>>)
            /\ Ends(<<"cancelled", c>>)
            /\ ~Ends(<<"qrcode_generated", c>>) /\ ~Ends(<<"scanned", c>>)
            /\ ~Ends(<<"expired", c>>)
  /\ \A c, reason : Ends(<<"failed", c, reason>>)
  BY DEF Ends, Terminal

LEMMA CreateSessionInv ==
  ASSUME QrInv, NEW r \in CreateResults, CreateSession(r)
  PROVE  QrInv'
<1>0. endings = {} /\ \A key \in emitted : ~Ends(key)
  BY DEF CreateSession, QrInv
<1>1. CASE r.kind = "failed"
  <2>1. Emit({} \cup {<<"failed", NoCode, r.reason>>})
        /\ qrPc' = "done" /\ UNCHANGED <<activeCode, refreshCount>>
    BY <1>1 DEF CreateSession
  <2>2. endings' = {<<"failed", NoCode, r.reason>>}
    BY <1>0, <2>1, EmitEnding, KeysThatEnd
  <2> QED
    BY <2>1, <2>2 DEF QrInv
<1>2. CASE r.kind # "failed"
  <2>1. /\ Emit({<<"qrcode_generated", r.qrcode>>}) /\ r.qrcode \in Codes
        /\ qrPc' = "poll" /\ activeCode' = r.qrcode /\ UNCHANGED refreshCount
    BY <1>2, CreateKinds DEF CreateSession
  <2>2. \A key \in {<<"qrcode_generated", r.qrcode>>} : ~Ends(key)
    BY KeysThatEnd
  <2>3. /\ endings' = {} /\ \A key \in emitted' : ~Ends(key)
        /\ <<"qrcode_generated", r.qrcode>> \in emitted'
    BY <1>0, <2>1, <2>2, EmitReports
  <2> QED
    BY <2>1, <2>3 DEF QrInv
<1> QED
  BY <1>1, <1>2

\* One turn of the polling loop reports something on the way, or the end.
LEMMA PollInv ==
  ASSUME QrInv, qrPc = "poll", NEW r \in QueryResults[activeCode], Poll(r)
  PROVE  QrInv'
<1>0. /\ endings = {} /\ \A key \in emitted : ~Ends(key)
      /\ activeCode \in Codes /\ <<"qrcode_generated", activeCode>> \in emitted
      /\ UNCHANGED activeCode
      /\ refreshCount \in 0 .. MaxRefreshCount
  BY DEF QrInv, Poll
<1>1. r.kind \in {"waiting", "scanned", "expired", "failed", "confirmed",
                  "cancelled"}
  BY <1>0, QueryKinds
<1>2. CASE r.kind = "waiting"
  BY <1>0, <1>2 DEF Poll, QrInv
<1>3. CASE r.kind = "scanned"
  <2>1. Emit({<<"scanned", r.qrcode>>}) /\ UNCHANGED <<qrPc, refreshCount>>
    BY <1>3 DEF Poll
  <2>2. \A key \in {<<"scanned", r.qrcode>>} : ~Ends(key)
    BY KeysThatEnd
  <2> QED
    BY <1>0, <2>1, <2>2, EmitReports DEF QrInv
<1>4. CASE r.kind = "expired"
  <2>0. \A key \in {<<"expired", r.qrcode>>} : ~Ends(key)
    BY KeysThatEnd
  <2>1. Expire(r)
    BY <1>4 DEF Poll
  <2>2. CASE RefreshOnExpired /\ refreshCount < MaxRefreshCount
    <3>1. /\ Emit({<<"expired", r.qrcode>>}) /\ qrPc' = "create"
          /\ refreshCount' = refreshCount + 1
      BY <2>1, <2>2 DEF Expire
    <3>2. endings' = {} /\ \A key \in emitted' : ~Ends(key)
      BY <1>0, <2>0, <3>1, EmitReports
    <3> QED
      BY <1>0, <2>2, <3>1, <3>2, QrPolicy DEF QrInv
  <2>3. CASE ~(RefreshOnExpired /\ refreshCount < MaxRefreshCount)
    <3>1. /\ Emit({<<"expired", r.qrcode>>} \cup {<<"failed", r.qrcode, "timeout">>})
          /\ qrPc' = "done" /\ UNCHANGED refreshCount
      BY <2>1, <2>3 DEF Expire
    <3>2. endings' = {<<"failed", r.qrcode, "timeout">>}
      BY <1>0, <2>0, <3>1, EmitEnding, KeysThatEnd
    <3> QED
      BY <1>0, <3>1, <3>2 DEF QrInv
  <2> QED
    BY <2>2, <2>3
<1>5. CASE r.kind = "failed"
  <2>1. /\ Emit({} \cup {<<"failed", r.qrcode, r.reason>>})
        /\ qrPc' = "done" /\ UNCHANGED refreshCount
    BY <1>5 DEF Poll
  <2>2. endings' = {<<"failed", r.qrcode, r.reason>>}
    BY <1>0, <2>1, EmitEnding, KeysThatEnd
  <2> QED
    BY <1>0, <2>1, <2>2 DEF QrInv
<1>6. CASE r.kind \in {"confirmed", "cancelled"}
  <2>1. /\ Emit({} \cup {<<r.kind, r.qrcode>>})
        /\ qrPc' = "done" /\ UNCHANGED refreshCount
    BY <1>6 DEF Poll
  <2>2. Ends(<<r.kind, r.qrcode>>)
    BY <1>6, KeysThatEnd
  <2>3. endings' = {<<r.kind, r.qrcode>>}
    BY <1>0, <2>1, <2>2, EmitEnding
  <2> QED
    BY <1>0, <2>1, <2>3 DEF QrInv
<1> QED
  BY <1>1, <1>2, <1>3, <1>4, <1>5, <1>6

LEMMA QrNextInv == QrInv /\ QrNext => QrInv'
<1>1. QrInv /\ StartQr => QrInv'
  BY QrPolicy DEF StartQr, QrInv
<1> QED
  BY <1>1, CreateSessionInv, PollInv DEF QrNext

LEMMA QrInvGivesOneEnding == QrInv => OneEnding
<1> SUFFICES ASSUME QrInv PROVE OneEnding
  OBVIOUS
<1>1. qrPc = "done" => Cardinality(endings) = 1
  BY FS_Singleton DEF QrInv
<1>2. refreshCount <= MaxRefreshCount
  BY QrPolicy DEF QrInv
<1> QED
  BY <1>1, <1>2 DEF QrInv, OneEnding

-----------------------------------------------------------------------------
(* The steps of a command. *)

\* What a step may do to the authorization.
LEMMA NextQrInv ==
  ASSUME QrInv, Next
  PROVE  QrInv'
<1>1. CASE Run
  BY <1>1, QrPolicy DEF Run, QrInv
<1>2. CASE Authorize
  BY <1>2, QrNextInv DEF Authorize
<1>3. CASE Authorized
  <2>1. /\ qrPc = "done" /\ UNCHANGED <<qrPc, endings>> /\ refreshCount' = 0
    BY <1>3 DEF Authorized
  <2> QED
    BY <2>1, QrPolicy DEF QrInv
<1>4. CASE UNCHANGED qrVars
  BY <1>4 DEF qrVars, QrInv
<1> QED
  BY <1>1, <1>2, <1>3, <1>4 DEF Next, ResolveContext, Preflight,
     EnsureRegistry, Uninstall, HostInstalls, Fetch, BackUp, Replace,
     ReplaceFails, Reconcile, Verify, Configure, Confirm, Kill

\* What the edits of the configuration files make of them.
LEMMA OpencodeEdit ==
  ASSUME TypeInv, NEW spec \in Versions \cup {NpmSpec},
         opencodeFile.layout # "other",
         NEW file, file = OpencodeConfig(opencodeFile, spec)
  PROVE  /\ file \in OpencodeFiles
         /\ ListKnown(file)
         /\ \/ file.items = (opencodeFile.items \cap {Foreign}) \cup {spec}
            \/ file = opencodeFile /\ opencodeFile.items = {}
<1> DEFINE items == (opencodeFile.items \cap {Foreign}) \cup {spec}
<1>1. /\ items \in SUBSET (Versions \cup {NpmSpec, Foreign})
      /\ opencodeFile \in OpencodeFiles
      /\ ListKnown(opencodeFile)
  BY DEF TypeInv
<1>2. CASE opencodeFile.layout \in {"absent", "hollow"}
  <2>1. \/ file = [layout |-> "block", items |-> items, listed |-> TRUE]
        \/ file = [layout |-> "broken", items |-> items, listed |-> TRUE]
    <3>1. CASE opencodeFile.layout = "absent"
      BY <1>1, <3>1 DEF OpencodeConfig, ListKnown, Editable
    <3>2. CASE opencodeFile.layout = "hollow"
      BY <1>1, <3>2 DEF OpencodeConfig, ListKnown, Editable
    <3> QED
      BY <1>2, <3>1, <3>2
  <2>2. /\ [layout |-> "block", items |-> items, listed |-> TRUE] \in OpencodeFiles
        /\ [layout |-> "broken", items |-> items, listed |-> TRUE] \in OpencodeFiles
    BY <1>1 DEF OpencodeFiles
  <2> HIDE DEF items
  <2>3. file \in OpencodeFiles
    BY <2>1, <2>2
  <2>4. file.items = items /\ file.layout \in {"block", "broken"}
    BY <2>1
  <2>5. file.listed
    BY <2>1
  <2> QED
    BY <2>3, <2>4, <2>5 DEF ListKnown, items
<1>3. CASE /\ opencodeFile.layout \notin {"absent", "hollow"}
           /\ Editable(opencodeFile.layout) \/ opencodeFile.listed
  <2>1. file = [opencodeFile EXCEPT !.items = items, !.listed = TRUE]
    BY <1>3 DEF OpencodeConfig
  <2>2. file.items = items /\ file.listed = TRUE /\ file \in OpencodeFiles
    BY <1>1, <2>1 DEF OpencodeFiles
  <2>3. file.layout = opencodeFile.layout
    BY <1>1, <2>1 DEF OpencodeFiles
  <2>4. file.layout \in {"block", "inline", "broken"}
    BY <1>1, <1>3, <2>3 DEF ListKnown, Editable
  <2> QED
    BY <2>2, <2>4 DEF ListKnown
<1>4. CASE /\ opencodeFile.layout \notin {"absent", "hollow"}
           /\ ~Editable(opencodeFile.layout) /\ ~opencodeFile.listed
  <2>1. file = opencodeFile
    BY <1>4 DEF OpencodeConfig
  <2> QED
    BY <1>1, <1>4, <2>1 DEF ListKnown
<1> QED
  BY <1>2, <1>3, <1>4

LEMMA BridgeEdit ==
  ASSUME TypeInv, NEW keys \in Codes \cup {NoCredentials},
         NEW file, file = BridgeConfig(bridgeFile, keys)
  PROVE  /\ file \in BridgeFiles
         /\ TakesCredentials(file) => file.credentials = keys
<1> DEFINE added == [bridgeFile EXCEPT !.auth = "object", !.credentials = keys]
<1>1. bridgeFile \in BridgeFiles
  BY DEF TypeInv
<1>2. added \in BridgeFiles /\ added.credentials = keys
  BY <1>1 DEF BridgeFiles, AuthForms
<1>3. CASE file = added
  BY <1>2, <1>3
<1>4. CASE file \in {[added EXCEPT !.layout = "block"],
                    [added EXCEPT !.layout = "broken"]}
  BY <1>2, <1>4 DEF BridgeFiles
<1>5. CASE file = [bridgeFile EXCEPT !.credentials = keys]
  BY <1>1, <1>5 DEF BridgeFiles
<1>6. CASE file = bridgeFile /\ ~TakesCredentials(bridgeFile)
  BY <1>1, <1>6
<1> QED
  BY <1>3, <1>4, <1>5, <1>6 DEF BridgeConfig, TakesCredentials

LEMMA FailEnds ==
  ASSUME Fail
  PROVE  pc' = "idle" /\ result' \in {"failed", "cancelled"}
  BY DEF Fail, Goto

\* The host lists the plugin, or has it installed.
LEMMA HostLists ==
  ASSUME TypeInv, HostInstalls
  PROVE  /\ opencodeFile' \in OpencodeFiles
         /\ ListKnown(opencodeFile')
         /\ installed' \in BOOLEAN
         /\ opencodeFile'.items \subseteq opencodeFile.items \cup {NpmSpec}
<1>1. opencodeFile \in OpencodeFiles /\ installed \in BOOLEAN
      /\ ListKnown(opencodeFile)
  BY DEF TypeInv, TypeOK
<1> DEFINE layout == IF opencodeFile.layout \in {"absent", "hollow"}
                      THEN "block" ELSE opencodeFile.layout
<1> DEFINE items == opencodeFile.items \cup {NpmSpec}
<1>2. \/ UNCHANGED opencodeFile
      \/ /\ opencodeFile.layout # "other"
         /\ opencodeFile' = [layout |-> layout, items |-> items, listed |-> TRUE]
  BY DEF HostInstalls
<1>3. installed' \in BOOLEAN
  <2>1. installed' = TRUE \/ UNCHANGED installed
    BY DEF HostInstalls
  <2> QED
    BY <1>1, <2>1
<1>4. /\ layout \in {"absent", "other", "block", "hollow", "inline", "broken"}
      /\ items \in SUBSET (Versions \cup {NpmSpec, Foreign})
  BY <1>1 DEF OpencodeFiles
<1>5. CASE UNCHANGED opencodeFile
  BY <1>1, <1>3, <1>5
<1>6. CASE /\ opencodeFile.layout # "other"
           /\ opencodeFile' = [layout |-> layout, items |-> items, listed |-> TRUE]
  <2>0. layout \in {"block", "inline", "broken"}
    BY <1>1, <1>6 DEF OpencodeFiles
  <2> HIDE DEF layout
  <2>1. opencodeFile' \in OpencodeFiles
    BY <1>4, <1>6 DEF OpencodeFiles
  <2> QED
    BY <1>3, <1>6, <2>0, <2>1 DEF ListKnown
<1> QED
  BY <1>2, <1>5, <1>6

\* The types of what no file holds.
Scalars ==
  /\ command \in Commands
  /\ pc \in Pcs
  /\ result \in {"none", "success", "failed", "cancelled", "killed"}
  /\ commandsRun \in 0 .. MaxCommands
  /\ {registry, npmrc} \subseteq Registries \cup {NoRegistry, DefaultRegistry}
  /\ cache \subseteq Versions /\ backup \subseteq Versions
  /\ version \in Versions /\ torn \subseteq Versions
  /\ {credentials, channelKeys} \subseteq Codes \cup {NoCredentials}

LEMMA NextScalars ==
  ASSUME TypeInv, QrInv, Next
  PROVE  Scalars'
<1> USE DEF Scalars, Goto, Pcs
<1>0. Scalars
  BY DEF TypeInv, TypeOK
<1>1. CASE Run
  BY <1>0, <1>1, CommandsAreBounded DEF Run, filesUnchanged
<1>2. CASE ResolveContext
  <2>1. ResolvedRegistry \in Registries \cup {NoRegistry, DefaultRegistry}
    BY <1>0 DEF ResolvedRegistry, Commands
  <2> QED
    BY <1>0, <1>2, <2>1 DEF ResolveContext, filesUnchanged
<1>3. CASE Preflight
  BY <1>0, <1>3, FailEnds DEF Preflight, filesUnchanged
<1>4. CASE EnsureRegistry
  BY <1>0, <1>4 DEF EnsureRegistry
<1>5. CASE Uninstall
  BY <1>0, <1>5, FailEnds DEF Uninstall
<1>6. CASE HostInstalls
  BY <1>0, <1>6, FailEnds DEF HostInstalls
<1>7. CASE Fetch
  BY <1>0, <1>7, FailEnds DEF Fetch, filesUnchanged
<1>8. CASE BackUp
  BY <1>0, <1>8, FailEnds DEF BackUp
<1>9. CASE Replace
  BY <1>0, <1>9 DEF Replace, AfterFetch
<1>10. CASE ReplaceFails
  BY <1>0, <1>10, FailEnds DEF ReplaceFails, CacheAfterFailedSwap
<1>11. CASE Reconcile
  BY <1>0, <1>11, FailEnds DEF Reconcile
<1>12. CASE Verify
  BY <1>0, <1>12, FailEnds DEF Verify, filesUnchanged
<1>13. CASE Authorize
  BY <1>0, <1>13 DEF Authorize, cliVars
<1>14. CASE Authorized
  BY <1>0, <1>14, FailEnds DEF Authorized, filesUnchanged
<1>15. CASE Configure
  BY <1>0, <1>15, FailEnds DEF Configure
<1>16. CASE Confirm
  BY <1>0, <1>16, FailEnds DEF Confirm, filesUnchanged
<1>17. CASE Kill
  BY <1>0, <1>17 DEF Kill
<1> QED
  BY <1>1, <1>2, <1>3, <1>4, <1>5, <1>6, <1>7, <1>8, <1>9, <1>10, <1>11,
     <1>12, <1>13, <1>14, <1>15, <1>16, <1>17 DEF Next

LEMMA NextTypeInv ==
  ASSUME TypeInv, QrInv, Next
  PROVE  TypeInv'
<1>0. /\ opencodeFile \in OpencodeFiles /\ bridgeFile \in BridgeFiles
      /\ ListKnown(opencodeFile)
      /\ installed \in BOOLEAN /\ command \in Commands
      /\ version \in Versions /\ credentials \in Codes \cup {NoCredentials}
  BY DEF TypeInv, TypeOK
<1> DEFINE Files == <<opencodeFile, installed, bridgeFile>>
<1>1. CASE HostInstalls
  <2>1. UNCHANGED bridgeFile
    BY <1>1 DEF HostInstalls
  <2> QED
    BY <1>0, <1>1, <2>1, HostLists, NextScalars
    DEF TypeInv, TypeOK, Scalars, OpencodeFiles, BridgeFiles
<1>2. CASE Reconcile
  <2>1. UNCHANGED <<installed, bridgeFile>>
    BY <1>2 DEF Reconcile
  <2>2. /\ opencodeFile' \in OpencodeFiles
        /\ ListKnown(opencodeFile')
    <3>1. CASE UNCHANGED opencodeFile
      BY <1>0, <3>1
    <3>2. PluginSpec \in Versions \cup {NpmSpec}
      BY <1>0 DEF PluginSpec
    <3> QED
      BY <1>2, <3>1, <3>2, OpencodeEdit DEF Reconcile
  <2> QED
    BY <1>0, <2>1, <2>2, NextScalars
    DEF TypeInv, TypeOK, Scalars, OpencodeFiles, BridgeFiles
<1>3. CASE Configure
  <2>1. UNCHANGED <<opencodeFile, installed>>
    BY <1>3 DEF Configure
  <2>2. bridgeFile' \in BridgeFiles
    <3>1. CASE UNCHANGED bridgeFile
      BY <1>0, <3>1
    <3>2. CASE bridgeFile' = BridgeConfig(bridgeFile, credentials)
      BY <1>0, <3>2, BridgeEdit
    <3> QED
      BY <1>3, <3>1, <3>2 DEF Configure
  <2> QED
    BY <1>0, <2>1, <2>2, NextScalars
    DEF TypeInv, TypeOK, Scalars, OpencodeFiles, BridgeFiles
<1>4. CASE Uninstall
  <2>1. UNCHANGED <<opencodeFile, bridgeFile>> /\ installed' \in BOOLEAN
    BY <1>0, <1>4 DEF Uninstall
  <2> QED
    BY <1>0, <2>1, NextScalars
    DEF TypeInv, TypeOK, Scalars, OpencodeFiles, BridgeFiles
<1>5. CASE UNCHANGED Files
  BY <1>0, <1>5, NextScalars
  DEF TypeInv, TypeOK, Scalars, OpencodeFiles, BridgeFiles
<1> QED
  BY <1>1, <1>2, <1>3, <1>4, <1>5 DEF Next, Run, ResolveContext, Preflight,
     EnsureRegistry, Fetch, BackUp, Replace, ReplaceFails, Verify, Authorize,
     Authorized, Confirm, Kill, filesUnchanged, cliVars

-----------------------------------------------------------------------------
(* The cache. *)

LEMMA NextCacheInv ==
  ASSUME CliInv, Next
  PROVE  CacheInv'
<1> DEFINE Paths == opencodeFile.items \cap Versions
<1> USE DEF Goto
<1>0. /\ Paths \subseteq cache \cup torn
           \cup IF pc = "swapped" THEN backup \cap {version} ELSE {}
      /\ version \in Versions /\ StagesInv /\ TypeInv
  BY DEF CliInv, CacheInv, TypeInv, TypeOK
<1>1. CASE HostInstalls
  <2>1. /\ Paths' \subseteq Paths
        /\ pc # "swapped" /\ pc' # "swapped" /\ UNCHANGED <<cache, torn>>
    BY <1>0, <1>1, HostLists, FailEnds, PathsAreApart DEF HostInstalls
  <2> QED
    BY <1>0, <2>1 DEF CacheInv
<1>2. CASE Reconcile
  <2>0. /\ pc = "reconcile" /\ pc' # "swapped" /\ UNCHANGED <<cache, torn>>
        /\ command.strategy = "fallback" => version \in cache
    BY <1>0, <1>2, FailEnds DEF Reconcile, StagesInv
  <2>1. CASE UNCHANGED opencodeFile
    BY <1>0, <2>0, <2>1 DEF CacheInv
  <2>2. CASE /\ opencodeFile.layout # "other"
             /\ opencodeFile' = OpencodeConfig(opencodeFile, PluginSpec)
    <3>1. PluginSpec \in Versions \cup {NpmSpec}
      BY <1>0 DEF PluginSpec
    <3>2. \/ opencodeFile'.items = (opencodeFile.items \cap {Foreign}) \cup {PluginSpec}
          \/ UNCHANGED opencodeFile
      BY <1>0, <2>2, <3>1, OpencodeEdit
    <3>3. PluginSpec \in Versions => PluginSpec \in cache
      BY <2>0, PathsAreApart DEF PluginSpec
    <3>4. Paths' \subseteq Paths \cup (Versions \cap {PluginSpec})
      BY <3>2
    <3> QED
      BY <1>0, <2>0, <3>3, <3>4 DEF CacheInv
  <2> QED
    BY <1>2, <2>1, <2>2 DEF Reconcile
<1>3. CASE BackUp
  <2>1. /\ pc = "swap" /\ UNCHANGED <<opencodeFile, torn, version>>
        /\ \/ /\ backup' = (backup \ {version}) \cup (cache \cap {version})
              /\ cache' = cache \ {version} /\ pc' = "swapped"
           \/ UNCHANGED cache /\ pc' = "idle"
    BY <1>3, FailEnds DEF BackUp
  <2> QED
    BY <1>0, <2>1 DEF CacheInv
<1>4. CASE Replace
  <2>1. /\ pc' # "swapped" /\ UNCHANGED opencodeFile
        /\ cache' = cache \cup {version} /\ torn' = torn \ {version}
    BY <1>4 DEF Replace, AfterFetch
  <2> QED
    BY <1>0, <2>1 DEF CacheInv
<1>5. CASE ReplaceFails
  <2>1. /\ pc' # "swapped" /\ UNCHANGED opencodeFile
        /\ \/ cache' = cache \cup (backup \cap {version}) /\ UNCHANGED torn
           \/ torn' = torn \cup {version} /\ UNCHANGED cache
    BY <1>5, FailEnds DEF ReplaceFails, CacheAfterFailedSwap
  <2> QED
    BY <1>0, <2>1 DEF CacheInv
<1>6. CASE Kill
  <2>1. /\ pc' # "swapped" /\ UNCHANGED <<opencodeFile, cache>>
        /\ torn' = IF pc = "swapped" THEN torn \cup {version} ELSE torn
    BY <1>6 DEF Kill
  <2> QED
    BY <1>0, <2>1 DEF CacheInv
<1>7. CASE /\ UNCHANGED <<opencodeFile, cache, torn>>
           /\ pc # "swapped" /\ pc' # "swapped"
  BY <1>0, <1>7 DEF CacheInv
<1> QED
  BY <1>1, <1>2, <1>3, <1>4, <1>5, <1>6, <1>7, FailEnds
  DEF Next, Run, ResolveContext, Preflight, EnsureRegistry, Uninstall, Fetch,
      Verify, Authorize, Authorized, Configure, Confirm, filesUnchanged, cliVars

-----------------------------------------------------------------------------
(* The stages. *)

\* A command that ends without success leaves nothing to keep.
LEMMA EndedStages ==
  ASSUME pc' = "idle", result' \in {"failed", "cancelled", "killed"}
  PROVE  StagesInv'
  BY DEF StagesInv, AfterRegistry

LEMMA NextStagesInv ==
  ASSUME CliInv, Next
  PROVE  StagesInv'
<1> USE DEF Goto
<1>0. /\ StagesInv /\ TypeInv /\ version \in Versions
      /\ command \in Commands /\ command.host \in Hosts
      /\ opencodeFile \in OpencodeFiles /\ bridgeFile \in BridgeFiles
  BY DEF CliInv, TypeInv, TypeOK, Commands
<1>1. CASE Fail
  BY <1>1, FailEnds, EndedStages
<1>2. CASE Kill
  BY <1>2, EndedStages DEF Kill
<1>3. CASE Run
  BY <1>3 DEF Run, StagesInv, AfterRegistry
<1>4. CASE ResolveContext
  BY <1>0, <1>4 DEF ResolveContext, StagesInv, AfterRegistry
<1>5. CASE Preflight /\ ~Fail
  BY <1>0, <1>5 DEF Preflight, StagesInv, AfterRegistry
<1>6. CASE EnsureRegistry
  BY <1>0, <1>6 DEF EnsureRegistry, StagesInv, AfterRegistry
<1>7. CASE Uninstall /\ ~Fail
  BY <1>0, <1>7 DEF Uninstall, StagesInv, AfterRegistry
<1>8. CASE HostInstalls /\ ~Fail
  <2>1. /\ pc = "install" /\ UNCHANGED <<result, npmrc, registry, command>>
        /\ \/ command.host = "openclaw" /\ pc' = "verify"
           \/ command.host = "opencode" /\ pc' = "reconcile"
    BY <1>0, <1>8 DEF HostInstalls, Hosts
  <2> QED
    BY <1>0, <2>1 DEF StagesInv, AfterRegistry
<1>9. CASE Fetch /\ ~Fail
  BY <1>0, <1>9 DEF Fetch, filesUnchanged, StagesInv, AfterRegistry
<1>10. CASE BackUp /\ ~Fail
  BY <1>0, <1>10 DEF BackUp, StagesInv, AfterRegistry
<1>11. CASE Replace
  <2>1. /\ pc = "swapped" /\ UNCHANGED <<result, npmrc, registry, command>>
        /\ version' \in cache'
        /\ \/ command.host = "openclaw" /\ pc' = "install"
           \/ command.host = "opencode" /\ pc' = "reconcile"
    BY <1>0, <1>11 DEF Replace, AfterFetch, Hosts
  <2> QED
    BY <1>0, <2>1 DEF StagesInv, AfterRegistry
<1>12. CASE Reconcile /\ ~Fail
  <2>1. /\ pc = "reconcile" /\ pc' = "verify"
        /\ UNCHANGED <<result, npmrc, registry, command, version, installed>>
        /\ opencodeFile' = OpencodeConfig(opencodeFile, PluginSpec)
        /\ opencodeFile.layout # "other"
        /\ command.host = "opencode"
    BY <1>0, <1>12 DEF Reconcile, StagesInv
  <2>2. PluginSpec \in Versions \cup {NpmSpec} /\ PluginSpec # Foreign
    BY <1>0, PathsAreApart DEF PluginSpec, NpmSpec, Foreign
  <2>3. \/ opencodeFile'.items = (opencodeFile.items \cap {Foreign}) \cup {PluginSpec}
        \/ opencodeFile'.items = {}
    BY <1>0, <2>1, <2>2, OpencodeEdit
  <2>4. PluginSpec' = PluginSpec
    BY <2>1 DEF PluginSpec
  <2>5. PluginIsWhole' \/ opencodeFile'.items = {}
    BY <2>1, <2>2, <2>3, <2>4 DEF PluginIsWhole
  <2> QED
    BY <1>0, <2>1, <2>5 DEF StagesInv, AfterRegistry
<1>13. CASE Verify /\ ~Fail
  <2>1. /\ pc = "verify" /\ pc' = "auth"
        /\ UNCHANGED <<result, npmrc, registry, command, version, installed,
                       opencodeFile>>
        /\ PluginIsThere
    BY <1>13 DEF Verify, filesUnchanged
  <2>2. PluginIsWhole
    BY <1>0, <2>1 DEF StagesInv, PluginIsThere, PluginIsWhole
  <2>3. PluginIsWhole'
    BY <2>1, <2>2 DEF PluginIsWhole, PluginSpec
  <2> QED
    BY <1>0, <2>1, <2>3 DEF StagesInv, AfterRegistry
<1> DEFINE Kept == UNCHANGED <<npmrc, registry, command, version, installed,
                               opencodeFile>>
<1>k. PluginIsWhole /\ Kept => PluginIsWhole'
  BY DEF PluginIsWhole, PluginSpec
<1>14. CASE Authorize
  <2>1. /\ pc = "auth" /\ UNCHANGED <<pc, result>> /\ Kept
    BY <1>14 DEF Authorize, cliVars
  <2> QED
    BY <1>0, <1>k, <2>1 DEF StagesInv, AfterRegistry
<1>15. CASE Authorized /\ ~Fail
  <2>1. /\ pc = "auth" /\ pc' = "configure" /\ UNCHANGED result /\ Kept
        /\ <<"confirmed", credentials'>> \in endings'
    BY <1>15 DEF Authorized, filesUnchanged
  <2> QED
    BY <1>0, <1>k, <2>1 DEF StagesInv, AfterRegistry
<1>16. CASE Configure /\ ~Fail
  <2>1. /\ pc = "configure" /\ pc' = "confirm" /\ UNCHANGED result /\ Kept
        /\ UNCHANGED <<endings, credentials>>
    BY <1>16 DEF Configure, qrVars
  <2>2. IF command.host = "openclaw" THEN channelKeys' = credentials
        ELSE TakesCredentials(bridgeFile') => bridgeFile'.credentials = credentials
    <3>1. CASE command.host = "openclaw"
      BY <1>16, <3>1 DEF Configure
    <3>2. CASE command.host # "openclaw"
      <4>1. bridgeFile' = BridgeConfig(bridgeFile, credentials)
        BY <1>16, <3>2 DEF Configure
      <4> QED
        BY <1>0, <3>2, <4>1, BridgeEdit DEF TypeInv, TypeOK
    <3> QED
      BY <3>1, <3>2
  <2> QED
    BY <1>0, <1>k, <2>1, <2>2 DEF StagesInv, AfterRegistry
<1>17. CASE Confirm /\ ~Fail
  <2>1. /\ pc = "confirm" /\ pc' = "idle" /\ Kept
        /\ UNCHANGED <<endings, credentials, bridgeFile, channelKeys>>
    BY <1>17 DEF Confirm, filesUnchanged, qrVars
  <2> QED
    BY <1>0, <1>k, <2>1 DEF StagesInv, AfterRegistry
<1> QED
  BY <1>1, <1>2, <1>3, <1>4, <1>5, <1>6, <1>7, <1>8, <1>9, <1>10, <1>11,
     <1>12, <1>13, <1>14, <1>15, <1>16, <1>17
  DEF Next, ReplaceFails

-----------------------------------------------------------------------------
(* The invariant, and what it says. *)

LEMMA InitCliInv == Init => CliInv
<1> SUFFICES ASSUME Init PROVE CliInv
  OBVIOUS
<1>1. QrInv
  BY QrPolicy DEF Init, QrInit, QrInv
<1>2. command \in Commands
  <2>1. [host |-> "opencode", strategy |-> "fallback", registry |-> NoRegistry]
          \in Commands
    BY DEF Commands, Hosts, Strategies
  <2> QED
    BY <2>1 DEF Init
<1>3. version \in Versions
  BY PathsAreApart DEF Init
<1>4. /\ opencodeFile \in OpencodeFiles /\ ListKnown(opencodeFile)
      /\ bridgeFile \in BridgeFiles
  <2>1. /\ opencodeFile \in
              [layout : Layouts, items : {{}, {Foreign}}, listed : BOOLEAN]
        /\ opencodeFile.items # {} => opencodeFile.listed
        /\ opencodeFile.listed => opencodeFile.layout \in {"block", "inline"}
        /\ bridgeFile \in
              [layout : Layouts, auth : AuthForms, credentials : {NoCredentials}]
    BY DEF Init
  <2>2. opencodeFile \in OpencodeFiles
    BY <2>1, KnownLayouts DEF OpencodeFiles
  <2>3. bridgeFile \in BridgeFiles
    BY <2>1, KnownLayouts DEF BridgeFiles
  <2> QED
    BY <2>1, <2>2, <2>3 DEF ListKnown
<1>5. TypeOK
  BY <1>2, <1>3, <1>4, CommandsAreBounded
  DEF Init, TypeOK, Pcs, OpencodeFiles, BridgeFiles
<1>6. opencodeFile.items \cap Versions = {}
  BY PathsAreApart DEF Init
<1> QED
  BY <1>1, <1>4, <1>5, <1>6
  DEF Init, CliInv, TypeInv, CacheInv, StagesInv, AfterRegistry

LEMMA NextCliInv == CliInv /\ [Next]_vars => CliInv'
<1>1. CliInv /\ Next => CliInv'
  BY NextQrInv, NextTypeInv, NextCacheInv, NextStagesInv DEF CliInv
<1>2. CliInv /\ UNCHANGED vars => CliInv'
  BY DEF vars, qrVars, cliVars, CliInv, QrInv, TypeInv, TypeOK, CacheInv,
         StagesInv, PluginIsWhole, PluginSpec
<1> QED
  BY <1>1, <1>2

LEMMA CliInvariant == Spec => []CliInv
  BY InitCliInv, NextCliInv, PTL DEF Spec

\* The files, the cache and the stage of a command are what the use case
\* takes them for.
THEOREM TypeCorrect == Spec => []TypeOK
<1>1. CliInv => TypeOK
  BY DEF CliInv, TypeInv
<1> QED
  BY <1>1, CliInvariant, PTL

\* QrCodeAuthSessionController reports one ending of an authorization,
\* whatever the service answers and however often the code expires.
THEOREM AuthorizationEndsOnce == Spec => []OneEnding
<1>1. CliInv => OneEnding
  BY QrInvGivesOneEnding DEF CliInv
<1> QED
  BY <1>1, CliInvariant, PTL

\* What opencode.json lists of the cache is there, unless a replacement of
\* that very version was cut short: NpmPluginArtifactAdapter keeps a backup
\* while it replaces a package, and puts it back.
THEOREM ListedPackagesAreThere == Spec => []ListedIsThere
<1>1. CliInv => ListedIsThere
  BY DEF CliInv, CacheInv, ListedIsThere
<1> QED
  BY <1>1, CliInvariant, PTL

\* A command that says it succeeded left the registry, one reference to the
\* plugin and the confirmed credentials behind, whatever the commands before
\* it left and wherever they were killed: the credentials in openclaw's
\* channel, or in the bridge's file when that has a layout in which
\* buildNextBridgeConfig() reaches them.
THEOREM SuccessMeansComplete == Spec => []SuccessIsComplete
<1>1. CliInv => SuccessIsComplete
  BY DEF CliInv, StagesInv, PluginIsWhole, SuccessIsComplete
<1> QED
  BY <1>1, CliInvariant, PTL
=============================================================================
