# agent-plugin: a TLA+ model

Specifications of this repository's running parts, TLC configurations that check
them on small instances, and proofs that TLAPS checks for every instance. Paths
are relative to `src/`. Definitions keep the source's names where TLA+ allows it;
`PROJECT.json` maps each to its lines, and lists every component with its status
and the hazards of the code with the properties that watch them.

## 1. The system

The plugins connect an agent host (OpenCode, OpenClaw) to a gateway. A chat goes
gateway -> `gateway-client` -> `bridge-runtime-sdk` -> provider adapter of the
plugin -> host, and what the host says goes back the same way as *facts*. All of
it is JavaScript: one callback at a time, interleaved at every `await`.

| Component | State it keeps | Operations | Interacts through |
|---|---|---|---|
| `packages/gateway-client` | status, generation, session id, active attempt, socket, reconnect timer and window, heartbeat | `connect`, `disconnect`, abort signal, socket events, timers, sends | WebSocket events in; status events and decoded messages out |
| its reconnect policy | attempt, start of the window, time suspended | `scheduleNextAttempt`, `startWindow`, `reset`, drift correction | called by `ReconnectOrchestrator` |
| `bridge-runtime-sdk`, lifecycle | state, tokens of the start and of the stop in flight, their promises, current client | `start`, `stop`, status reports | one gateway client per start; the provider |
| `bridge-runtime-sdk`, sessions | active runs and outbound lock of a session, pending interactions, shown permissions, state of each fact stream | chat, close, abort, replies, emissions | commands of the gateway; facts and results of the provider |
| `bridge-runtime-sdk`, stateless commands, projection, observation, probe | none that outlives a call | `create_session`, `status_query`, `query_slash_commands`, mappings, `probe` | |
| `packages/gateway-schema` | none | validation and normalisation of messages | |
| `packages/skill-qrcode-auth` | one polling session | start, refresh, poll, cancel | HTTP |
| `packages/skill-plugin-cli` | files of the host | install, step by step | processes, files |
| `plugins/message-bridge`, runs of a host session | queue of runs, queue of prompts, the end and the timers of each run, message states, pending interactions, known sessions | chat, events, prompt answers, timers, replies, abort, close | OpenCode's client and event hook |
| `plugins/message-bridge`, chat control plane | bindings of chats to sessions, owners of sessions, owned sessions (a file) | chat, slash commands, create, close, host events | OpenCode, files |
| `plugins/message-bridge`, plugin runtime | singleton, initializations, published status | load, start, stop | the SDK |
| `plugins/message-bridge-openclaw`, provider adapter | records and keys of its runs, their streams | chat, abort, close, host events | OpenClaw |
| `plugins/message-bridge-openclaw`, account | bridge, coordinator of connections, status | start, stop, probe | the SDK, OpenClaw |
| configuration of both plugins | none | resolve, validate, set up | files, environment |

What makes each hard, and what makes it right:

* **Gateway client.** Five sources of callbacks (host, socket, handshake timer,
  reconnect timer, the microtask after a failed attempt), sockets whose events
  arrive after they were given up, and a `disconnect()` that must win over all of
  them. Right means: READY is one handshaken connection end to end, no socket is
  out of reach, automatic recovery neither stops silently nor starts unasked, a
  connect settles.
* **Reconnect policy.** The budget is 40 minutes of *awake* time, measured by a
  clock that also runs while the machine sleeps.
* **Runtime lifecycle.** `start()` and `stop()` are chains of awaits that overtake
  and wait for each other, while the client's reports arrive in between. Right
  means: stop wins, leaves nothing behind, and neither waits for ever.
* **Sessions of the SDK.** Runs, emissions, replies, closes of one session
  interleave at every fact. Right means: what is registered is what is in flight,
  one terminal message per chat, a shown card can be answered, locks come free.
* **Runs of a host session (OpenCode).** Events name a session, not a run; the
  plugin guesses the run by position in a queue, after lookups, while prompts are
  aborted, time out or never return. Right means: one prompt at a time, events go
  to the run they belong to and in order, every run ends.
* **Runs of OpenClaw.** A run is found by a key that changes when the host routes
  the session, in a map whose entry belongs to whoever wrote it last.
* **Chat control plane.** What was read from the file or asked of the host is
  stale when it is used; who may see a session is decided by the absence of a
  record that is being written.
* **Plugin runtime, account.** One connection per plugin or account, with starts,
  stops and probes that each wait for the others at several awaits.
* **QR code, CLI.** Steps that fail or are killed half-way and are run again over
  what they left; files edited as text.
* **Schemas, mappings, configuration.** Pure, but the composition counts: what one
  stage lets through the next may refuse, and then a question, an answer or an
  error disappears without a word.

## 2. The modules

```
GatewayContract  <- implemented by -  GatewayClient  <- MCGatewayClient (with FrameRules)
      ^ relied on by
RuntimeLifecycle <- MCRuntimeLifecycle        ReconnectPolicy (the window, by a clock)
      ^ as the bridge sees it
AccountConnection <- MCAccountConnection (with StatusRules)      PluginRuntime
SessionRuntime   <- MCSessionRuntime          (the sessions of a runtime that is up)
      ^ relies on
ProviderRun      <- implemented by -  OpenClawRuns <- MCOpenClawRuns
      ^ implemented by
HostSessionRuns  <- MCHostSessionRuns <- FactChecks (Facts, Wire)
ChatSessions     <- MCChatSessions    <- HostChecks (HostRules, ChatRules)
QrCodeAuth <- InstallCli <- MCInstallCli (with Settings)
<M>Proofs extends M, for six of them; ConnectionProofs extends ReconnectPolicy and
AccountConnection, MessageBridgeProofs extends HostSessionRuns and PluginRuntime
```

In every state machine a step is what runs without interruption: a callback, or
the code from one `await` to the next. Definitions called slips are wrong variants
of the definition that follows them; no action uses them. Replacing the definition
by its slip must violate the property `PROJECT.json` pairs it with, which shows
that the property depends on that line of the code.

### State machines

**GatewayClient.** `status`, `reason`, `generation`, ... are the fields of
`GatewayLifecycleState`; `activeAttempt`, `phase`, `promise`, `handshakeTimer` are
`ConnectSession` and its attempts, `socket` and `net` the transport and the
sockets (also those it has forgotten), `timer`, `elapsed`, `reconnecting` the
orchestrator, policy window and the attempt it awaits. An attempt opens at most
one socket, so both are named by the session id. Actions: `HostConnect`,
`HostDisconnect`, `HostAbort`, the socket events `HandleOpen`,
`HandleHandshakeFrame`, `HandleClose`, `HandshakeTimeout`, `ReconnectTimer`,
`ReconnectContinue` and the clock. Frames are reduced to what they do to a
connection; FrameRules has the rest. `onerror` only records the error that a later
close reports. Listeners that re-enter the client from a status event are not
modelled: those of this repository only record.

**GatewayContract.** The status a client reports and the cause of a closed one,
as a state machine: a first attempt is never retried, only READY opens a window, a
window ends. `RuntimeLifecycle`'s clients move as it says.

**ReconnectPolicy.** The arithmetic of backoff, jitter, window and drift
against a clock, with `Sleep` steps in which only the clock moves. `awake` and
`sleeps` are history: what the policy tries to measure.

**RuntimeLifecycle.** `state` and the tokens are `RuntimeLifecycleState`;
`startPc` and `stopPc` say at which await `start()` and `stop()` of
`RuntimeLifecycleService` are, `waitingStarts` counts starts that await a stop.
`GatewayRuntimeDriver` is `currentClient`; each start makes a client, named by its
token. A client's report is handled in the step that makes it, as its listeners
are synchronous. `Hosts` are the ways a host may use it: any, or one that does not
start while reconnecting (careful).

**SessionRuntime.** A *flow* is one execution of a coordinator: a request run or
an emission. `pc`, `facts`, `result` say where it is and how its stream and its
`result()` settled; `openMessages`, `closedMessages` are its validator's state.
The registries are `activeRunIds`, `outbound`, `pending`, `presented`. The
provider may send any facts in any order, refuse, fail or reject; the gateway may
be away at any send. `terminals`, `card`, `detached`, `uncaught`, `muted` are
history: `uncaught` the runs whose report met a gateway that was away, `muted` those
whose error had nothing to report (`MayBeMute`: a blank message, a code that
`CommandFailureToolErrorProjector` keeps to itself, a failed result the sink drops).
`setting` is the policy and the flows that are used, chosen once. Abort and close
are modelled from the step in which the provider has applied them. Facts worth
knowing that the model shows and no document forbids: a run whose facts were
refused still waits for `result()`; the token of a reply is consumed before the
provider accepts it; closing a session detaches runs in flight and clears no
pending interaction; `forwardToProvider` gives no order of output across runs.

**ProviderRun.** What the SDK relies on when a provider accepts a chat: facts in
order, one result, after the last fact.

**OpenClawRuns.** `OpenClawProviderAdapter`: `sessionKey` is the session registry,
`active` and `byRunId` the maps that lead to a run, `key`, `stream`, `result` and the
flags the state of a run, `pc` the await of `runInBackground()` it is at. The host
dispatches, routes the session, streams output and ends at awaits of its own; with
a reply runtime and without. It implements ProviderRun with the refinement mapping
at its end. `detached`, `undermined`, `foreign` are history; a run is undermined from
the step in which an aborted run of its session is routed or ends beside it.

**HostSessionRuns.** `queue` is `ActiveRunRegistry`'s queue of the session,
`tasks` the one of `HostSessionRunCoordinator`. The sets of runs (`prompted`,
`taskDone`, `forced`, `closed`, `cleaned`) are the flags of
`ActiveProviderRunHandle`; `candidate`, `quiet`, `drain`, `idle` are
`FactDrainTracker` and its timers, without durations; `begun`, `done` the message
states; `pending` the interaction registry; `known` the cache of
`SubagentSessionMapper`. OpenCode is external: it holds `prompts`, writes
messages, asks, and publishes `events`. Its events are handled in two steps, as
the code does: `ResolveEvent` ends the awaits of `handleEvent()` and chooses the
run, `RouteEvent` translates and pushes a microtask later; `PromptReturns` and
`TaskFinishes` are separated in the same way. Native commands
(`OpenCodeProviderAdapter.command.ts`) go through the same steps as prompts.
`abortSession()` only asks OpenCode: the runs end when the prompt returns aborted.

**ChatSessions.** An *anchor* is a toolSessionId of the gateway. `binding` and
`owner` are the two in-memory stores, `owned` the file, `host` the sessions of
OpenCode, `task` the commands in progress (at which await, and what each has read).
A switch of binding and owner is one step, because awaits on memory alone finish
before anything else runs; host and file calls are steps of their own. `Corrupt`
loses the file, `Restart` empties the memory, `Undo` is the deletion after a failed
record. `maker`, `strayed` are history.

**PluginRuntime.** The module state of `runtime/singleton.ts`; `phase[c]` says at
which await or callback (then, catch, finally, the caller's) initialization `c` is.
`crossed` records that a cancelled initialization went on beside a newer one.

**AccountConnection.** `startAccount()`/`stopAccount()` of the OpenClaw channel, its
bridge, the coordinator and the status, the shared probe of the SDK with its
timeout and cancellation. `overwritten` and `unheeded` are history: the probes that
no cancellation reaches, because the coordinator holds a later one, or because they
asked a bridge before its runtime began, or outlived it. A start of the account makes
a new bridge and runtime, which know of no probes.

**QrCodeAuth, InstallCli.** The service's answers and the polling controller; an
installation stage by stage over `.npmrc`, the host's plugin list, the cache and the
configuration files, which a kill between any two steps leaves as they are. A file
is the layout that decides what a pattern edit does to it, and the bridge's file also
how its `auth` is written: not at all, as an object that ends on a line of its own, as
one on a single line with or without the keys, or as something else. InstallCli extends
QrCodeAuth: the installer runs the authorization.

### Rules: pure functions, and what TLC evaluates of them

These modules translate mappings. A value is told apart only as far as the code
does ("absent", "blank", "text", a wrong kind, ...); a message is a function from
field names. Their properties are ASSUMEs, which TLC evaluates before it starts the
run named here; each was seen to fail with a slip in the definition it is about.

| Module | Code | Evaluated by | What is evaluated |
|---|---|---|---|
| Wire | gateway-schema | FactChecks, in `host_fifo` | all schemas: normalising twice changes nothing, projections of tool events fit the schema, every kind is accepted |
| Facts | event translation, fact validation and projection, failures and answers | FactChecks | every well-formed event and every fact of the contract reaches the gateway; the fact validator agrees with the schema; ends are reported; answers find what asked for them |
| FrameRules | frames, gates, sends, telemetry, stateless commands | MCGatewayClient, in `gateway_host` | each frame is handled once and by the right handler, refused invocations are answered, retryable refusals go away, the log keeps the last three |
| HostRules | answers and errors of the OpenCode client, question tokens | HostChecks, in `chat_sessions` | prompt ends are shown, gone sessions recognised, replies can be given, the token index agrees with the registry |
| ChatRules | entries, slash commands, catalogue | HostChecks | groups see no sessions, every message goes somewhere, what is offered is allowed |
| Settings | configuration of both plugins, setup | MCInstallCli, in `cli_install` | precedence, completeness, no mixing of credentials, what setup writes the schema takes |
| StatusRules | published status, verdicts and issues | MCAccountConnection, in `openclaw_account` | statuses are well-formed, the right side is blamed, verdict and issues agree, rejections are not hidden |

Some of these ASSUMEs state where the code falls short of what a reader expects
(`QuestionsAreLostForBlanks`, `BlankTextsAreOffered`, `QuietLooksStuck`,
`SkippedProbesHideTheRuntime`, `GoneIsSeenByTheLookupOnly`, ...): they pin the
extent of it.

## 3. The runs

Where deadlock is not checked the cfg says so: sessions, clients, chats and messages
are named once and bounded, so those models come to a stop. `chat_sessions` checks it.

| Run | Shows | Bounds and why they are enough |
|---|---|---|
| `gateway_any` | any host, aborts, throwing sockets, racing microtasks: `ReadyIsHandshaken`, `NoOrphanSocket`, `TimerIsCurrent` | 4 sessions: a first, the one that superseded it, a recovery and its successor; 2 disconnects; a window of 2 ticks, delays 0 and 1 (within and at its end) |
| `gateway_host` | the host of the SDK: `ManualCloseSticks`, `ExhaustionSparesAttempts`, `ConnectSettles`, and the refinement `ImplementsContract` | as above with 1 disconnect |
| `policy_sleep` | `AwakeTimeCounts`, `SleepSparesTheWindow` | window 8, two sleeps, each shorter than, at or beyond the drift threshold and the window, which can add up |
| `runtime` | careful and careless hosts, connections that fail to close: `IdleHoldsNothing` (careful hosts), `StopIsNotOverruled`, `StopSettles`, `StartSettles` | 5 tokens: start, stop, and two restarts that overtake; gateways that answer, refuse or are silent for ever |
| `sessions` | `ActiveRunsAreInFlight`, `OneTerminalPerRun`, `CardsAreAnswerable`, `OutboundIsHeld`, `RunsComeFree` | under `reject`, two runs that contend for a session, or for a token from two sessions; under `forwardToProvider`, a run and two emissions of both kinds on one session, with a close between a late release and its successor |
| `host_fifo` | 2 chats, a subagent that asks, events that overtake: `HeadIsPrompted`, `FactsAreInOrder`, `RunsEnd` | a run and its successor; one message begun under the first and continued under the second; two events on the way can overtake; one part and one question per message |
| `openclaw_runs` | `RunIsReachable`, `NothingIsLeft`, `RunsSettle`, and the refinement `ImplementsProviderRun` | two runs of one session, one of which may come while the other is aborted; a provisional and a routed key. `RunIsReachable` says nothing of a run once an aborted one was routed or ended beside it |
| `openclaw_account` | `RivalsAreUnseen`, `StoppedAccountIsFree`, `ProbesAnswer`, `AccountsStop` | two probes that differ in their timeout, two starts |
| `chat_sessions` | `OwnerIsBoundHere`, `ControlledStaysHome`, `NoOrphans`, `RecordsOutlive` | an entry that sees native sessions and one that must not; two sessions and two commands in progress, so that each can use what the other has made stale; one fault. With two anchors of one entry (`a2` for `a3`) the same holds |
| `plugin_start` | `StopIsHeeded`, `ConnectionIsHeld`, `StopSticks`, `AbortedStartsEnd` | three initializations: a cancelled one, its successor, and one begun between its callbacks |
| `plugin_reload` | violates `NoSecondRuntime` | the same |
| `cli_install` | `OneEnding`, `ListedIsThere`, `SuccessIsComplete` | two commands, two versions, two codes with one refresh, every layout of a file and every form of its `auth`, kills between any two steps. `SuccessIsComplete` names the layouts in which it promises no credentials (`TakesCredentials`); the codes are symmetric |

`host_fifo` has the message in the session of the subagent, because its lookups
may also fail; the same invariants hold with a message of the session itself and a
permission in place of the question.

The type invariants are not among the runs' properties where they are proved
(section 4); the others hold on the same instances.

### Disagreements found

`plugin_reload` is a run of its own: the catch and finally clauses of an
initialization clear `runtime`, `initializing` and `initState` without testing their
token, so that the rejection of a cancelled initialization makes a newer one
invisible and a load begins a second runtime. The contract of the status API
says that a load never does.

The configurations below belong to no listed run; `tlc -config <cfg> <module>` ends
in the violation of the property they name.

* `GatewayClient_stale_window.cfg` (module GatewayClient, `ReadyNeverExhausts`): if
  the host connects while a reconnect timer is armed, the timer fires on the READY
  client and opens a window nothing ends (`ReconnectOrchestrator.ts:84`); the next
  close is answered with exhaustion, where the design
  (`docs/design/sdk-gateway-reconnect-solution.md:195`) grants it 40 minutes.
* `MCRuntimeLifecycle_silent.cfg` (`StartReportsFailure`): the refused registration
  fails the runtime through the status event, which clears the token of the start;
  `start()` is then fulfilled, where
  `app-subscription-version-gating-design.md:96` says it throws.
* `MCRuntimeLifecycle_leak.cfg` (`IdleHostHoldsNothing`): `start()` while
  reconnecting makes a second client; `stop()` closes only that one, where
  `third-party-agent-provider-v1.md:228` says it disconnects.
* `MCHostSessionRuns_abort.cfg` (`AbortedStayOut`): an event in transit when its run
  is aborted begins its message in the run queued after the abort, where
  `message-bridge-opencode-event-routing-run-fifo-abort-design.md:453` says that it
  does not enter a later run.
* `MCOpenClawRuns_late.cfg` (`OutputStaysHome`): the late output of an aborted run
  is added to the run that was accepted since.
* `MCOpenClawRuns_shared.cfg` (`RunIsReachable`): two sessions the host routes to one
  key overwrite each other's entry, and an abort of one finds the other or none.
* `MCAccountConnection_rivals.cfg` (`OneConnection`): a probe that the coordinator
  lost sight of connects beside the runtime, where
  `mb-p0-probe-runtime-connection-race.md` (principle 2) allows one connection.
  `RivalsAreUnseen` names the other probes that do (of a bridge before it starts its
  runtime, or of one whose start failed) and says that nothing else does.
* `MCChatSessions_design.cfg` with `-continue` (`EntriesAreApart`,
  `SwitchTakesOnlyItsOwn`): a session just made has no record yet and is shown to
  other entries as native; a switch deletes the owner of the old session whoever it
  is (`message-bridge-opencode-session-isolation-solution.md`, section 4.10).

Seen while modelling, without a run of their own:

* *Runtime lifecycle.* The clients of the production hosts have no handshake timeout
  (`createGatewayClientForHost.ts:129-136`). A start whose gateway accepts the socket
  and never answers waits for ever. A `stop()` after the `connect()` ends that, if
  the connection closes when told to; a `stop()` that comes while the start
  is still with the provider finds no client to disconnect
  (`RuntimeLifecycleService.ts:100-106`), waits for the start, and waits for ever with
  it. `StopSettles` and `StartSettles` name this outcome (`GatewayIsSilent`) and show
  that it is the only one.
* *Gateway client.* After `transport.open()` threw, `ConnectSession.ts:747` leaves
  the attempt active and a later `connect()` waits for ever (set `OpenMayThrow` in
  `MCGatewayClient_host.cfg`). An abort between two reconnect attempts leaves the
  status reconnecting. A host microtask that runs before the continuation of a failed
  attempt sees a `disconnect()` undone (`MicrotaskRace`). With the repository's
  schemas a handshake frame can never be invalid. An invocation whose ids are blank,
  or whose type is padded, is refused without an answer; one that names another outer
  `toolSessionId` is refused in the other's name.
* *SDK.* An error report that cannot be sent escapes from a promise nobody awaits.
  A chat that ends with an error whose message is blank or whose code is quiet
  (`CommandFailureToolErrorProjector.ts:46-49,65-70`) is never answered, although
  `2026-07-06-active-run-chat-policy-design.md:646` promises a `request_run_failed`
  for each rejected terminal; `OneTerminalPerRun` leaves those runs out by name.
  One nameless slash command takes the whole list, and one non-boolean `online` the
  status, without a word: the sink drops an invalid uplink. The answer to a failed
  `create_session` names nobody; a failed status query has no answer.
  `RuntimeTraceCollector` grows without bound and is copied at every status sync.
  A non-finite number in tool output passes the projection and fails the schema.
* *OpenClaw runs.* An aborted run that is routed or ends while a newer run of its
  session is in flight deletes or takes over the entry of the newer one
  (`OpenClawProviderAdapter.ts:1007-1011`): the abort of the newer run then finds none.
* *OpenCode runs.* The final idle timer is not cleared when the prompt settles and
  may fire in the drain period. A permission answered in OpenCode's own interface is
  never consumed, so the watchdog of its run stays off (`HeldByUser` in `RunsEnd`).
  The late aborted answer of a prompt that was given up aborts the runs queued since.
  `handleEvent()` drops the events of a subagent whose lookup fails. A blank question
  text or option label loses the whole question after its token was registered.
  `session.error` has no translator; an assistant error without a name counts as
  completed; a failed run with a blank message has no shown end.
* *Chat control plane.* The lookup before a prompt tells a gone session by the name
  of the error, the control plane by a code that the host's NotFoundError does not
  have; a native command never invalidates a binding. The "invalid session payload"
  check of `LegacyHostSessionGatewayAdapter` is unreachable. A host command named
  like a disabled local one is offered but refused, one with `/` in its name is sent
  as chat, one with a blank text is offered.
* *Plugin runtime.* A stop in the microtask gap before the continuation of
  `startRuntimeFromLoadedInput` leaves a stopped runtime installed; a restart while
  the old initialization is stuck leaks the newer connection.
* *CLI.* A `message-bridge.json` on one line, or one whose `auth` is `null`, never gets
  the credentials, and an `auth` that is empty on one line gets them outside of itself;
  the command succeeds all the same. A hollow file gets a comma too many, OpenClaw's old plugin is removed before the new one is
  fetched, a kill between the two renames leaves the listed path dangling, and a
  refresh that returns the same code hides its snapshot.
* *Configuration and status.* A section written as null or as a scalar erases the
  defaults below it, so a configuration without `gateway.url` passes validation.
  `BRIDGE_GATEWAY_CHANNEL` alone takes the file's credentials away; `BRIDGE_ENABLED`
  other than `true` switches the bridge off; `gateway.ping.intervalMs` is not
  validated; jsonc-parser never throws, so a torn file is loaded in part. Setup
  without `--url` writes a `gateway: {}` that the channel schema refuses. The pattern
  `/ak/` matches "handshake", so that rejected handshakes are shown as wrong keys;
  a quiet connection that beats is reported stuck; a skipped probe hides the
  runtime's last error.

### Fairness

* GatewayClient: a connecting socket comes up or fails (the operating system's
  timeout), armed timers fire, queued microtasks run, the clock advances. Nothing
  is assumed of the gateway: `ConnectSettles` therefore needs `handshakeTimeoutMs`
  (`HandshakeTimer`), which the production hosts do not configure; without it a
  gateway that accepts the socket and never answers leaves `connect()` pending.
* RuntimeLifecycle: the provider settles what it is asked for, and microtasks run.
  Nothing is assumed of the gateway or its clients: without a handshake timeout a
  client need not settle its first attempt.
* SessionRuntime: a provider settles what it began (answers the chat, ends its
  streams, settles `result()`), at any length. A provider that never ends a stream
  holds its session: nothing in the code would release it.
* HostSessionRuns: the event loop does not stop while a continuation, a timer or
  a lookup is due. Nothing is assumed of prompts, users or chats; `RunsEnd`
  excludes by name the two situations that the code lets last: a question nobody
  answers, and an aborted prompt that does not return
  (`OpenCodeProviderAdapter.run.ts:241`). OpenCode writes a bounded number of
  parts: one that writes for ever keeps its run alive, by design.
* OpenClawRuns: the host ends what it was handed, because `runTimeoutMs` is passed on
  with every dispatch and every wait.
* AccountConnection: settled promises run their callbacks and timers fire; nothing
  of the gateway or the host.
* PluginRuntime: microtasks run, a file is read, the host answers its health call;
  nothing of the SDK's `start()`.

## 4. The proofs

Eight proof modules, each an inductive invariant with one lemma per action, `Init`,
the step, and a temporal theorem at the end. Assumed are the named `ASSUME`s of the
modules (bounds are natural numbers, options Booleans, names distinct), and where
said a hypothesis that stands in the theorem itself.

* **GatewayClientProofs**, for every number of sessions, every budget and any host:
  `TypeCorrect`, `AttemptsAgree` (`AttemptInv`), `ReadyIsOneConnection`,
  `SocketsAreReachable`, `TimersAreCurrent`. None of the three properties is
  inductive alone. That a READY session is on an open socket depends on events of
  other attempts being ignored (`CurrentSession`), which depends on the active
  attempt and the active session being the same (`AttemptIsSession`), on live sockets
  having an owner (`LiveSocketHasOwner`), and on no continuation or window being left
  when a session becomes READY (`ReadySession`). `AttemptInv` is their conjunction.
  Its second part: every step of the client is a step of `GatewayContract`
  or a stutter (the safety part of the refinement; its fairness is TLC's), with
  `RecoveryStartsFromReady`, `ReadyHasItsBudget`, `ExhaustionIsBetweenAttempts`,
  `DisconnectSticks`. Hypothesis `ContractHost`: the host connects only a closed or
  connecting client, no microtask runs ahead of the client's own, every delay is
  shorter than the window. `ReadyHasItsBudget` is what
  `GatewayClient_stale_window.cfg` violates for a host outside of it.
  Its third part is about the operators of `Wire` alone: every reader takes its own
  result unchanged, so parsing with any schema is idempotent. That the schemas of
  the repository are schemas in its sense is `SchemasAreWellFormed`, which TLC
  evaluates.
* **ConnectionProofs**, first part (ReconnectPolicy): the policy never deducts time awake, a window is not
  spent on sleep (`SleepSparesTheWindow`), and the sleep accounted for fits it. Hypothesis `PowersOfTwo`
  (`2 ^ n` is a natural number), which would need an induction. The invariant
  (`PolicyInv`) relates the time awake, the time deducted and the start of the
  window, and says that the machine is awake only until an armed timer is due. The
  other direction rests on `SleepIsPaid`: what the window counts is at most the time
  awake and a delay and a drift threshold for each sleep, one of which an armed timer
  may still owe (`SleepCost`); it assumes that the machine sleeps only while a timer
  is armed (`SleepIn`), as in the run.
  Second part (AccountConnection), for any number of probes, starts and timeouts:
  `RivalsAreUnseen`, `StoppedAccountIsFree` and types. `AccountInv`: the registered
  bridge is the one that runs, and stops for one caller (`BridgeInv`); a runtime
  online belongs to a bridge that runs or was just asked to stop (`RuntimeInv`);
  probes that share a connection are where its first is (`SharedInv`); each open
  connection is known to the coordinator, to its bridge or to nobody any more, and a
  running bridge has cancelled the coordinator's (`KnownInv`).
* **RuntimeLifecycleProofs**: a token that is active belongs to the newest operation
  of its kind, which is in flight; hence `StopIsNotOverruled` for every bound and
  every host, and `TypeCorrect`. `IdleHoldsNothing`, which is about hosts that are
  careful, follows from `HeldInv`: each stage of a stop has let go of what the stages
  before it release (`StopLetsGo`), a live client is the one that is observed
  (`LiveIsObserved`), and a runtime that is neither idle nor up has an operation in
  flight that will see to it (`StateIsInFlight`).
* **SessionRuntimeProofs**: types, `ActiveRunsAreInFlight`, `OutboundIsHeld`,
  `OneTerminalPerRun`, `CardsAreAnswerable`, for both policies and any number of
  sessions, flows and tokens. `OneTerminalPerRun` is exact: no run is reported twice or
  early, and one that is over is reported unless its report met a gateway that was away
  or there was nothing to report. `RegistryInv` has to know for each phase of a flow which
  registrations it may hold, because releases come after closes and successors.
* **OpenClawRunsProofs**: `RunsInv`, `NothingIsLeft`, the whole refinement of
  `ProviderRun` for any number of runs, and `RunIsReachable` (for runs that are not
  undermined) under `KeysAreApart` (no two sessions share a key), which `MCOpenClawRuns_shared.cfg` shows to be needed.
* **MessageBridgeProofs**, first part (HostSessionRuns), for any number of runs,
  messages, questions and events on their way: `HeadIsPrompted`, `FactsAreInOrder`,
  types, and `OnePromptAtATime`, a consequence no run checks: of the runs that have
  been prompted all but the coordinator's first are over. `SessionInv` has four parts
  and a fifth. `OrderInv`: the registry's queue is the end of the coordinator's, in the
  same order, although the two are emptied by different code. `StartedInv`: timers,
  prompts and facts belong to prompted runs. `EndInv`: what is given up is closed, what
  is queued has not both a result and its prompt behind it, and what the coordinator has
  dropped is over; it makes the late cleanup of a run find that run in front or not at
  all. `StoreInv` holds until a run is cut off: the shared message store is then the
  store of the run in front, told by told, because a run leaves the queue only by a
  cleanup with no event on its way (`Idling`), and every message in the store is of a
  session that run has observed. That a message is never told out of order is then one
  lemma about a single event (`ToldAsStored`). With both, every run of a session is a
  `ProviderRun` (`Contract`, proved for every instance; no run checks it): what the SDK
  relies on is kept on the paths of an answer, an error, an abort, a close and a
  timeout alike.
  `NoSessionIsStuck` is what `RunsEnd` rests on besides fairness: while the first run
  is not over, a timer of it is armed, or its user has been asked, or it was given up
  and its prompt has yet to return (`SomebodyActs`). `WatchInv` says so of every
  prompted run, and needs `AskInv`: a question is on its way at most once and then
  nobody has it pending, so that the event that stops a watchdog leaves a question
  behind that can be answered.
  Second part (PluginRuntime): `StopIsHeeded`, `ConnectionIsHeld`, `StopSticks` for any
  number of initializations. Its invariant is `Uncrossed == crossed \/ PluginInv`:
  the properties except crossed initializations themselves, which is what
  `plugin_reload` is about.
* **ChatSessionsProofs**, for any number of tasks, chats, entries and sessions:
  `OwnerIsBoundHere`, `ControlledStaysHome`, `NoOrphans` and the action property
  `RecordsOutlive`. The invariant `ChatInv` says besides what a task knows at each
  place it can wait (`TasksKnow`: whose session it holds, what it read of a binding
  that may have moved since) and that a record names the entry its session was made
  for (`RecordsAreTrue`).
* **InstallCliProofs**, for any number of commands, versions, registries and codes:
  `TypeCorrect`, `OneEnding`, `ListedIsThere`, `SuccessIsComplete`. `CacheInv`: while
  a package is being replaced its backup stands in for it. `StagesInv`: what the
  stages passed so far have established, which must survive the commands that were
  killed before; the credentials are part of it only for the files that
  `TakesCredentials`. `QrInv`: an authorization in progress has reported no ending. Its
  assumption `PathsAreApart`: a version is not the name of the package, nor
  somebody else's plugin. `TypeInv` has to know that a list of plugins is never in a
  file that is absent or hollow: the conditions of `buildNextOpencodeConfig()`
  exclude one another only then.

Only model-checked: liveness and everything under fairness (`RunsEnd` and the other
leads-to properties, the fairness of `GatewayContract` and `ProviderRun`), which these
provers cannot express (of `RunsEnd` the safety half is proved, `NoSessionIsStuck`);
and the ASSUMEs of the rules, which are statements about
bounded sets of inputs. Every state invariant of a passing run has a theorem.

## 5. Not modelled

* The formatting of logs, traces and error texts, and what a dialogue looks like.
* Durations: timers fire at any time while armed, except in `ReconnectPolicy`. What
  depends on two timeouts being in order is therefore not claimed.
* Listeners that re-enter the gateway client from a status event.
* Files byte by byte: a file is its layout (CLI), its tree (Settings) or its records
  (owned sessions). Two processes that write the owned sessions at once: the lock
  inside a process is modelled, and nothing in the code sees another process.
* The time between the look at the native sessions of an entry and the switch to one
  (`ResolveEntrySessionContextUseCase.ts:60-66`): `Visible` is evaluated in the step
  of the switch. A `runtime.stop()` that rejects, in an OpenClaw account.
* Agent names of subagents; the approval ports of the OpenClaw plugin, which are not
  connected to its adapter; commands of the hosts that only print.
* A composition of `SessionRuntime` with the adapters in one state space: the contract
  between them, `ProviderRun`, is implemented by `OpenClawRuns` and `HostSessionRuns`,
  and `SessionRuntime` is checked with a provider that keeps less than it.
* `scripts/`, `packages/test-support`, `integration/`: not part of the running program.
