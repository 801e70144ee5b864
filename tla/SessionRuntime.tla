--------------------------- MODULE SessionRuntime ---------------------------
(***************************************************************************)
(* The tool sessions of a bridge runtime: the use cases that the gateway's *)
(* commands reach, RequestRunCoordinator and OutboundCoordinator with      *)
(* their fact streams, and the three in-memory registries they share.      *)
(*                                                                         *)
(* A flow is one execution of a coordinator: a request run that a chat     *)
(* started, or an emission of the provider.  Flows interleave at their     *)
(* awaits: the provider's answer to the chat, the next fact, the result.   *)
(* The provider is any provider: it may send facts in any order.           *)
(***************************************************************************)
EXTENDS Naturals, FiniteSets

CONSTANTS
  Sessions,       \* tool sessions
  Runs,           \* request runs: one fresh runId per chat
  Outbounds,      \* emitOutboundMessage calls, named by their messageId
  OutboundRuns,   \* emitOutboundRun calls, named by their runId
  Messages,       \* message ids
  Questions, Permissions,   \* the globally unique reply targets
  Settings,       \* activeRunChatPolicy, and who takes part
  None

Emissions == Outbounds \cup OutboundRuns
Flows == Runs \cup Emissions
Tokens == Questions \cup Permissions

ASSUME FlowsAreDistinct ==
  /\ Runs \cap Emissions = {} /\ Outbounds \cap OutboundRuns = {}
  /\ Questions \cap Permissions = {}
ASSUME NoneIsNothing == None \notin Flows \cup Sessions
ASSUME SettingsAreKnown ==
  Settings \subseteq
    [policy : {"reject", "forwardToProvider"}, sessions : SUBSET Sessions,
     flows : SUBSET Flows, tokens : SUBSET Tokens]

VARIABLES
  \* InMemorySessionRuntimeRegistry: a missing record reads as an idle one
  activeRunIds, outbound,
  \* InMemoryPendingInteractionRegistry: the session a reply is routed to
  pending,
  \* InMemoryPermissionPresentationRegistry
  presented,
  \* each flow: its session, its place, how its facts and result() settled,
  \* and the messages its FactSequenceValidator state has seen
  session, pc, facts, result, openMessages, closedMessages,
  \* the gateway client is READY: sink.send() goes through, else it throws
  ready,
  \* history: terminal messages sent for a flow, the session whose card for a
  \* token the gateway holds unanswered, the flows in flight whose session was
  \* closed meanwhile, the runs whose last error nothing caught, and those
  \* whose error or failed result had no text to send
  terminals, card, detached, uncaught, muted,
  \* what the runtime was assembled with, and who takes part
  setting

registryVars == <<activeRunIds, outbound, pending, presented>>
streamVars == <<openMessages, closedMessages>>
historyVars == <<terminals, card, detached, uncaught, muted>>
vars == <<registryVars, session, pc, facts, result, streamVars, ready,
          historyVars, setting>>

Pcs == {"unused", "starting", "running", "ended"}
\* A result that is "rejected" may also be a failed one: both become an error.
FactOutcomes == {"open", "done", "invalid", "failed", "unsent"}
Results == {"pending", "settled", "rejected"}

InFlight(f) == pc[f] \in {"starting", "running"}

TypeOK ==
  /\ activeRunIds \in [Sessions -> SUBSET Runs]
  /\ outbound \in [Sessions -> Emissions \cup {None}]
  /\ pending \in [Tokens -> Sessions \cup {None}]
  /\ presented \subseteq Sessions \X Permissions
  /\ pc \in [Flows -> Pcs]
  /\ session \in [Flows -> Sessions \cup {None}]
  /\ \A f \in Flows : InFlight(f) <=> session[f] # None
  /\ facts \in [Flows -> FactOutcomes]
  /\ result \in [Runs -> Results]
  /\ openMessages \in [Flows -> SUBSET Messages]
  /\ closedMessages \in [Flows -> SUBSET Messages]
  /\ ready \in BOOLEAN
  /\ terminals \in [Flows -> Nat]
  /\ card \in [Tokens -> Sessions \cup {None}]
  /\ detached \subseteq Flows
  /\ uncaught \subseteq Runs /\ muted \subseteq Runs
  /\ setting \in Settings

Init ==
  /\ activeRunIds = [s \in Sessions |-> {}]
  /\ outbound = [s \in Sessions |-> None]
  /\ pending = [t \in Tokens |-> None]
  /\ presented = {}
  /\ session = [f \in Flows |-> None]
  /\ pc = [f \in Flows |-> "unused"]
  /\ facts = [f \in Flows |-> "open"]
  /\ result = [r \in Runs |-> "pending"]
  /\ openMessages = [f \in Flows |-> {}]
  /\ closedMessages = [f \in Flows |-> {}]
  /\ ready = TRUE
  /\ terminals = [f \in Flows |-> 0]
  /\ card = [t \in Tokens |-> None]
  /\ detached = {}
  /\ uncaught = {} /\ muted = {}
  /\ setting \in Settings

-----------------------------------------------------------------------------
\* A flow ends: what its coordinator kept for it goes with it.
EndFlow(f) ==
  /\ pc' = [pc EXCEPT ![f] = "ended"]
  /\ session' = [session EXCEPT ![f] = None]
  /\ detached' = detached \ {f}
  /\ facts' = [facts EXCEPT ![f] = "open"]
  /\ openMessages' = [openMessages EXCEPT ![f] = {}]
  /\ closedMessages' = [closedMessages EXCEPT ![f] = {}]

FlowsOf(s) == {f \in Flows : session[f] = s /\ InFlight(f)}

\* Promise.allSettled of a run, the end of the loop of an emission.
FinishDue(f) ==
  /\ pc[f] = "running"
  /\ facts[f] # "open"
  /\ f \in Runs => result[f] # "pending"

\* Socket events come between microtasks: none is due.
MacrotaskTurn == \A f \in Flows : ~FinishDue(f)

Times(n) == IF ready THEN n ELSE 0

\* Slips: a release without a test of the id, and one that is not in a
\* finally clause.
ReleaseSession(r) ==
  activeRunIds' = [activeRunIds EXCEPT ![session[r]] = {}]
ReleaseRunOnSuccess(r) ==
  activeRunIds' = [activeRunIds EXCEPT ![session[r]] =
                     IF facts[r] \in {"failed", "unsent"} THEN @ ELSE @ \ {r}]
ReleaseAnyOutbound(e) == outbound' = [outbound EXCEPT ![session[e]] = None]
\* releaseRequestRun and releaseOutboundEmission release their own id only.
ReleaseRequestRun(r) ==
  activeRunIds' = [activeRunIds EXCEPT ![session[r]] = @ \ {r}]
ReleaseOutbound(e) ==
  outbound' =
    [outbound EXCEPT ![session[e]] = IF @ = e THEN None ELSE @]

\* The error of a chat is reported by the command handler, whose own
\* sink.send() is in the catch clause of a floating promise; an error
\* without a text is not reported at all.
Unheard(r, mute) ==
  /\ muted' = IF mute THEN muted \cup {r} ELSE muted
  /\ uncaught' = IF mute \/ ready THEN uncaught ELSE uncaught \cup {r}

-----------------------------------------------------------------------------
(* Commands of the gateway *)

Busy(s) == setting.policy = "reject" /\ activeRunIds[s] # {}

\* start_request_run: refused, or registered and handed to the provider.
Chat(r, s) ==
  /\ MacrotaskTurn /\ ready
  /\ pc[r] = "unused"
  /\ \/ /\ Busy(s)
        /\ pc' = [pc EXCEPT ![r] = "ended"]
        /\ terminals' = [terminals EXCEPT ![r] = 1]
        /\ UNCHANGED <<activeRunIds, session>>
     \/ /\ ~Busy(s)
        /\ session' = [session EXCEPT ![r] = s]
        /\ activeRunIds' = [activeRunIds EXCEPT ![s] = @ \cup {r}]
        /\ pc' = [pc EXCEPT ![r] = "starting"]
        /\ UNCHANGED terminals
  /\ UNCHANGED <<outbound, pending, presented, facts, result, streamVars,
                 ready, card, detached, uncaught, muted>>

\* reply_question and reply_permission: the token is consumed before the
\* provider is asked.  Without a pending interaction only an error is sent.
Reply(t) ==
  /\ MacrotaskTurn /\ ready
  /\ pending[t] # None
  /\ pending' = [pending EXCEPT ![t] = None]
  /\ card' = [card EXCEPT ![t] = None]
  /\ UNCHANGED <<activeRunIds, outbound, presented, session, pc, facts,
                 result, streamVars, ready, terminals, detached,
                 uncaught, muted>>

\* abort_execution and close_session, once the provider has applied them: no
\* state is changed, or read again, before that await, and none if it fails.
AbortApplied(s) ==
  /\ presented' = presented \ ({s} \X Permissions)
  /\ UNCHANGED <<activeRunIds, outbound, pending, session, pc, facts, result,
                 streamVars, ready, historyVars>>

\* The record goes, whatever is in flight; pending interactions stay.
CloseApplied(s) ==
  /\ presented' = presented \ ({s} \X Permissions)
  /\ activeRunIds' = [activeRunIds EXCEPT ![s] = {}]
  /\ outbound' = [outbound EXCEPT ![s] = None]
  /\ detached' = detached \cup FlowsOf(s)
  /\ UNCHANGED <<pending, session, pc, facts, result, streamVars, ready,
                 terminals, card, uncaught, muted>>

-----------------------------------------------------------------------------
(* The provider *)

RunStarts(r) ==
  /\ pc[r] = "starting"
  /\ pc' = [pc EXCEPT ![r] = "running"]
  /\ UNCHANGED <<registryVars, session, facts, result, streamVars,
                 ready, historyVars>>

\* runMessage() rejects: the command handler reports it, if it has a text.
RunRefused(r) ==
  /\ pc[r] = "starting"
  /\ EndFlow(r)
  /\ ReleaseRequestRun(r)
  /\ \E mute \in BOOLEAN :
       /\ terminals' =
            [terminals EXCEPT ![r] = @ + IF mute THEN 0 ELSE Times(1)]
       /\ Unheard(r, mute)
  /\ UNCHANGED <<outbound, pending, presented, result, ready, card>>

\* emitOutboundMessage and emitOutboundRun: acquireOutboundEmission first.
Emit(e, s) ==
  /\ pc[e] = "unused"
  /\ \/ /\ outbound[s] # None
        /\ pc' = [pc EXCEPT ![e] = "ended"]
        /\ UNCHANGED <<outbound, session>>
     \/ /\ outbound[s] = None
        /\ session' = [session EXCEPT ![e] = s]
        /\ outbound' = [outbound EXCEPT ![s] = e]
        /\ pc' = [pc EXCEPT ![e] = "running"]
  /\ UNCHANGED <<activeRunIds, pending, presented, facts, result, streamVars, ready, historyVars>>

Streaming(f) == pc[f] = "running" /\ facts[f] = "open"

\* for await: the stream ends, or throws.
FactsEnd(f, how) ==
  /\ Streaming(f)
  /\ facts' = [facts EXCEPT ![f] = how]
  /\ UNCHANGED <<registryVars, session, pc, result, streamVars,
                 ready, historyVars>>

\* run.result(): it need not wait for the facts.
ResultSettles(r, how) ==
  /\ pc[r] = "running" /\ result[r] = "pending"
  /\ result' = [result EXCEPT ![r] = how]
  /\ UNCHANGED <<registryVars, session, pc, facts, streamVars,
                 ready, historyVars>>

-----------------------------------------------------------------------------
(* consumeFacts: enrich, validate, register, project, send *)

\* The outbound profile ends with its first message.done.
TerminalReached(f) == f \in Outbounds /\ closedMessages[f] # {}

Deliver(f) ==
  facts' = IF ready THEN facts ELSE [facts EXCEPT ![f] = "unsent"]
Refuse(f) == facts' = [facts EXCEPT ![f] = "invalid"]

MessageStart(f, m) ==
  /\ Streaming(f)
  /\ \/ /\ TerminalReached(f) \/ m \in openMessages[f] \cup closedMessages[f]
        /\ Refuse(f)
        /\ UNCHANGED openMessages
     \/ /\ ~TerminalReached(f)
        /\ m \notin openMessages[f] \cup closedMessages[f]
        /\ openMessages' = [openMessages EXCEPT ![f] = @ \cup {m}]
        /\ Deliver(f)
  /\ UNCHANGED <<registryVars, session, pc, result, closedMessages,
                 ready, historyVars>>

\* text, thinking and tool facts; a malformed tool.update is refused.
Content(f, m) ==
  /\ Streaming(f)
  /\ Refuse(f) \/ (m \in openMessages[f] /\ ~TerminalReached(f) /\ Deliver(f))
  /\ UNCHANGED <<registryVars, session, pc, result, streamVars,
                 ready, historyVars>>

MessageDone(f, m) ==
  /\ Streaming(f)
  /\ \/ /\ TerminalReached(f) \/ m \notin openMessages[f]
        /\ Refuse(f)
        /\ UNCHANGED streamVars
     \/ /\ ~TerminalReached(f) /\ m \in openMessages[f]
        /\ openMessages' = [openMessages EXCEPT ![f] = @ \ {m}]
        /\ closedMessages' = [closedMessages EXCEPT ![f] = @ \cup {m}]
        /\ Deliver(f)
  /\ UNCHANGED <<registryVars, session, pc, result, ready,
                 historyVars>>

\* The card of an ask goes out, unless the sink drops it: silently when the
\* message does not pass its schema, with an exception when not READY.
Show(f, t) ==
  card' \in {card} \cup
             {c \in {[card EXCEPT ![t] = session[f]]} : ready}

\* Slip: the token of another session is taken over.
AskTakesOver(f, t) ==
  /\ pending' = [pending EXCEPT ![t] = session[f]]
  /\ Show(f, t)
  /\ Deliver(f)

\* registerFromFact, before the card is sent: a token that another session
\* holds is a conflict, one of this session is asked again.
Ask(f, t) ==
  \/ /\ pending[t] \notin {None, session[f]}
     /\ Refuse(f)
     /\ UNCHANGED <<pending, card>>
  \/ /\ pending[t] \in {None, session[f]}
     /\ pending' = [pending EXCEPT ![t] = session[f]]
     /\ Show(f, t)
     /\ Deliver(f)

QuestionAsk(f, m, q) ==
  /\ Streaming(f)
  /\ \/ /\ TerminalReached(f) \/ m \notin openMessages[f]
        /\ Refuse(f)
        /\ UNCHANGED <<pending, card>>
     \/ /\ ~TerminalReached(f) /\ m \in openMessages[f]
        /\ Ask(f, q)
  /\ UNCHANGED <<activeRunIds, outbound, presented, session, pc, result,
                 streamVars, ready, terminals, detached, uncaught,
                 muted>>

\* The presentation is recorded before the fact is validated.
PermissionAsk(f, p) ==
  /\ Streaming(f)
  /\ presented' = presented \cup {<<session[f], p>>}
  /\ \/ TerminalReached(f) /\ Refuse(f) /\ UNCHANGED <<pending, card>>
     \/ ~TerminalReached(f) /\ Ask(f, p)
  /\ UNCHANGED <<activeRunIds, outbound, session, pc, result, streamVars,
                 ready, terminals, detached, uncaught, muted>>

\* permission.reply, dropped unless its permission is presented, and the
\* title and error of a session, which need no message.
FreeFact(f, p) ==
  /\ Streaming(f)
  /\ p \in Permissions => <<session[f], p>> \in presented
  /\ IF TerminalReached(f) THEN Refuse(f) ELSE Deliver(f)
  /\ UNCHANGED <<registryVars, session, pc, result, streamVars,
                 ready, historyVars>>

Fact(f) ==
  \/ \E m \in Messages :
       \/ MessageStart(f, m) \/ Content(f, m) \/ MessageDone(f, m)
       \/ \E q \in Questions \cap setting.tokens : QuestionAsk(f, m, q)
  \/ \E p \in Permissions \cap setting.tokens : PermissionAsk(f, p)
  \/ \E p \in (Permissions \cap setting.tokens) \cup {None} : FreeFact(f, p)

-----------------------------------------------------------------------------
(* The end of a flow *)

\* What executeRun sends itself: the terminal result, or request_run_failed
\* for facts that break the contract.
CoordinatorReports(r) ==
  facts[r] = "invalid" \/ (facts[r] = "done" /\ result[r] = "settled")

\* Slip: contract errors are reported twice.
CommandReportsAll(r) ==
  \/ facts[r] \in {"failed", "unsent", "invalid"}
  \/ facts[r] = "done" /\ result[r] = "rejected"

\* commandFailureToolErrorProjector leaves contract errors to executeRun.
CommandReports(r) ==
  \/ facts[r] \in {"failed", "unsent"}
  \/ facts[r] = "done" /\ result[r] = "rejected"

Count(b) == IF b THEN 1 ELSE 0

\* An error of the provider may be reported to nobody: its message is blank,
\* or its code is one that the projector keeps to itself, or it is the blank
\* message of a failed result, which the sink drops.
MayBeMute(r) ==
  facts[r] = "failed" \/ (facts[r] = "done" /\ result[r] = "rejected")

\* executeRun, the release, and the catch clause of the command handler.
FinishRun(r) ==
  /\ FinishDue(r)
  /\ EndFlow(r)
  /\ result' = [result EXCEPT ![r] = "pending"]
  /\ \E mute \in BOOLEAN :
       /\ mute => MayBeMute(r)
       /\ terminals' =
            [terminals EXCEPT ![r] = @ +
               IF mute THEN 0
               ELSE Times(Count(CoordinatorReports(r)) +
                          Count(CommandReports(r)))]
       /\ Unheard(r, mute)
  /\ ReleaseRequestRun(r)
  /\ UNCHANGED <<outbound, pending, presented, ready, card>>

\* An outbound run ends with a terminal message of its own, which the sink
\* drops if it has no text; its errors, and those of an outbound message, go
\* to the provider.
FinishEmission(e) ==
  /\ FinishDue(e)
  /\ EndFlow(e)
  /\ \E mute \in BOOLEAN :
       /\ mute => facts[e] = "failed"
       /\ terminals' =
            [terminals EXCEPT ![e] = @ +
               Times(Count(e \in OutboundRuns /\ ~mute))]
  /\ ReleaseOutbound(e)
  /\ UNCHANGED <<activeRunIds, pending, presented, result, ready, card,
                 uncaught, muted>>

\* The gateway client reconnects, or the runtime stops and starts.
GatewayChanges ==
  /\ MacrotaskTurn
  /\ ready' = ~ready
  /\ UNCHANGED <<registryVars, session, pc, facts, result, streamVars, historyVars>>

-----------------------------------------------------------------------------
TakingPart(flows) == flows \cap setting.flows

GatewayCommand ==
  \/ \E r \in TakingPart(Runs), s \in setting.sessions : Chat(r, s)
  \/ \E t \in Tokens : Reply(t)

ProviderStep ==
  \/ \E s \in setting.sessions : AbortApplied(s) \/ CloseApplied(s)
  \/ \E r \in Runs : RunStarts(r) \/ RunRefused(r)
  \/ \E r \in Runs, how \in {"settled", "rejected"} : ResultSettles(r, how)
  \/ \E e \in TakingPart(Emissions), s \in setting.sessions : Emit(e, s)
  \/ \E f \in Flows, how \in {"done", "failed"} : FactsEnd(f, how)
  \/ \E f \in Flows : Fact(f)

Finish ==
  \/ \E r \in Runs : FinishRun(r)
  \/ \E e \in Emissions : FinishEmission(e)

Next ==
  /\ GatewayCommand \/ ProviderStep \/ Finish \/ GatewayChanges
  /\ UNCHANGED setting

Spec == Init /\ [][Next]_vars

\* What a provider that answers does in the end, and the continuations of it
Settles ==
  /\ \/ \E r \in Runs : \/ RunStarts(r) \/ RunRefused(r) \/ FinishRun(r)
                        \/ \E how \in {"settled", "rejected"} : ResultSettles(r, how)
     \/ \E e \in Emissions : FinishEmission(e)
     \/ \E f \in Flows, how \in {"done", "failed"} : FactsEnd(f, how)
  /\ UNCHANGED setting

\* The provider answers a chat, ends its fact streams, which may be long, and
\* settles result(), one after another; continuations run.
Fairness == WF_vars(Settles)

FairSpec == Spec /\ Fairness

-----------------------------------------------------------------------------
(* Properties *)

\* The active runs of a session are its runs in flight, except those that a
\* close let go of: a run that ends or is refused frees its session, on every
\* path, and one that a close detached frees nothing of its successors.
\* Under "reject" there is one at a time.
\* StartRequestRunUseCase.execute, CloseSessionUseCase.execute.
ActiveRunsAreInFlight ==
  \A s \in Sessions :
    /\ activeRunIds[s] = (FlowsOf(s) \cap Runs) \ detached
    /\ setting.policy = "reject" => Cardinality(activeRunIds[s]) <= 1

\* A session is locked for an emission exactly while one that acquired it is
\* in flight: emissions exclude each other, and a late release of a detached
\* one does not unlock the session under its successor.
OutboundIsHeld ==
  \A s \in Sessions :
    (FlowsOf(s) \cap Emissions) \ detached =
      IF outbound[s] = None THEN {} ELSE {outbound[s]}

\* A chat is never answered twice, nor before its facts and its result() have
\* both settled: request_run_failed, the provider's result and the error of
\* the command handler exclude each other.  It is answered when it ends,
\* unless the gateway is not READY by then, or what ended it has no text to
\* send: an error with a blank message or with a code that the projector
\* keeps to itself, a failed result with a blank message, which the sink
\* drops.  RequestRunCoordinator.executeRun, the catch clause of the command
\* handler, CommandFailureToolErrorProjector, GatewayOutboundSinkAdapter.
OneTerminalPerRun ==
  \A r \in Runs :
    terminals[r] =
      IF pc[r] = "ended" /\ r \notin uncaught \cup muted THEN 1 ELSE 0

\* A card that the gateway holds can be answered: its token is pending, and
\* routes to the session the card was sent in.  InteractionCoordinator
\* registers before the card is projected and sent.
CardsAreAnswerable ==
  \A t \in Tokens : card[t] # None => pending[t] = card[t]

\* A session with runs gets rid of them, whatever their provider sends and
\* however they fail, as long as the provider answers at all: nobody else
\* would ever release them, and under "reject" no chat would get through.
RunsComeFree ==
  \A s \in Sessions : activeRunIds[s] # {} ~> activeRunIds[s] = {}
=============================================================================
