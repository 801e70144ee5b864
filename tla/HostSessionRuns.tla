--------------------------- MODULE HostSessionRuns ---------------------------
(***************************************************************************)
(* The runs of one OpenCode session in the message-bridge plugin.          *)
(* ActiveRunRegistry queues them and gives events to the one in front,     *)
(* HostSessionRunCoordinator prompts for one at a time, FactDrainTracker   *)
(* decides when the facts of a run are over, and the pending interactions  *)
(* of a run suspend its watchdog.                                          *)
(*                                                                         *)
(* OpenCode is the environment: it answers a prompt at any time or never,  *)
(* and publishes events about the messages it writes meanwhile, in the     *)
(* session itself and in those of its subagents.  An event passes awaits   *)
(* before it reaches a run; the first ones of a session also wait for a    *)
(* lookup, and may then overtake each other.                               *)
(***************************************************************************)
EXTENDS Naturals, Sequences, FiniteSets

CONSTANTS
  Runs,           \* the chats that resolve to this session, by runId
  Messages,       \* assistant messages of OpenCode
  Questions, Permissions,   \* what a message may ask, by reply target
  Root, Child,    \* the session and one of a subagent
  ChildMessages,  \* the messages written in the session of the subagent
  About,          \* the message each question or permission belongs to
  Closes,         \* whether close_session happens
  MaxEvents,      \* bound: events on their way at a time
  None

Tokens == Questions \cup Permissions
Sessions == {Root, Child}
Home(m) == IF m \in ChildMessages THEN Child ELSE Root

ASSUME TokensAreDistinct == Questions \cap Permissions = {}
ASSUME MessagesHaveHomes == ChildMessages \subseteq Messages /\ Root # Child
ASSUME TokensHaveMessages == About \in [Tokens -> Messages]
ASSUME NoneIsNobody == None \notin Runs
ASSUME ClosesIsAnOption == Closes \in BOOLEAN
ASSUME EventsAreBounded == MaxEvents \in Nat

VARIABLES
  queue,          \* ActiveRunRegistry: the runs of the session
  tasks,          \* HostSessionRunCoordinator: their prompts, in order
  \* ActiveProviderRunHandle; prompted is promptStarted
  enqueued, prompted, taskDone, forced, closed, cleaned,
  terminal,       \* terminalResult, None until promptSettled
  result,         \* what result() resolved to
  observed,       \* trackingSessionIds
  \* FactDrainTracker: whether it has a terminal candidate, and its timers
  candidate, quiet, drain, idle,
  begun, done,    \* AssistantMessageStateStore: startEmitted, doneEmitted
  pending,        \* RuntimePendingInteractionRegistry: the run that asked
  known,          \* SubagentSessionMapper: the sessions it has cached
  routing,        \* an event that has been given a run and not yet reached it
  returned,       \* prompts that returned and are not yet marked as finished
  \* OpenCode: prompts it works on, its messages, what it has asked, and the
  \* events that are on their way through handleEvent()
  prompts, host, author, asked, events,
  \* history: what the facts of a run say of a message, the runs told of a
  \* message out of order, whether abortAllByHostSession() found any run
  stream, misled, disrupted

queueVars == <<queue, tasks, enqueued, prompted, taskDone>>
endVars == <<forced, closed, cleaned, terminal, result, disrupted>>
timerVars == <<candidate, quiet, drain, idle>>
storeVars == <<begun, done, observed>>
hostVars == <<prompts, host, author, asked, events, known>>
historyVars == <<stream, misled>>   \* and disrupted, with endVars
vars == <<queueVars, endVars, timerVars, storeVars, pending, routing, returned,
          hostVars, historyVars>>

Outcomes == {"completed", "failed", "aborted", "timeout"}
ASSUME NoneIsNoOutcome == None \notin Outcomes

MessageStates == {"none", "open", "done"}
Queued == {queue[i] : i \in DOMAIN queue}

EventOf(kind, m, t, s) ==
  [kind |-> kind, message |-> m, token |-> t, lookup |-> s \notin known]
Kinds == {"created", "part", "completed", "final", "question", "permission",
          "replied"}
Events == [kind : Kinds, message : Messages, token : Tokens \cup {None},
           lookup : BOOLEAN]

TypeOK ==
  /\ queue \in Seq(Runs) /\ tasks \in Seq(Runs)
  /\ \A S \in {enqueued, prompted, taskDone, forced, closed, cleaned, candidate,
               quiet, drain, idle, returned, prompts, misled} : S \subseteq Runs
  /\ terminal \in [Runs -> Outcomes \cup {None}]
  /\ result \in [Runs -> Outcomes \cup {None}]
  /\ observed \in [Runs -> SUBSET Sessions]
  /\ begun \subseteq Messages /\ done \subseteq begun
  /\ pending \in [Tokens -> Runs \cup {None}]
  /\ known \subseteq Sessions
  /\ events \in Seq(Events)
  /\ routing = None \/ routing \in [event : Events, run : Runs]
  /\ host \in [Messages -> {"none", "open", "spoke", "ended"}]
  /\ author \in [Messages -> Runs \cup {None}]
  /\ disrupted \in BOOLEAN
  /\ asked \in [Tokens -> {"no", "open", "replied", "answered"}]
  /\ stream \in [Runs -> [Messages -> MessageStates]]

Init ==
  /\ queue = <<>> /\ tasks = <<>>
  /\ enqueued = {} /\ prompted = {} /\ taskDone = {}
  /\ forced = {} /\ closed = {} /\ cleaned = {}
  /\ terminal = [r \in Runs |-> None] /\ result = [r \in Runs |-> None]
  /\ observed = [r \in Runs |-> {Root}]
  /\ candidate = {} /\ quiet = {} /\ drain = {} /\ idle = {}
  /\ begun = {} /\ done = {}
  /\ pending = [t \in Tokens |-> None]
  /\ known \in SUBSET Sessions   \* session.created was seen, or was not
  /\ routing = None /\ returned = {}
  /\ prompts = {} /\ host = [m \in Messages |-> "none"]
  /\ author = [m \in Messages |-> None]
  /\ asked = [t \in Tokens |-> "no"] /\ events = <<>>
  /\ stream = [r \in Runs |-> [m \in Messages |-> "none"]] /\ misled = {}
  /\ disrupted = FALSE

\* Timers and the network wait until the microtasks of the last one are over.
Idling == routing = None /\ returned = {}
-----------------------------------------------------------------------------
(* The end of a run. *)

\* tryStartPrompt(), and the call of the prompt that follows it
StartPrompt(q) ==
  IF q = <<>> \/ (q # <<>> /\ \/ Head(q) \in prompted \cup forced \cup closed
                              \/ terminal[Head(q)] # None)
  THEN UNCHANGED <<prompted, idle, prompts>>
  ELSE /\ prompted' = prompted \cup {Head(q)}
       /\ idle' = idle \cup {Head(q)}
       /\ prompts' = prompts \cup {Head(q)}

\* settleRunIfReady() for the runs rs: only the first result counts
SettleIfReady(rs) ==
  result' = [r \in Runs |->
    IF r \in rs /\ terminal'[r] # None /\ r \in closed' /\ result[r] = None
    THEN terminal'[r] ELSE result[r]]

\* closeFacts() for the runs rs: it stops the timers
CloseFacts(rs) ==
  /\ closed' = closed \cup rs
  /\ quiet' = quiet \ rs /\ drain' = drain \ rs /\ idle' = idle \ rs
  /\ SettleIfReady(rs)
  /\ UNCHANGED candidate

\* Slips: what the definition after them would be if the code had it wrong.
\* No action uses them; each property is checked to tell them apart.
ForgetNothing(ss) == UNCHANGED <<begun, done>>

\* clearSession() of the message states, for the sessions ss
ForgetSessions(ss) ==
  /\ begun' = {m \in begun : Home(m) \notin ss}
  /\ done' = {m \in done : Home(m) \notin ss}

\* Slip: the run in front is removed, whoever it is.
RemoveHead(r) == queue' = IF queue = <<>> THEN queue ELSE Tail(queue)

RemoveHeadIfRun(r) ==
  queue' = IF queue # <<>> /\ Head(queue) = r THEN Tail(queue) ELSE queue

\* tryCleanup() and cleanupActiveRunState(): the messages stay as they are
\* when another run is in front.
TryCleanup(r) ==
  IF \/ r \in cleaned \/ terminal'[r] = None \/ r \notin closed'
     \/ (r \in prompted /\ r \notin taskDone')
  THEN UNCHANGED <<cleaned, queue, begun, done>>
  ELSE /\ cleaned' = cleaned \cup {r}
       /\ RemoveHeadIfRun(r)
       /\ IF queue # <<>> /\ Head(queue) # r THEN UNCHANGED <<begun, done>>
                                            ELSE ForgetSessions(observed[r])

\* abortAllByHostSession(): each run in turn, and then the queue is deleted.
\* While the prompt of the run in front is out, none of them is in front.
AbortAll ==
  LET live == Queued \ forced
      over == {r \in live : r \in prompted => r \in taskDone}
  IN /\ forced' = forced \cup live
     /\ terminal' = [r \in Runs |-> IF r \in live THEN "aborted" ELSE terminal[r]]
     /\ CloseFacts(live)
     /\ cleaned' = cleaned \cup over
     /\ queue' = <<>>
     /\ disrupted' = (disrupted \/ queue # <<>>)
     /\ IF queue # <<>> /\ Head(queue) \in over
        THEN ForgetSessions(UNION {observed[r] : r \in over})
        ELSE UNCHANGED <<begun, done>>
-----------------------------------------------------------------------------
(* The coordinator. *)

Enqueue(r) ==
  /\ r \notin enqueued
  /\ enqueued' = enqueued \cup {r}
  /\ queue' = Append(queue, r)
  /\ tasks' = Append(tasks, r)
  /\ IF tasks = <<>> THEN StartPrompt(<<r>>)
                     ELSE UNCHANGED <<prompted, idle, prompts>>
  /\ UNCHANGED <<taskDone, endVars, candidate, quiet, drain, storeVars, pending,
                 routing, returned, host, author, asked, events, known,
                 historyVars>>

\* runTask() is past both of its awaits.
TaskOver(r) == result[r] # None /\ (r \in prompted => r \in taskDone)

Advance ==
  /\ tasks # <<>> /\ TaskOver(Head(tasks))
  /\ tasks' = Tail(tasks)
  /\ StartPrompt(Tail(tasks))
  /\ UNCHANGED <<queue, enqueued, taskDone, endVars, candidate, quiet, drain,
                 storeVars, pending, routing, returned, host, author, asked,
                 events, known, historyVars>>

\* settlePromptTerminal(), from the answer of the prompt or what it threw
SettlePrompt(r, outcome) ==
  /\ IF r \in forced
     THEN UNCHANGED <<terminal, result, cleaned, queue, begun, done, quiet, drain>>
     ELSE /\ terminal' = [terminal EXCEPT ![r] = outcome]
          /\ quiet' = IF r \in candidate THEN quiet \cup {r} ELSE quiet
          /\ drain' = drain \cup {r}
          /\ UNCHANGED <<result, cleaned, queue, begun, done>>
  /\ UNCHANGED <<forced, closed, candidate, idle, disrupted>>

\* forceFailAndClose(): what handled the answer has thrown
FailPrompt(r) ==
  IF r \in forced
  THEN UNCHANGED <<endVars, timerVars, queue, begun, done>>
  ELSE /\ forced' = forced \cup {r}
       /\ terminal' = [terminal EXCEPT ![r] = "failed"]
       /\ CloseFacts({r})
       /\ disrupted' = TRUE
       /\ UNCHANGED <<cleaned, queue, begun, done>>

\* The prompt of a run, or of one that was given up, returns.
PromptReturns(r) ==
  /\ r \in prompts /\ Idling
  /\ prompts' = prompts \ {r} /\ returned' = returned \cup {r}
  /\ \/ \E outcome \in {"completed", "failed"} : SettlePrompt(r, outcome)
     \/ FailPrompt(r)
     \/ AbortAll
  /\ UNCHANGED <<tasks, enqueued, prompted, taskDone, observed, pending, routing,
                 host, author, asked, events, known, historyVars>>

\* markPromptTaskFinished()
TaskFinishes(r) ==
  /\ r \in returned
  /\ returned' = returned \ {r}
  /\ taskDone' = taskDone \cup {r}
  /\ UNCHANGED <<terminal, closed>>
  /\ IF r \in taskDone THEN UNCHANGED <<cleaned, queue, begun, done>>
                       ELSE TryCleanup(r)
  /\ UNCHANGED <<tasks, enqueued, prompted, forced, result, disrupted, timerVars,
                 observed, pending, routing, hostVars, historyVars>>

\* closeSession(), after the session was deleted in OpenCode
CloseSession ==
  /\ Closes
  /\ AbortAll
  /\ UNCHANGED <<tasks, enqueued, prompted, taskDone, observed, pending, routing,
                 returned, hostVars, historyVars>>
-----------------------------------------------------------------------------
(* The timers of FactDrainTracker. *)

\* The quiet period, or the drain timeout, of a run whose prompt has returned.
DrainEnds(r) ==
  /\ Idling
  /\ r \in quiet \cup drain
  /\ UNCHANGED <<terminal, taskDone, forced, disrupted>>
  /\ CloseFacts({r})
  /\ TryCleanup(r)
  /\ UNCHANGED <<tasks, enqueued, prompted, observed, pending, routing, returned,
                 hostVars, historyVars>>

Asking(r) == \E t \in Tokens : pending[t] = r

\* Slip: the task of a run that is given up goes on counting.
TimeoutKeepsTask(r) ==
  /\ forced' = forced \cup {r}
  /\ terminal' = [terminal EXCEPT ![r] = "timeout"]
  /\ UNCHANGED taskDone

\* forceTimeoutAndClose(), before the facts are closed
ForceTimeout(r) ==
  /\ forced' = forced \cup {r}
  /\ terminal' = [terminal EXCEPT ![r] = "timeout"]
  /\ taskDone' = taskDone \cup {r}

\* The final idle timeout: nothing while the run waits for the user
IdleTimeout(r) ==
  /\ Idling /\ r \in idle
  /\ IF Asking(r)
     THEN /\ idle' = idle \ {r}
          /\ UNCHANGED <<taskDone, endVars, candidate, quiet, drain, queue,
                         begun, done>>
     ELSE /\ ForceTimeout(r) /\ CloseFacts({r}) /\ TryCleanup(r)
          /\ UNCHANGED disrupted
  /\ UNCHANGED <<tasks, enqueued, prompted, observed, pending, routing, returned,
                 hostVars, historyVars>>
-----------------------------------------------------------------------------
(* Events. *)

\* handleEvent() awaits the control plane and the identity of the session.
\* Lookups of a session that is not cached are answered in any order.
InTurn(i) == events[i].lookup \/ \A j \in 1..(i - 1) : events[j].lookup

Drop(i) == SubSeq(events, 1, i - 1) \o SubSeq(events, i + 1, Len(events))

\* A failed lookup takes the session for one of its own.
ResolveEvent(i) ==
  /\ i \in DOMAIN events /\ InTurn(i) /\ routing = None
  /\ events' = Drop(i)
  /\ \E found \in IF events[i].lookup THEN BOOLEAN ELSE {TRUE} :
       LET s == Home(events[i].message)
       IN /\ known' = IF found THEN known \cup {s} ELSE known
          /\ IF /\ (found \/ s = Root)
                /\ queue # <<>> /\ Head(queue) \in prompted
             THEN routing' = [event |-> events[i], run |-> Head(queue)]
             ELSE UNCHANGED routing
  /\ UNCHANGED <<queueVars, endVars, timerVars, storeVars, pending, returned,
                 prompts, host, author, asked, historyVars>>

\* The translators: the messages an event begins and ends, and whether it
\* makes a fact.  Every message.updated of OpenCode carries time.created.
Begins(e) == IF e.kind \in {"created", "completed", "final"}
             THEN {e.message} \ begun ELSE {}
Ends(e) == IF e.kind \in {"completed", "final"} THEN {e.message} \ done ELSE {}
IsOpen(m) == m \in begun \ done
Speaks(e) == e.kind \in {"part", "question"} /\ IsOpen(e.message)
Effective(e) == \/ Begins(e) \cup Ends(e) # {} \/ Speaks(e)
                \/ e.kind \in {"permission", "replied", "final"}
Asks(e) == \/ e.kind = "question" /\ Speaks(e)
           \/ e.kind = "permission"

\* What the facts of e tell the runtime of their message, after what it was
\* told before; FactSequenceValidator refuses the rest.
Told(e, before) ==
  IF Begins(e) # {}
  THEN IF before = "none" THEN (IF Ends(e) # {} THEN "done" ELSE "open")
                          ELSE "misled"
  ELSE IF Ends(e) # {} THEN (IF before = "open" THEN "done" ELSE "misled")
  ELSE IF Speaks(e) /\ before # "open" THEN "misled" ELSE before

\* pushFacts()
PushFacts(r, e) ==
  IF r \in forced \cup closed
  THEN UNCHANGED <<candidate, quiet, stream, misled>>
  ELSE LET told == Told(e, stream[r][e.message])
       IN /\ candidate' = IF e.kind = "final" THEN candidate \cup {r} ELSE candidate
          /\ quiet' = IF r \in candidate' /\ terminal[r] # None
                      THEN quiet \cup {r} ELSE quiet
          /\ stream' = IF told = "misled" THEN stream
                       ELSE [stream EXCEPT ![r][e.message] = told]
          /\ misled' = IF told = "misled" THEN misled \cup {r} ELSE misled

\* onPendingInteractionChanged(), which finds the run in its queue
Watchful(r) == r \in Queued /\ r \in prompted \ (forced \cup closed) /\ terminal[r] = None

\* tryRouteToActiveRun()
RouteEvent ==
  /\ routing # None
  /\ routing' = None
  /\ LET e == routing.event
         r == routing.run
     IN /\ begun' = begun \cup Begins(e)
        /\ done' = done \cup Ends(e)
        /\ observed' = [observed EXCEPT ![r] = @ \cup {Home(e.message)}]
        /\ pending' = IF Asks(e) THEN [pending EXCEPT ![e.token] = r] ELSE pending
        /\ PushFacts(r, e)
        /\ idle' = IF \/ Effective(e) /\ r \notin forced \cup closed
                      \/ Asks(e) /\ Watchful(r)
                   THEN idle \cup {r} ELSE idle
  /\ UNCHANGED <<queueVars, endVars, drain, returned, hostVars>>

\* The reply of the user: the token is consumed, then OpenCode is told, which
\* may refuse.
ReplyInteraction(t) ==
  /\ pending[t] # None
  /\ pending' = [pending EXCEPT ![t] = None]
  /\ idle' = IF Watchful(pending[t]) THEN idle \cup {pending[t]} ELSE idle
  /\ \/ asked[t] = "open" /\ asked' = [asked EXCEPT ![t] = "replied"]
     \/ UNCHANGED asked
  /\ UNCHANGED <<queueVars, endVars, candidate, quiet, drain, storeVars, routing,
                 returned, prompts, host, author, events, known, historyVars>>
-----------------------------------------------------------------------------
(* OpenCode. *)

Publish(kind, m, t) ==
  /\ Idling /\ Len(events) < MaxEvents
  /\ events' = Append(events, EventOf(kind, m, t, Home(m)))
  /\ UNCHANGED <<queueVars, endVars, timerVars, storeVars, pending, routing,
                 returned, prompts, known, historyVars>>

HostBegins(m) ==
  /\ host[m] = "none"
  /\ \E r \in prompts : author' = [author EXCEPT ![m] = r]
  /\ host' = [host EXCEPT ![m] = "open"]
  /\ Publish("created", m, None)
  /\ UNCHANGED asked

\* Bound: one part of each message
HostWrites(m) ==
  /\ host[m] \in {"open", "spoke"} /\ author[m] \in prompts
  /\ \/ host[m] = "open" /\ Publish("part", m, None) /\ host' = [host EXCEPT ![m] = "spoke"]
     \/ \E kind \in {"completed", "final"} :
          Publish(kind, m, None) /\ host' = [host EXCEPT ![m] = "ended"]
  /\ UNCHANGED <<author, asked>>

HostAsks(t) ==
  /\ asked[t] = "no" /\ host[About[t]] \in {"open", "spoke"} /\ author[About[t]] \in prompts
  /\ asked' = [asked EXCEPT ![t] = "open"]
  /\ Publish(IF t \in Questions THEN "question" ELSE "permission", About[t], t)
  /\ UNCHANGED <<host, author>>

\* OpenCode goes on: after a reply, or the user has answered in OpenCode itself.
HostIsAnswered(t) ==
  /\ asked[t] \in {"open", "replied"} /\ author[About[t]] \in prompts
  /\ asked' = [asked EXCEPT ![t] = "answered"]
  /\ IF t \in Permissions
     THEN Publish("replied", About[t], t)
     ELSE UNCHANGED <<queueVars, endVars, timerVars, storeVars, pending, routing,
                      returned, prompts, events, known, historyVars>>
  /\ UNCHANGED <<host, author>>

HostStep ==
  \/ \E m \in Messages : HostBegins(m) \/ HostWrites(m)
  \/ \E t \in Tokens : HostAsks(t) \/ HostIsAnswered(t)

EventLoop ==
  \/ \E r \in Runs : TaskFinishes(r) \/ DrainEnds(r) \/ IdleTimeout(r)
  \/ \E i \in 1..MaxEvents : ResolveEvent(i)
  \/ Advance \/ RouteEvent

Next ==
  \/ \E r \in Runs : Enqueue(r) \/ PromptReturns(r)
  \/ \E t \in Tokens : ReplyInteraction(t)
  \/ EventLoop \/ CloseSession \/ HostStep

Spec == Init /\ [][Next]_vars

(***************************************************************************)
(* Fairness: the event loop does not stop while a continuation, a timer or *)
(* a lookup is due; a lookup is answered or fails.  Nothing is assumed of  *)
(* prompts, users or chats.                                                *)
(***************************************************************************)
FairSpec == Spec /\ WF_vars(EventLoop)
-----------------------------------------------------------------------------
(* Properties. *)

(***************************************************************************)
(* Events go to the run that is being prompted: no other run of the queue  *)
(* has been, a run that is over is in the queue no more, and none leaves   *)
(* it before its facts are closed, whichever run's late cleanup it meets.  *)
(***************************************************************************)
HeadIsPrompted ==
  /\ \A i \in DOMAIN queue : i > 1 => queue[i] \notin prompted
  /\ cleaned \cap Queued = {}
  /\ enqueued \ Queued \subseteq closed

(***************************************************************************)
(* The facts of a run are in order: a part, a question or the end of a     *)
(* message come after its beginning, as long as no run was cut off.        *)
(***************************************************************************)
FactsAreInOrder == misled # {} => disrupted

(***************************************************************************)
(* No fact about a message of an aborted run reaches another run.          *)
(***************************************************************************)
AbortedStayOut ==
  \A r \in Runs, m \in Messages :
    /\ stream[r][m] # "none" /\ author[m] # r
    => result[author[m]] # "aborted"

\* The prompt of a run that was given up by an abort may take its time.
HeldByPrompt ==
  \E r \in prompts \ taskDone : r \in prompted /\ terminal[r] = "aborted"
HeldByUser == \E r \in prompted \ closed : Asking(r)

(***************************************************************************)
(* Every run of the session ends, even when OpenCode never answers its     *)
(* prompt, unless a question or an aborted prompt holds the session for    *)
(* ever.                                                                   *)
(***************************************************************************)
RunsEnd ==
  <>[]~(HeldByPrompt \/ HeldByUser) =>
    \A r \in Runs : r \in enqueued ~> result[r] # None
=============================================================================
