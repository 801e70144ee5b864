---------------------------- MODULE OpenClawRuns ----------------------------
(***************************************************************************)
(* OpenClawProviderAdapter: the runs of OpenClaw sessions, the two maps    *)
(* that lead from the host's events to a run, and the ends of a run.       *)
(*                                                                         *)
(* A run is found by the key of its session.  The key is provisional until *)
(* the host has routed the session, and the entry in the map belongs to    *)
(* whoever wrote it last: runs start, bind the routed key, are aborted and *)
(* end at awaits of their own.  The host is OpenClaw: it streams output of *)
(* a run that was aborted for as long as its dispatch lasts.               *)
(***************************************************************************)
EXTENDS FiniteSets

CONSTANTS
  Runs,           \* runMessage() calls
  Sessions,       \* tool sessions
  Keys,           \* session keys of the host
  Provisional,    \* the key SessionRegistry.ensure() gives a session
  Routes,         \* the keys the host may route it to
  None

Outcomes == {"completed", "failed", "aborted"}

ASSUME NoneIsNothing ==
  None \notin Runs \cup Sessions \cup Keys \cup Outcomes
ASSUME SessionsHaveKeys ==
  Provisional \in [Sessions -> Keys] /\ Routes \in [Sessions -> SUBSET Keys]

VARIABLES
  \* the host has a reply runtime; without, its subagent runs the chat
  reply,
  sessionKey,     \* SessionRegistry: the record's key, None without a record
  active,         \* activeRunsBySessionKey
  byRunId,        \* sessionKeyByRunId, by the run that the id belongs to
  \* ActiveRunState
  session, key, started, completed, abortRequested, stream, result,
  pc,             \* the await of runInBackground() the run is at
  closing,        \* sessions whose closeSession() awaits deleteSession()
  \* history: runs the SDK let go of when it closed their session, runs under
  \* which an earlier run of their session was routed or ended, and runs that
  \* output of another run was added to
  detached, undermined, foreign

mapVars == <<sessionKey, active, byRunId>>
runVars == <<session, key, started, completed, abortRequested, stream, result>>
history == <<detached, undermined, foreign>>
vars == <<reply, mapVars, runVars, pc, closing, history>>

Streams == {"unused", "before", "within", "after", "over", "broken"}
InFlight(r) == pc[r] \in {"loading", "dispatching"}

TypeOK ==
  /\ reply \in BOOLEAN
  /\ sessionKey \in [Sessions -> Keys \cup {None}]
  /\ active \in [Keys -> Runs \cup {None}]
  /\ byRunId \in [Runs -> Keys \cup {None}]
  /\ session \in [Runs -> Sessions \cup {None}]
  /\ key \in [Runs -> Keys \cup {None}]
  /\ \A S \in {started, completed, abortRequested, detached, undermined,
               foreign} :
       S \subseteq Runs
  /\ stream \in [Runs -> Streams]
  /\ result \in [Runs -> Outcomes \cup {None}]
  /\ pc \in [Runs -> {"unused", "loading", "dispatching", "ended"}]
  /\ closing \subseteq Sessions

Init ==
  /\ reply \in BOOLEAN
  /\ sessionKey = [s \in Sessions |-> None]
  /\ active = [k \in Keys |-> None]
  /\ byRunId = [r \in Runs |-> None]
  /\ session = [r \in Runs |-> None]
  /\ key = [r \in Runs |-> None]
  /\ started = {} /\ completed = {} /\ abortRequested = {}
  /\ stream = [r \in Runs |-> "unused"]
  /\ result = [r \in Runs |-> None]
  /\ pc = [r \in Runs |-> "unused"]
  /\ closing = {} /\ detached = {} /\ undermined = {} /\ foreign = {}

-----------------------------------------------------------------------------
(* The facts of a run. *)

\* Slip: a push to a closed queue is not dropped.
PushedAnyway(st, fact) ==
  CASE st = "before" /\ fact = "start" -> "within"
    [] st = "within" /\ fact = "content" -> "within"
    [] st = "within" /\ fact = "done" -> "after"
    [] OTHER -> "broken"

\* What one more fact makes of a stream.  The queue drops what is pushed
\* after it was closed; the validator of the SDK refuses the rest.
Pushed(st, fact) ==
  CASE st = "over" -> "over"
    [] st = "before" /\ fact = "start" -> "within"
    [] st = "within" /\ fact = "content" -> "within"
    [] st = "within" /\ fact = "done" -> "after"
    [] OTHER -> "broken"

Closed(st) == IF st = "broken" THEN "broken" ELSE "over"

\* ensureMessageStarted(), then the fact of a text, a tool or a thought
WithContent(r) ==
  Pushed(IF r \in started THEN stream[r] ELSE Pushed(stream[r], "start"),
         "content")

AddContent(r) ==
  /\ stream' = [stream EXCEPT ![r] = WithContent(r)]
  /\ started' = started \cup {r}

\* Slip: an abort is thought to have settled the run.
ResolveUnlessAborted(r, outcome) ==
  result' = [result EXCEPT ![r] =
               IF @ = None /\ r \notin abortRequested THEN outcome ELSE @]

\* Only the first of a deferred's results counts.
Resolve(r, outcome) ==
  result' = [result EXCEPT ![r] = IF @ = None THEN outcome ELSE @]

\* Slip: the id of the host's run is left behind.
FinalizeKeepsRunId(r) ==
  /\ completed' = completed \cup {r}
  /\ active' = [active EXCEPT ![key[r]] = None]
  /\ UNCHANGED byRunId

\* finalizeRun(): whoever holds the entry, it goes.
FinalizeRun(r) ==
  /\ completed' = completed \cup {r}
  /\ active' = [active EXCEPT ![key[r]] = None]
  /\ byRunId' = [byRunId EXCEPT ![r] = None]

-----------------------------------------------------------------------------
(* A run begins. *)

\* Slip: the entry is not moved with the key.
BindRecordOnly(r, from, to, ac, ks, s) ==
  /\ active' = ac
  /\ sessionKey' = [ks EXCEPT ![s] = to]
  /\ key' = [key EXCEPT ![r] = to]

\* bindCanonicalSessionKey(), in the state that the maps ac and ks are in
Bind(r, from, to, ac, ks, s) ==
  IF from = to
  THEN active' = ac /\ sessionKey' = ks /\ key' = [key EXCEPT ![r] = from]
  ELSE /\ active' = [ac EXCEPT ![from] = None, ![to] = r]
       /\ sessionKey' = [ks EXCEPT ![s] = to]
       /\ key' = [key EXCEPT ![r] = to]

\* The policy of the SDK: one run of a session at a time, except those that a
\* close made it forget.
SdkIsFree(s) ==
  \A r \in Runs :
    session[r] = s =>
      r \in detached \/ (stream[r] = "over" /\ result[r] # None)

\* SessionRegistry.ensure()
Ensured(s) ==
  [sessionKey EXCEPT ![s] = IF @ = None THEN Provisional[s] ELSE @]

\* runMessage(), up to the first await of runInBackground(): the reply runtime
\* awaits its SDK first, the subagent is routed at once, if it is routed.
RunMessage(r, s) ==
  /\ pc[r] = "unused" /\ SdkIsFree(s)
  /\ session' = [session EXCEPT ![r] = s]
  /\ stream' = [stream EXCEPT ![r] = "before"]
  /\ LET k == Ensured(s)[s]
         registered == [active EXCEPT ![k] = r]
     IN IF reply
        THEN /\ pc' = [pc EXCEPT ![r] = "loading"]
             /\ Bind(r, k, k, registered, Ensured(s), s)
        ELSE /\ pc' = [pc EXCEPT ![r] = "dispatching"]
             /\ \E to \in Routes[s] \cup {k} :
                  Bind(r, k, to, registered, Ensured(s), s)
  /\ UNCHANGED <<reply, byRunId, started, completed, abortRequested, result,
                 closing, history>>

\* A run goes on that the SDK no longer waits for: its session may have a
\* newer one, whose entry goes by the same key.
Undermine(r) ==
  undermined' = undermined \cup
                  {q \in Runs \ {r} : session[q] = session[r] /\ InFlight(q)}

\* runWithReplyRuntime() after the import: routed, and handed to the host.
\* It does not ask whether the run was aborted meanwhile.
Dispatch(r) ==
  /\ pc[r] = "loading"
  /\ pc' = [pc EXCEPT ![r] = "dispatching"]
  /\ \E to \in Routes[session[r]] :
       Bind(r, key[r], to, active, sessionKey, session[r])
  /\ Undermine(r)
  /\ UNCHANGED <<reply, byRunId, session, started, completed, abortRequested,
                 stream, result, closing, detached, foreign>>

\* onAgentRunStart(), or subagent.run() returns: the host's id is known.
AgentRunStart(r) ==
  /\ pc[r] = "dispatching" /\ byRunId[r] = None
  /\ byRunId' = [byRunId EXCEPT ![r] = key[r]]
  /\ UNCHANGED <<reply, sessionKey, active, runVars, pc, closing, history>>

-----------------------------------------------------------------------------
(* Output of the host. *)

Listens(r) == r \notin completed \cup abortRequested

\* The dispatcher calls deliver(), which belongs to the run.
Deliver(r) ==
  /\ reply /\ pc[r] = "dispatching" /\ Listens(r)
  /\ AddContent(r)
  /\ UNCHANGED <<reply, mapVars, session, key, completed, abortRequested,
                 result, pc, closing, history>>

ToolEvent(r) == AddContent(r)
ReasoningEvent(r) == AddContent(r)

\* The dispatcher owns the text of a run that was handed to it.
AssistantEvent(r) == ~(reply /\ pc[r] = "dispatching") /\ AddContent(r)

\* An agent event of the host's run h names the session, or only its id.
AgentEvent(h) ==
  /\ pc[h] = "dispatching"
  /\ \E k \in {key[h], byRunId[h]} \ {None} :
       LET r == active[k] IN
       /\ r # None /\ Listens(r)
       /\ ToolEvent(r) \/ ReasoningEvent(r) \/ AssistantEvent(r)
       /\ foreign' = IF r = h THEN foreign ELSE foreign \cup {r}
  /\ UNCHANGED <<reply, mapVars, session, key, completed, abortRequested,
                 result, pc, closing, detached, undermined>>

-----------------------------------------------------------------------------
(* A run ends. *)

\* The dispatch or the subagent is done: completeTextMessage(), the result.
Complete(r) ==
  /\ pc[r] = "dispatching" /\ (reply \/ byRunId[r] # None)
  /\ pc' = [pc EXCEPT ![r] = "ended"]
  /\ started' = started \cup {r}
  /\ stream' = [stream EXCEPT ![r] = Closed(Pushed(WithContent(r), "done"))]
  /\ Resolve(r, IF r \in abortRequested THEN "aborted" ELSE "completed")
  /\ FinalizeRun(r)
  /\ Undermine(r)
  /\ UNCHANGED <<reply, sessionKey, session, key, abortRequested, closing,
                 detached, foreign>>

\* The catch clause of runInBackground(): no SDK, no route, a host that fails.
Fail(r) ==
  /\ InFlight(r)
  /\ pc' = [pc EXCEPT ![r] = "ended"]
  /\ stream' = [stream EXCEPT ![r] = Closed(@)]
  /\ Resolve(r, IF r \in abortRequested THEN "aborted" ELSE "failed")
  /\ FinalizeRun(r)
  /\ Undermine(r)
  /\ UNCHANGED <<reply, sessionKey, session, key, started, abortRequested,
                 closing, detached, foreign>>

\* abortActiveRun()
AbortActiveRun(r) ==
  IF r = None \/ r \in completed
  THEN UNCHANGED <<abortRequested, stream, result, completed, active, byRunId>>
  ELSE /\ abortRequested' = abortRequested \cup {r}
       /\ stream' = [stream EXCEPT ![r] = Closed(@)]
       /\ Resolve(r, "aborted")
       /\ FinalizeRun(r)

\* abortSession(): what it asks of the host afterwards changes nothing here.
AbortSession(s) ==
  /\ sessionKey[s] # None
  /\ AbortActiveRun(active[sessionKey[s]])
  /\ UNCHANGED <<reply, sessionKey, session, key, started, pc, closing,
                 history>>

\* closeSession() up to deleteSession(): the run is muted, and not ended.
CloseBegins(s) ==
  /\ sessionKey[s] # None /\ s \notin closing
  /\ abortRequested' = abortRequested \cup ({active[sessionKey[s]]} \ {None})
  /\ closing' = closing \cup {s}
  /\ UNCHANGED <<reply, mapVars, session, key, started, completed, stream,
                 result, pc, history>>

\* deleteSession() returned: the entries go, and the SDK forgets its runs.
CloseEnds(s) ==
  /\ s \in closing
  /\ closing' = closing \ {s}
  /\ active' = [active EXCEPT ![sessionKey[s]] = None]
  /\ sessionKey' = [sessionKey EXCEPT ![s] = None]
  /\ detached' = detached \cup {r \in Runs : session[r] = s}
  /\ UNCHANGED <<reply, byRunId, runVars, pc, undermined, foreign>>

CloseFails(s) ==
  /\ s \in closing
  /\ closing' = closing \ {s}
  /\ UNCHANGED <<reply, mapVars, runVars, pc, history>>

-----------------------------------------------------------------------------
Next ==
  \/ \E r \in Runs, s \in Sessions : RunMessage(r, s)
  \/ \E r \in Runs : \/ Dispatch(r) \/ AgentRunStart(r) \/ Deliver(r)
                     \/ AgentEvent(r) \/ Complete(r) \/ Fail(r)
  \/ \E s \in Sessions : \/ AbortSession(s) \/ CloseBegins(s)
                         \/ CloseEnds(s) \/ CloseFails(s)

Spec == Init /\ [][Next]_vars

\* The import settles, the host starts what it was handed and ends it, in
\* time: runTimeoutMs is passed on with every dispatch and every wait.
HostProceeds(r) == Dispatch(r) \/ AgentRunStart(r) \/ Complete(r) \/ Fail(r)
Fairness == \A r \in Runs : WF_vars(HostProceeds(r))
FairSpec == Spec /\ Fairness

-----------------------------------------------------------------------------
(* Properties *)

\* A run implements what the SDK expects of a ProviderRun: facts in their
\* order, nothing after the end of the stream, and one result after it, on
\* the paths of the dispatcher, the subagent, an error and an abort alike.
Contract == INSTANCE ProviderRun WITH
  facts <- [r \in Runs |-> IF stream[r] \in {"before", "within", "after"}
                           THEN "open" ELSE stream[r]],
  outcome <- result
ImplementsProviderRun == Contract!Spec

\* Abort, close and the events of the host find the run that the SDK waits
\* for: the entry under the session's key is that run, from its first step,
\* while its key moves from provisional to routed, also beside an earlier run
\* of the session that was aborted and is still at the host.  It does not
\* outlast that earlier run: once one is routed or ends, finalizeRun() or
\* bindCanonicalSessionKey() may have taken the entry from its successor,
\* which no abort finds any more; of such runs nothing is said.
\* registerActiveRun, abortSession, closeSession.
RunIsReachable ==
  \A r \in Runs \ undermined :
    InFlight(r) /\ result[r] = None /\ r \notin detached =>
      /\ sessionKey[session[r]] # None
      /\ active[sessionKey[session[r]]] = r

\* What the host says of one run is never added to the facts of another.
\* abortActiveRun() is there to hold back the late output of an aborted run.
OutputStaysHome == foreign = {}

\* When no run is in flight, neither map has an entry left: an abort before
\* the key was bound, or before the host's id was known, leaves nothing.
NothingIsLeft ==
  (\A r \in Runs : ~InFlight(r)) =>
     /\ \A k \in Keys : active[k] = None
     /\ \A r \in Runs : byRunId[r] = None

\* Every run gives the SDK its result, of the dispatcher or the subagent,
\* also one that was only muted, or that an abort no longer finds.
RunsSettle == \A r \in Runs : InFlight(r) ~> result[r] # None
=============================================================================
