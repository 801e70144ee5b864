------------------------- MODULE MessageBridgeProofs -------------------------
(***************************************************************************)
(* The message-bridge plugin, in two independent parts.                    *)
(*                                                                         *)
(* The runs of a session of the host, for every number of runs, messages   *)
(* and questions, and events in any order: who is prompted, who is given   *)
(* the events, and in which order the facts of a run come.                 *)
(*                                                                         *)
(* The plugin's one runtime, for every number of initializations: as long  *)
(* as no cancelled initialization goes on beside a newer one, a stop       *)
(* reaches every connection and nothing starts again by itself.            *)
(***************************************************************************)
EXTENDS HostSessionRuns, PluginRuntime, FiniteSetTheorems, TLAPS

\* The runs whose tasks the coordinator has.
Waiting == {tasks[i] : i \in DOMAIN tasks}

\* The registry has the last of the coordinator's tasks, in the same order;
\* only the first has been prompted.
OrderInv ==
  /\ Len(queue) <= Len(tasks)
  /\ \A i \in 1..Len(queue) : queue[i] = tasks[Len(tasks) - Len(queue) + i]
  /\ \A i, j \in 1..Len(tasks) : tasks[i] = tasks[j] => i = j
  /\ \A i \in 1..Len(tasks) :
       tasks[i] \in enqueued /\ (i > 1 => tasks[i] \notin prompted)

\* What belongs to a run that has been prompted only.
StartedInv ==
  /\ prompted \cup cleaned \cup closed \subseteq enqueued
  /\ quiet \cup drain \cup idle \cup returned \cup prompts \cup taskDone
       \subseteq prompted
  /\ routing # None => routing.run \in prompted
  /\ \A r \in Runs \ prompted : stream[r] = [m \in Messages |-> "none"]

\* How a run ends: nothing is given up before its facts are closed, and what is
\* in the queue has not both a result and its prompt behind it.
EndInv ==
  /\ forced \subseteq closed
  /\ \A r \in quiet \cup drain \cup forced : terminal[r] # None
  /\ \A r \in Runs : result[r] # None => terminal[r] # None /\ r \in closed
  /\ prompts \cap taskDone \subseteq forced /\ prompts \cap returned = {}
  /\ cleaned \cap Queued = {}
  /\ enqueued \ Queued \subseteq closed
  /\ \A r \in Queued \cup (Runs \ enqueued) :
       r \notin prompted \/ (r \in taskDone /\ r \in closed) => terminal[r] = None
  /\ \A r \in enqueued \ Waiting : TaskOver(r)

\* What the runtime was told of a message, if it was told what the store says.
StateOf(m) == IF m \in done THEN "done" ELSE IF m \in begun THEN "open" ELSE "none"

\* As long as no run was cut off the message store is the store of the run in
\* front: a run leaves the queue by its cleanup only, which forgets its
\* messages, and no event is on its way to it by then.
StoreInv ==
  /\ misled = {}
  /\ closed \cup (enqueued \ Queued) \subseteq cleaned
  /\ \A r \in Runs : terminal[r] # None => r \in taskDone \cup returned
  /\ queue = <<>> \/ Head(queue) \notin prompted => begun = {}
  /\ queue # <<>> =>
       /\ \A m \in Messages : stream[Head(queue)][m] = StateOf(m)
       /\ \A m \in begun : Home(m) \in observed[Head(queue)]
  /\ routing # None => queue # <<>> /\ routing.run = Head(queue)

\* The inductive invariant.
SessionInv ==
  /\ TypeOK /\ OrderInv /\ StartedInv /\ EndInv
  /\ disrupted \/ StoreInv

-----------------------------------------------------------------------------
(* Sequences: what leaves and enters a queue. *)

LEMMA DropIsTyped ==
  ASSUME TypeOK, NEW i \in DOMAIN events
  PROVE  Drop(i) \in Seq(Events)
<1>1. events \in Seq(Events)
  BY DEF TypeOK
<1>2. i \in 1..Len(events)
  BY <1>1
<1>3. SubSeq(events, 1, i - 1) \in Seq(Events)
  BY <1>1, <1>2
<1>4. SubSeq(events, i + 1, Len(events)) \in Seq(Events)
  BY <1>1, <1>2
<1> QED
  BY <1>3, <1>4 DEF Drop

-----------------------------------------------------------------------------
(* Types. *)

\* The types of what a run has of its own, and of what runs share.
RunTypes ==
  /\ enqueued \subseteq Runs /\ prompted \subseteq Runs /\ taskDone \subseteq Runs
  /\ forced \subseteq Runs /\ closed \subseteq Runs /\ cleaned \subseteq Runs
  /\ candidate \subseteq Runs /\ quiet \subseteq Runs /\ drain \subseteq Runs
  /\ idle \subseteq Runs /\ returned \subseteq Runs /\ prompts \subseteq Runs
  /\ misled \subseteq Runs
  /\ terminal \in [Runs -> Outcomes \cup {None}]
  /\ result \in [Runs -> Outcomes \cup {None}]
  /\ disrupted \in BOOLEAN

SharedTypes ==
  /\ queue \in Seq(Runs) /\ tasks \in Seq(Runs)
  /\ observed \in [Runs -> SUBSET Sessions]
  /\ begun \subseteq Messages /\ done \subseteq begun
  /\ pending \in [Tokens -> Runs \cup {None}]
  /\ known \subseteq Sessions
  /\ events \in Seq(Events)
  /\ routing = None \/ routing \in [event : Events, run : Runs]
  /\ host \in [Messages -> {"none", "open", "spoke", "ended"}]
  /\ author \in [Messages -> Runs \cup {None}]
  /\ asked \in [Tokens -> {"no", "open", "replied", "answered"}]
  /\ stream \in [Runs -> [Messages -> MessageStates]]

LEMMA TypesAreTwo == TypeOK <=> RunTypes /\ SharedTypes
  BY DEF TypeOK, RunTypes, SharedTypes

LEMMA CloseTypes ==
  ASSUME NEW rs \in SUBSET Runs, RunTypes, CloseFacts(rs),
         terminal' \in [Runs -> Outcomes \cup {None}]
  PROVE  /\ closed' \subseteq Runs /\ candidate' \subseteq Runs
         /\ quiet' \subseteq Runs /\ drain' \subseteq Runs /\ idle' \subseteq Runs
         /\ result' \in [Runs -> Outcomes \cup {None}]
  BY DEF RunTypes, CloseFacts, SettleIfReady

LEMMA ForgetTypes ==
  ASSUME NEW ss, SharedTypes, ForgetSessions(ss) \/ UNCHANGED <<begun, done>>
  PROVE  begun' \subseteq Messages /\ done' \subseteq begun'
  BY DEF SharedTypes, ForgetSessions

LEMMA StartTypes ==
  ASSUME NEW q \in Seq(Runs), RunTypes, StartPrompt(q)
  PROVE  prompted' \subseteq Runs /\ idle' \subseteq Runs /\ prompts' \subseteq Runs
  BY DEF RunTypes, StartPrompt

LEMMA CleanupTypes ==
  ASSUME NEW r \in Runs, RunTypes, SharedTypes, TryCleanup(r)
  PROVE  /\ cleaned' \subseteq Runs /\ queue' \in Seq(Runs)
         /\ begun' \subseteq Messages /\ done' \subseteq begun'
<1>1. CASE UNCHANGED <<cleaned, queue, begun, done>>
  BY <1>1 DEF RunTypes, SharedTypes
<1>2. CASE cleaned' = cleaned \cup {r} /\ RemoveHeadIfRun(r)
           /\ (UNCHANGED <<begun, done>> \/ ForgetSessions(observed[r]))
  <2>1. queue' \in Seq(Runs)
    BY <1>2 DEF SharedTypes, RemoveHeadIfRun
  <2>2. begun' \subseteq Messages /\ done' \subseteq begun'
    BY <1>2, ForgetTypes
  <2> QED
    BY <1>2, <2>1, <2>2 DEF RunTypes
<1> QED
  BY <1>1, <1>2 DEF TryCleanup

LEMMA AbortTypes ==
  ASSUME RunTypes, SharedTypes, AbortAll
  PROVE  /\ forced' \subseteq Runs /\ cleaned' \subseteq Runs
         /\ terminal' \in [Runs -> Outcomes \cup {None}]
         /\ closed' \subseteq Runs /\ candidate' \subseteq Runs
         /\ quiet' \subseteq Runs /\ drain' \subseteq Runs /\ idle' \subseteq Runs
         /\ result' \in [Runs -> Outcomes \cup {None}]
         /\ queue' \in Seq(Runs) /\ disrupted' \in BOOLEAN
         /\ begun' \subseteq Messages /\ done' \subseteq begun'
<1> DEFINE live == Queued \ forced
<1> DEFINE over == {r \in live : r \in prompted => r \in taskDone}
<1>1. live \subseteq Runs /\ over \subseteq Runs
  BY DEF Queued, SharedTypes
<1>2. terminal' \in [Runs -> Outcomes \cup {None}]
  BY DEF AbortAll, RunTypes, Outcomes
<1>3. CloseFacts(live) /\ forced' = forced \cup live /\ cleaned' = cleaned \cup over
  BY DEF AbortAll
<1>4. ForgetSessions(UNION {observed[r] : r \in over}) \/ UNCHANGED <<begun, done>>
  BY DEF AbortAll
<1>5. begun' \subseteq Messages /\ done' \subseteq begun'
  BY <1>4, ForgetTypes
<1>6. queue' \in Seq(Runs) /\ disrupted' \in BOOLEAN
  BY DEF AbortAll, RunTypes
<1> HIDE DEF live, over
<1> QED
  BY <1>1, <1>2, <1>3, <1>5, <1>6, CloseTypes DEF RunTypes

LEMMA NextTypes ==
  ASSUME TypeOK, StartedInv, Next
  PROVE  TypeOK'
<1>0. RunTypes /\ SharedTypes
  BY TypesAreTwo
<1>1. ASSUME NEW r \in Runs, Enqueue(r)
      PROVE  RunTypes' /\ SharedTypes'
  <2>1. <<r>> \in Seq(Runs)
    OBVIOUS
  <2>2. prompted' \subseteq Runs /\ idle' \subseteq Runs /\ prompts' \subseteq Runs
    BY <1>0, <1>1, <2>1, StartTypes DEF Enqueue, RunTypes
  <2>3. RunTypes'
    BY <1>0, <1>1, <2>2 DEF RunTypes, Enqueue, endVars, historyVars
  <2>4. queue' \in Seq(Runs) /\ tasks' \in Seq(Runs)
    BY <1>0, <1>1 DEF Enqueue, SharedTypes
  <2> QED
    BY <1>0, <1>1, <2>3, <2>4 DEF SharedTypes, Enqueue, storeVars, historyVars
<1>2. ASSUME Advance
      PROVE  RunTypes' /\ SharedTypes'
  <2>1. Tail(tasks) \in Seq(Runs)
    BY <1>0, <1>2 DEF SharedTypes, Advance
  <2>2. prompted' \subseteq Runs /\ idle' \subseteq Runs /\ prompts' \subseteq Runs
    BY <1>0, <1>2, <2>1, StartTypes DEF Advance
  <2>3. RunTypes'
    BY <1>0, <1>2, <2>2 DEF RunTypes, Advance, endVars, historyVars
  <2>4. SharedTypes'
    BY <1>0, <1>2, <2>1 DEF SharedTypes, Advance, storeVars, historyVars
  <2> QED
    BY <2>3, <2>4
<1>3. ASSUME NEW r \in Runs, PromptReturns(r)
      PROVE  RunTypes' /\ SharedTypes'
  <2>0. /\ prompts' \subseteq Runs /\ returned' \subseteq Runs
        /\ UNCHANGED <<tasks, enqueued, prompted, taskDone, observed, pending,
                       routing, host, author, asked, events, known, stream,
                       misled>>
    BY <1>0, <1>3 DEF PromptReturns, RunTypes, historyVars
  <2>1. ASSUME NEW outcome \in {"completed", "failed"}, SettlePrompt(r, outcome)
        PROVE  RunTypes' /\ SharedTypes'
    <3>1. terminal' \in [Runs -> Outcomes \cup {None}]
      BY <1>0, <2>1 DEF SettlePrompt, RunTypes, Outcomes
    <3>2. /\ quiet' \subseteq Runs /\ drain' \subseteq Runs
          /\ UNCHANGED <<forced, closed, candidate, idle, disrupted, result,
                         cleaned, queue, begun, done>>
      BY <1>0, <2>1 DEF SettlePrompt, RunTypes
    <3> QED
      BY <1>0, <2>0, <3>1, <3>2 DEF RunTypes, SharedTypes
  <2>2. CASE FailPrompt(r)
    <3>1. CASE r \in forced
      BY <1>0, <2>0, <2>2, <3>1 DEF FailPrompt, endVars, timerVars, RunTypes,
         SharedTypes
    <3>2. CASE r \notin forced
      <4>1. terminal' \in [Runs -> Outcomes \cup {None}] /\ {r} \in SUBSET Runs
        BY <1>0, <2>2, <3>2 DEF FailPrompt, RunTypes, Outcomes
      <4>2. CloseFacts({r}) /\ forced' = forced \cup {r} /\ disrupted' = TRUE
            /\ UNCHANGED <<cleaned, queue, begun, done>>
        BY <2>2, <3>2 DEF FailPrompt
      <4>3. /\ closed' \subseteq Runs /\ candidate' \subseteq Runs
            /\ quiet' \subseteq Runs /\ drain' \subseteq Runs
            /\ idle' \subseteq Runs
            /\ result' \in [Runs -> Outcomes \cup {None}]
        BY <1>0, <4>1, <4>2, CloseTypes
      <4> QED
        BY <1>0, <2>0, <4>1, <4>2, <4>3 DEF RunTypes, SharedTypes
    <3> QED
      BY <3>1, <3>2
  <2>3. CASE AbortAll
    BY <1>0, <2>0, <2>3, AbortTypes DEF RunTypes, SharedTypes
  <2> QED
    BY <1>3, <2>1, <2>2, <2>3 DEF PromptReturns
<1>4. ASSUME NEW r \in Runs, TaskFinishes(r)
      PROVE  RunTypes' /\ SharedTypes'
  <2>1. /\ returned' \subseteq Runs /\ taskDone' \subseteq Runs
        /\ UNCHANGED <<terminal, closed, tasks, enqueued, prompted, forced,
                       result, disrupted, candidate, quiet, drain, idle,
                       observed, pending, routing, prompts, host, author,
                       asked, events, known, stream, misled>>
    BY <1>0, <1>4 DEF TaskFinishes, RunTypes, timerVars, hostVars, historyVars
  <2>2. /\ cleaned' \subseteq Runs /\ queue' \in Seq(Runs)
        /\ begun' \subseteq Messages /\ done' \subseteq begun'
    <3>1. CASE r \in taskDone
      BY <1>0, <1>4, <3>1 DEF TaskFinishes, RunTypes, SharedTypes
    <3>2. CASE r \notin taskDone
      BY <1>0, <1>4, <3>2, CleanupTypes DEF TaskFinishes
    <3> QED
      BY <3>1, <3>2
  <2> QED
    BY <1>0, <2>1, <2>2 DEF RunTypes, SharedTypes
<1>5. ASSUME CloseSession
      PROVE  RunTypes' /\ SharedTypes'
  <2>1. /\ AbortAll
        /\ UNCHANGED <<tasks, enqueued, prompted, taskDone, observed, pending,
                       routing, returned, prompts, host, author, asked, events,
                       known, stream, misled>>
    BY <1>5 DEF CloseSession, hostVars, historyVars
  <2> QED
    BY <1>0, <2>1, AbortTypes DEF RunTypes, SharedTypes
<1>6. ASSUME NEW r \in Runs, DrainEnds(r)
      PROVE  RunTypes' /\ SharedTypes'
  <2>1. /\ CloseFacts({r}) /\ TryCleanup(r) /\ {r} \in SUBSET Runs
        /\ UNCHANGED <<terminal, taskDone, forced, disrupted, tasks, enqueued,
                       prompted, observed, pending, routing, returned, prompts,
                       host, author, asked, events, known, stream, misled>>
    BY <1>6 DEF DrainEnds, hostVars, historyVars
  <2>2. /\ cleaned' \subseteq Runs /\ queue' \in Seq(Runs)
        /\ begun' \subseteq Messages /\ done' \subseteq begun'
    BY <1>0, <2>1, CleanupTypes
  <2>3. terminal' \in [Runs -> Outcomes \cup {None}]
    BY <1>0, <2>1 DEF RunTypes
  <2>4. /\ closed' \subseteq Runs /\ candidate' \subseteq Runs
        /\ quiet' \subseteq Runs /\ drain' \subseteq Runs /\ idle' \subseteq Runs
        /\ result' \in [Runs -> Outcomes \cup {None}]
    BY <1>0, <2>1, <2>3, CloseTypes
  <2> QED
    BY <1>0, <2>1, <2>2, <2>3, <2>4 DEF RunTypes, SharedTypes
<1>7. ASSUME NEW r \in Runs, IdleTimeout(r)
      PROVE  RunTypes' /\ SharedTypes'
  <2>0. UNCHANGED <<tasks, enqueued, prompted, observed, pending, routing,
                    returned, prompts, host, author, asked, events, known,
                    stream, misled>>
    BY <1>7 DEF IdleTimeout, hostVars, historyVars
  <2>1. CASE Asking(r)
    BY <1>0, <1>7, <2>0, <2>1 DEF IdleTimeout, endVars, RunTypes, SharedTypes
  <2>2. CASE ~Asking(r)
    <3>1. /\ ForceTimeout(r) /\ CloseFacts({r}) /\ TryCleanup(r)
          /\ UNCHANGED disrupted /\ {r} \in SUBSET Runs
      BY <1>7, <2>2 DEF IdleTimeout
    <3>2. /\ terminal' \in [Runs -> Outcomes \cup {None}]
          /\ forced' \subseteq Runs /\ taskDone' \subseteq Runs
      BY <1>0, <3>1 DEF ForceTimeout, RunTypes, Outcomes
    <3>3. /\ closed' \subseteq Runs /\ candidate' \subseteq Runs
          /\ quiet' \subseteq Runs /\ drain' \subseteq Runs
          /\ idle' \subseteq Runs
          /\ result' \in [Runs -> Outcomes \cup {None}]
      BY <1>0, <3>1, <3>2, CloseTypes
    <3>4. /\ cleaned' \subseteq Runs /\ queue' \in Seq(Runs)
          /\ begun' \subseteq Messages /\ done' \subseteq begun'
      BY <1>0, <3>1, CleanupTypes
    <3> QED
      BY <1>0, <2>0, <3>1, <3>2, <3>3, <3>4 DEF RunTypes, SharedTypes
  <2> QED
    BY <2>1, <2>2
<1>8. ASSUME NEW i \in 1..MaxEvents, ResolveEvent(i)
      PROVE  RunTypes' /\ SharedTypes'
  <2>0. /\ i \in DOMAIN events /\ events' = Drop(i)
        /\ UNCHANGED <<queueVars, endVars, timerVars, storeVars, pending,
                       returned, prompts, host, author, asked, historyVars>>
    BY <1>8 DEF ResolveEvent
  <2>1. RunTypes'
    BY <1>0, <2>0 DEF RunTypes, queueVars, endVars, timerVars, historyVars
  <2>2. events' \in Seq(Events) /\ events[i] \in Events
    BY <1>0, <2>0, DropIsTyped DEF SharedTypes
  <2>3. known' \subseteq Sessions
    BY <1>0, <1>8 DEF ResolveEvent, SharedTypes, Sessions, Home
  <2>4. routing' = None \/ routing' \in [event : Events, run : Runs]
    <3>1. CASE routing' = routing
      BY <1>0, <3>1 DEF SharedTypes
    <3>2. CASE queue # <<>> /\ routing' = [event |-> events[i], run |-> Head(queue)]
      BY <1>0, <2>2, <3>2 DEF SharedTypes
    <3> QED
      BY <1>8, <3>1, <3>2 DEF ResolveEvent
  <2> QED
    BY <1>0, <2>0, <2>1, <2>2, <2>3, <2>4 DEF SharedTypes, queueVars, storeVars,
       historyVars
<1>9. ASSUME RouteEvent
      PROVE  RunTypes' /\ SharedTypes'
  <2> DEFINE e == routing.event
             r == routing.run
  <2>0. e \in Events /\ r \in Runs
    BY <1>0, <1>9 DEF SharedTypes, RouteEvent
  <2>1. /\ routing' = None /\ PushFacts(r, e)
        /\ begun' = begun \cup Begins(e) /\ done' = done \cup Ends(e)
        /\ observed' = [observed EXCEPT ![r] = @ \cup {Home(e.message)}]
        /\ pending' = IF Asks(e) THEN [pending EXCEPT ![e.token] = r] ELSE pending
        /\ idle' \in {idle, idle \cup {r}}
        /\ UNCHANGED <<queueVars, endVars, drain, returned, hostVars>>
    BY <1>9 DEF RouteEvent
  <2> HIDE DEF e, r
  <2>2. e.message \in Messages
    BY <2>0 DEF Events
  <2>3. begun' \subseteq Messages /\ done' \subseteq begun'
    BY <1>0, <2>1, <2>2 DEF SharedTypes, Begins, Ends
  <2>4. observed' \in [Runs -> SUBSET Sessions]
    BY <1>0, <2>0, <2>1 DEF SharedTypes, Home, Sessions
  <2>5. pending' \in [Tokens -> Runs \cup {None}]
    BY <1>0, <2>0, <2>1 DEF SharedTypes
  <2>6. /\ candidate' \subseteq Runs /\ quiet' \subseteq Runs /\ misled' \subseteq Runs
    BY <1>0, <2>0, <2>1 DEF PushFacts, RunTypes
  <2>7. stream' \in [Runs -> [Messages -> MessageStates]]
    <3>1. CASE UNCHANGED stream
      BY <1>0, <3>1 DEF SharedTypes
    <3>2. CASE /\ Told(e, stream[r][e.message]) # "misled"
               /\ stream' = [stream EXCEPT ![r][e.message] =
                               Told(e, stream[r][e.message])]
      <4>1. stream[r][e.message] \in MessageStates
        BY <1>0, <2>0, <2>2 DEF SharedTypes
      <4>2. Told(e, stream[r][e.message]) \in MessageStates
        BY <3>2, <4>1 DEF Told, MessageStates
      <4> QED
        BY <1>0, <2>0, <2>2, <3>2, <4>2 DEF SharedTypes
    <3> QED
      BY <2>1, <3>1, <3>2 DEF PushFacts
  <2>8. RunTypes'
    BY <1>0, <2>0, <2>1, <2>6 DEF RunTypes, queueVars, endVars, hostVars
  <2> QED
    BY <1>0, <2>1, <2>3, <2>4, <2>5, <2>7, <2>8 DEF SharedTypes, queueVars, hostVars
<1>10. ASSUME NEW t \in Tokens, ReplyInteraction(t)
       PROVE  RunTypes' /\ SharedTypes'
  <2>1. /\ pending' = [pending EXCEPT ![t] = None]
        /\ idle' \in {idle, idle \cup {pending[t]}} /\ pending[t] # None
        /\ asked' \in {asked, [asked EXCEPT ![t] = "replied"]}
        /\ UNCHANGED <<queueVars, endVars, candidate, quiet, drain, storeVars,
                       routing, returned, prompts, host, author, events, known,
                       historyVars>>
    BY <1>10 DEF ReplyInteraction
  <2>2. pending[t] \in Runs
    BY <1>0, <2>1 DEF SharedTypes
  <2>3. RunTypes'
    BY <1>0, <2>1, <2>2 DEF RunTypes, queueVars, endVars, historyVars
  <2>4. pending' \in [Tokens -> Runs \cup {None}]
    BY <1>0, <2>1 DEF SharedTypes
  <2>5. asked' \in [Tokens -> {"no", "open", "replied", "answered"}]
    BY <1>0, <2>1 DEF SharedTypes
  <2> QED
    BY <1>0, <2>1, <2>3, <2>4, <2>5 DEF SharedTypes, queueVars, storeVars,
       historyVars
<1>11. ASSUME UNCHANGED <<queueVars, endVars, timerVars, storeVars, pending,
                          routing, returned, prompts, known, historyVars>>,
              events' = events \/ \E kind \in Kinds, m \in Messages,
                                     t \in Tokens \cup {None} :
                events' = Append(events, EventOf(kind, m, t, Home(m))),
              host' \in [Messages -> {"none", "open", "spoke", "ended"}],
              author' \in [Messages -> Runs \cup {None}],
              asked' \in [Tokens -> {"no", "open", "replied", "answered"}]
       PROVE  RunTypes' /\ SharedTypes'
  <2>1. RunTypes'
    BY <1>0, <1>11 DEF RunTypes, queueVars, endVars, timerVars, historyVars
  <2>2. events' \in Seq(Events)
    <3>1. ASSUME NEW kind \in Kinds, NEW m \in Messages,
                 NEW t \in Tokens \cup {None}
          PROVE  EventOf(kind, m, t, Home(m)) \in Events
      BY DEF EventOf, Events
    <3>2. events \in Seq(Events)
      BY <1>0 DEF SharedTypes
    <3>3. \A e \in Events : Append(events, e) \in Seq(Events)
      BY <3>2
    <3> QED
      BY <1>11, <3>1, <3>2, <3>3
  <2> QED
    BY <1>0, <1>11, <2>1, <2>2 DEF SharedTypes, queueVars, storeVars, historyVars
<1>12. ASSUME HostStep
       PROVE  RunTypes' /\ SharedTypes'
  <2>0. /\ host \in [Messages -> {"none", "open", "spoke", "ended"}]
        /\ author \in [Messages -> Runs \cup {None}]
        /\ asked \in [Tokens -> {"no", "open", "replied", "answered"}]
        /\ prompts \subseteq Runs
    BY <1>0 DEF SharedTypes, RunTypes
  <2>1. ASSUME NEW m \in Messages, HostBegins(m)
        PROVE  RunTypes' /\ SharedTypes'
    <3>1. /\ host' \in [Messages -> {"none", "open", "spoke", "ended"}]
          /\ author' \in [Messages -> Runs \cup {None}]
      BY <2>0, <2>1 DEF HostBegins
    <3> QED
      BY <1>11, <2>0, <2>1, <3>1 DEF HostBegins, Publish, Kinds
  <2>2. ASSUME NEW m \in Messages, HostWrites(m)
        PROVE  RunTypes' /\ SharedTypes'
    <3>1. host' \in [Messages -> {"none", "open", "spoke", "ended"}]
      BY <2>0, <2>2 DEF HostWrites
    <3> QED
      BY <1>11, <2>0, <2>2, <3>1 DEF HostWrites, Publish, Kinds
  <2>3. ASSUME NEW t \in Tokens, HostAsks(t) \/ HostIsAnswered(t)
        PROVE  RunTypes' /\ SharedTypes'
    <3>1. asked' \in [Tokens -> {"no", "open", "replied", "answered"}]
      BY <2>0, <2>3 DEF HostAsks, HostIsAnswered
    <3>2. About[t] \in Messages
      BY TokensHaveMessages
    <3> QED
      BY <1>11, <2>0, <2>3, <3>1, <3>2 DEF HostAsks, HostIsAnswered, Publish, Kinds
  <2> QED
    BY <1>12, <2>1, <2>2, <2>3 DEF HostStep
<1>13. RunTypes' /\ SharedTypes'
  BY <1>1, <1>2, <1>3, <1>4, <1>5, <1>6, <1>7, <1>8, <1>9, <1>10, <1>12
  DEF Next, EventLoop
<1> QED
  BY <1>13 DEF TypeOK, RunTypes, SharedTypes

-----------------------------------------------------------------------------
(* The queue of the registry and the tasks of the coordinator. *)

LEMMA QueueIsSerial ==
  ASSUME TypeOK, OrderInv
  PROVE  /\ Queued \subseteq Waiting /\ Waiting \subseteq enqueued
         /\ \A i \in 1..Len(queue) : i > 1 => queue[i] \notin prompted
         /\ \A i, j \in 1..Len(queue) : queue[i] = queue[j] => i = j
         /\ \A r \in Queued \cap prompted : queue # <<>> /\ Head(queue) = r
<1>0. queue \in Seq(Runs) /\ tasks \in Seq(Runs)
  BY DEF TypeOK
<1> DEFINE at(i) == Len(tasks) - Len(queue) + i
<1>1. ASSUME NEW i \in 1..Len(queue)
      PROVE  at(i) \in 1..Len(tasks) /\ queue[i] = tasks[at(i)]
  BY <1>0 DEF OrderInv
<1>2. Queued \subseteq Waiting /\ Waiting \subseteq enqueued
  <2>1. DOMAIN queue = 1..Len(queue) /\ DOMAIN tasks = 1..Len(tasks)
    BY <1>0
  <2>2. Queued \subseteq Waiting
    BY <1>1, <2>1 DEF Queued, Waiting
  <2> QED
    BY <2>1, <2>2 DEF Waiting, OrderInv
<1>3. \A i \in 1..Len(queue) : i > 1 => queue[i] \notin prompted
  <2>1. ASSUME NEW i \in 1..Len(queue), i > 1
        PROVE  queue[i] \notin prompted
    <3>1. at(i) > 1
      BY <1>0, <2>1 DEF OrderInv
    <3> QED
      BY <1>1, <3>1 DEF OrderInv
  <2> QED
    BY <2>1
<1>4. \A i, j \in 1..Len(queue) : queue[i] = queue[j] => i = j
  <2>1. ASSUME NEW i \in 1..Len(queue), NEW j \in 1..Len(queue), queue[i] = queue[j]
        PROVE  i = j
    <3>1. at(i) = at(j)
      BY <1>1, <2>1 DEF OrderInv
    <3> QED
      BY <1>0, <3>1
  <2> QED
    BY <2>1
<1>5. ASSUME NEW r \in Queued \cap prompted
      PROVE  queue # <<>> /\ Head(queue) = r
  <2>1. PICK i \in 1..Len(queue) : queue[i] = r
    BY <1>0, <1>5 DEF Queued
  <2>2. i = 1
    BY <1>3, <1>5, <2>1
  <2> QED
    BY <1>0, <2>1, <2>2
<1> QED
  BY <1>2, <1>3, <1>4, <1>5

LEMMA TailOfQueue ==
  ASSUME TypeOK, OrderInv, queue # <<>>, queue' = Tail(queue)
  PROVE  Queued' = Queued \ {Head(queue)}
<1>0. queue \in Seq(Runs)
  BY DEF TypeOK
<1>1. /\ Len(queue') = Len(queue) - 1 /\ queue' \in Seq(Runs)
      /\ \A i \in 1..Len(queue') : queue'[i] = queue[i + 1]
      /\ Head(queue) = queue[1] /\ Len(queue) > 0
  BY <1>0
<1>2. ASSUME NEW r \in Queued'
      PROVE  r \in Queued \ {Head(queue)}
  <2>1. PICK i \in 1..Len(queue') : queue'[i] = r
    BY <1>1, <1>2 DEF Queued
  <2>2. i + 1 \in 1..Len(queue) /\ queue[i + 1] = r /\ i + 1 # 1
    BY <1>0, <1>1, <2>1
  <2>3. r # queue[1]
    BY <1>0, <1>1, <2>2, QueueIsSerial
  <2> QED
    BY <1>0, <1>1, <2>2, <2>3 DEF Queued
<1>3. ASSUME NEW r \in Queued \ {Head(queue)}
      PROVE  r \in Queued'
  <2>1. PICK i \in 1..Len(queue) : queue[i] = r
    BY <1>0, <1>3 DEF Queued
  <2>2. i - 1 \in 1..Len(queue') /\ queue'[i - 1] = r
    BY <1>0, <1>1, <1>3, <2>1
  <2>3. DOMAIN queue' = 1..Len(queue')
    BY <1>1
  <2> QED
    BY <2>2, <2>3 DEF Queued
<1> QED
  BY <1>2, <1>3

LEMMA AppendToQueue ==
  ASSUME TypeOK, NEW r \in Runs, queue' = Append(queue, r)
  PROVE  Queued' = Queued \cup {r}
<1>0. queue \in Seq(Runs)
  BY DEF TypeOK
<1>1. /\ queue' \in Seq(Runs) /\ Len(queue') = Len(queue) + 1
      /\ \A i \in 1..Len(queue) : queue'[i] = queue[i]
      /\ queue'[Len(queue) + 1] = r
  BY <1>0
<1>2. \A i \in 1..Len(queue') : i \in 1..Len(queue) \/ i = Len(queue) + 1
  BY <1>0, <1>1
<1>3. Len(queue) + 1 \in 1..Len(queue')
      /\ \A i \in 1..Len(queue) : i \in 1..Len(queue')
  BY <1>0, <1>1
<1> QED
  BY <1>0, <1>1, <1>2, <1>3 DEF Queued

\* A run that is cleaned up leaves the queue from its front, or is not there.
LEMMA CleanupQueue ==
  ASSUME TypeOK, OrderInv, NEW r \in prompted, TryCleanup(r)
  PROVE  \/ /\ r \in cleaned \/ terminal'[r] = None \/ r \notin closed'
               \/ r \notin taskDone'
            /\ UNCHANGED <<cleaned, queue, begun, done>>
         \/ /\ r \notin cleaned /\ cleaned' = cleaned \cup {r}
            /\ terminal'[r] # None /\ r \in closed' /\ r \in taskDone'
            /\ Queued' = Queued \ {r}
            /\ \/ r \notin Queued /\ UNCHANGED queue
               \/ queue # <<>> /\ Head(queue) = r /\ queue' = Tail(queue)
            /\ r \in Queued => ForgetSessions(observed[r])
<1>0. queue \in Seq(Runs)
  BY DEF TypeOK
<1>1. CASE \/ r \in cleaned \/ terminal'[r] = None \/ r \notin closed'
           \/ (r \in prompted /\ r \notin taskDone')
  BY <1>1 DEF TryCleanup
<1>2. CASE ~(\/ r \in cleaned \/ terminal'[r] = None \/ r \notin closed'
             \/ (r \in prompted /\ r \notin taskDone'))
  <2>1. /\ cleaned' = cleaned \cup {r} /\ RemoveHeadIfRun(r)
        /\ ~(queue # <<>> /\ Head(queue) # r) => ForgetSessions(observed[r])
    BY <1>2 DEF TryCleanup
  <2>2. CASE r \in Queued
    <3>1. queue # <<>> /\ Head(queue) = r
      BY <2>2, QueueIsSerial
    <3>2. queue' = Tail(queue)
      BY <2>1, <3>1 DEF RemoveHeadIfRun
    <3> QED
      BY <1>2, <2>1, <3>1, <3>2, TailOfQueue
  <2>3. CASE r \notin Queued
    <3>1. ~(queue # <<>> /\ Head(queue) = r)
      BY <1>0, <2>3 DEF Queued
    <3>2. queue' = queue
      BY <2>1, <3>1 DEF RemoveHeadIfRun
    <3>3. Queued' = Queued
      BY <3>2 DEF Queued
    <3> QED
      BY <1>2, <2>1, <2>3, <3>2, <3>3
  <2> QED
    BY <2>2, <2>3
<1> QED
  BY <1>1, <1>2

\* What leaves the queue leaves the order as it is.
LEMMA OrderStays ==
  ASSUME TypeOK, OrderInv, UNCHANGED <<tasks, enqueued, prompted>>,
         queue' = queue \/ queue' = <<>> \/ (queue # <<>> /\ queue' = Tail(queue))
  PROVE  OrderInv'
<1>0. queue \in Seq(Runs) /\ tasks \in Seq(Runs)
  BY DEF TypeOK
<1>1. CASE queue' = queue
  BY <1>1 DEF OrderInv
<1>2. CASE queue' = <<>>
  BY <1>0, <1>2 DEF OrderInv
<1>3. CASE queue # <<>> /\ queue' = Tail(queue)
  <2>1. /\ Len(queue') = Len(queue) - 1 /\ Len(queue') \in Nat
        /\ \A i \in 1..Len(queue') : queue'[i] = queue[i + 1]
    BY <1>0, <1>3
  <2>2. ASSUME NEW i \in 1..Len(queue')
        PROVE  queue'[i] = tasks[Len(tasks) - Len(queue') + i]
    <3>1. i + 1 \in 1..Len(queue)
      BY <1>0, <2>1
    <3>2. queue[i + 1] = tasks[Len(tasks) - Len(queue) + (i + 1)]
      BY <3>1 DEF OrderInv
    <3> QED
      BY <1>0, <2>1, <3>2
  <2> QED
    BY <1>0, <2>1, <2>2 DEF OrderInv
<1> QED
  BY <1>1, <1>2, <1>3

LEMMA OverIsNotQueued ==
  ASSUME TypeOK, StartedInv, EndInv, NEW r \in Runs, TaskOver(r)
  PROVE  r \notin Queued
  BY DEF TypeOK, StartedInv, EndInv, TaskOver

LEMMA NextOrderInv ==
  ASSUME TypeOK, OrderInv, StartedInv, EndInv, Next
  PROVE  OrderInv'
<1>0. queue \in Seq(Runs) /\ tasks \in Seq(Runs)
  BY DEF TypeOK
<1>1. ASSUME NEW r \in Runs, Enqueue(r)
      PROVE  OrderInv'
  <2>1. /\ enqueued' = enqueued \cup {r} /\ r \notin enqueued
        /\ queue' = Append(queue, r) /\ tasks' = Append(tasks, r)
        /\ prompted' = prompted \/ (tasks = <<>> /\ prompted' = prompted \cup {r})
    BY <1>1 DEF Enqueue, StartPrompt
  <2>2. /\ Len(queue') = Len(queue) + 1 /\ queue'[Len(queue) + 1] = r
        /\ \A i \in 1..Len(queue) : queue'[i] = queue[i]
        /\ Len(tasks') = Len(tasks) + 1 /\ tasks'[Len(tasks) + 1] = r
        /\ \A i \in 1..Len(tasks) : tasks'[i] = tasks[i]
    BY <1>0, <2>1
  <2>3. \A i \in 1..Len(tasks) : tasks[i] # r
    BY <2>1 DEF OrderInv
  <2>4. r \notin prompted
    BY <2>1 DEF StartedInv
  <2>5. ASSUME NEW i \in 1..Len(queue')
        PROVE  queue'[i] = tasks'[Len(tasks') - Len(queue') + i]
    <3>1. CASE i = Len(queue) + 1
      BY <1>0, <2>2, <3>1
    <3>2. CASE i \in 1..Len(queue)
      <4>1. Len(tasks) - Len(queue) + i \in 1..Len(tasks)
        BY <1>0, <3>2 DEF OrderInv
      <4> QED
        BY <1>0, <2>2, <3>2, <4>1 DEF OrderInv
    <3> QED
      BY <1>0, <2>2, <3>1, <3>2
  <2>6. ASSUME NEW i \in 1..Len(tasks'), NEW j \in 1..Len(tasks'),
               tasks'[i] = tasks'[j]
        PROVE  i = j
    BY <1>0, <2>2, <2>3, <2>6 DEF OrderInv
  <2>7. ASSUME NEW i \in 1..Len(tasks')
        PROVE  tasks'[i] \in enqueued' /\ (i > 1 => tasks'[i] \notin prompted')
    <3>1. CASE i = Len(tasks) + 1
      <4>1. i > 1 => tasks # <<>>
        BY <1>0, <3>1
      <4> QED
        BY <2>1, <2>2, <2>4, <3>1, <4>1
    <3>2. CASE i \in 1..Len(tasks)
      <4>1. tasks # <<>>
        BY <1>0, <3>2
      <4> QED
        BY <2>1, <2>2, <3>2, <4>1 DEF OrderInv
    <3> QED
      BY <1>0, <2>2, <3>1, <3>2
  <2>8. Len(queue') <= Len(tasks')
    BY <1>0, <2>2 DEF OrderInv
  <2> QED
    BY <2>5, <2>6, <2>7, <2>8 DEF OrderInv
<1>2. ASSUME Advance
      PROVE  OrderInv'
  <2>1. /\ tasks # <<>> /\ TaskOver(Head(tasks)) /\ tasks' = Tail(tasks)
        /\ UNCHANGED <<queue, enqueued>>
        /\ \/ prompted' = prompted
           \/ tasks' # <<>> /\ prompted' = prompted \cup {Head(tasks')}
    BY <1>2 DEF Advance, StartPrompt
  <2>2. /\ Head(tasks) \in Runs /\ Head(tasks) = tasks[1] /\ tasks' \in Seq(Runs)
        /\ Len(tasks) > 0 /\ Len(tasks') = Len(tasks) - 1
        /\ \A i \in 1..Len(tasks') : tasks'[i] = tasks[i + 1]
        /\ tasks' # <<>> => Head(tasks') = tasks[2] /\ Len(tasks) > 1
    BY <1>0, <2>1
  <2>3. Len(queue) < Len(tasks)
    <3>1. CASE Len(queue) = Len(tasks)
      <4>1. queue[1] = tasks[1] /\ 1 \in DOMAIN queue
        BY <1>0, <2>2, <3>1 DEF OrderInv
      <4>2. tasks[1] \in Queued
        BY <4>1 DEF Queued
      <4> QED
        BY <2>1, <2>2, <4>2, OverIsNotQueued
    <3> QED
      BY <1>0, <3>1 DEF OrderInv
  <2>4. ASSUME NEW i \in 1..Len(queue)
        PROVE  queue[i] = tasks'[Len(tasks') - Len(queue) + i]
    <3>1. Len(tasks') - Len(queue) + i \in 1..Len(tasks')
      BY <1>0, <2>2, <2>3
    <3>2. (Len(tasks') - Len(queue) + i) + 1 = Len(tasks) - Len(queue) + i
      BY <1>0, <2>2
    <3> QED
      BY <2>2, <3>1, <3>2 DEF OrderInv
  <2>5. ASSUME NEW i \in 1..Len(tasks'), NEW j \in 1..Len(tasks'),
               tasks'[i] = tasks'[j]
        PROVE  i = j
    <3>1. i + 1 \in 1..Len(tasks) /\ j + 1 \in 1..Len(tasks)
      BY <1>0, <2>2
    <3>2. i + 1 = j + 1
      BY <2>2, <2>5, <3>1 DEF OrderInv
    <3> QED
      BY <3>2
  <2>6. ASSUME NEW i \in 1..Len(tasks')
        PROVE  tasks'[i] \in enqueued' /\ (i > 1 => tasks'[i] \notin prompted')
    <3>1. i + 1 \in 1..Len(tasks) /\ i + 1 > 1 /\ tasks'[i] = tasks[i + 1]
      BY <1>0, <2>2
    <3>2. tasks[i + 1] \in enqueued /\ tasks[i + 1] \notin prompted
      BY <3>1 DEF OrderInv
    <3>3. i > 1 /\ tasks' # <<>> => tasks[i + 1] # tasks[2]
      BY <2>2, <3>1 DEF OrderInv
    <3> QED
      BY <2>1, <2>2, <3>1, <3>2, <3>3
  <2>7. Len(queue') <= Len(tasks')
    BY <1>0, <2>1, <2>2, <2>3
  <2> QED
    BY <2>1, <2>4, <2>5, <2>6, <2>7 DEF OrderInv
<1>3. ASSUME NEW r \in Runs, PromptReturns(r)
      PROVE  OrderInv'
  <2>1. queue' = queue \/ queue' = <<>>
    BY <1>3 DEF PromptReturns, SettlePrompt, FailPrompt, AbortAll
  <2>2. UNCHANGED <<tasks, enqueued, prompted>>
    BY <1>3 DEF PromptReturns
  <2> QED
    BY <2>1, <2>2, OrderStays
<1>4. ASSUME NEW r \in Runs, TaskFinishes(r) \/ DrainEnds(r) \/ IdleTimeout(r)
      PROVE  OrderInv'
  <2>1. r \in prompted
    BY <1>4 DEF TaskFinishes, DrainEnds, IdleTimeout, StartedInv
  <2>2. queue' = queue \/ TryCleanup(r)
    BY <1>4 DEF TaskFinishes, DrainEnds, IdleTimeout
  <2>3. queue' = queue \/ (queue # <<>> /\ queue' = Tail(queue))
    BY <2>1, <2>2, CleanupQueue
  <2>4. UNCHANGED <<tasks, enqueued, prompted>>
    BY <1>4 DEF TaskFinishes, DrainEnds, IdleTimeout
  <2> QED
    BY <2>3, <2>4, OrderStays
<1>5. CASE CloseSession
  BY <1>5, OrderStays DEF CloseSession, AbortAll
<1>6. CASE UNCHANGED queueVars
  BY <1>6, OrderStays DEF queueVars
<1> QED
  BY <1>1, <1>2, <1>3, <1>4, <1>5, <1>6
  DEF Next, EventLoop, ResolveEvent, RouteEvent, ReplyInteraction, HostStep,
      HostBegins, HostWrites, HostAsks, HostIsAnswered, Publish

LEMMA NextStartedInv ==
  ASSUME TypeOK, OrderInv, StartedInv, EndInv, Next
  PROVE  StartedInv'
<1>1. ASSUME NEW r \in Runs, Enqueue(r)
      PROVE  StartedInv'
  <2>1. /\ enqueued' = enqueued \cup {r}
        /\ UNCHANGED <<cleaned, closed, quiet, drain, returned, taskDone, routing,
                       stream>>
    BY <1>1 DEF Enqueue, endVars, historyVars
  <2>2. \/ UNCHANGED <<prompted, idle, prompts>>
        \/ /\ prompted' = prompted \cup {r} /\ idle' = idle \cup {r}
           /\ prompts' = prompts \cup {r}
    BY <1>1 DEF Enqueue, StartPrompt
  <2> QED
    BY <2>1, <2>2 DEF StartedInv
<1>2. ASSUME Advance
      PROVE  StartedInv'
  <2>1. /\ tasks # <<>>
        /\ UNCHANGED <<enqueued, cleaned, closed, quiet, drain, returned, taskDone,
                       routing, stream>>
    BY <1>2 DEF Advance, endVars, historyVars
  <2>2. \/ UNCHANGED <<prompted, idle, prompts>>
        \/ /\ Tail(tasks) # <<>>
           /\ prompted' = prompted \cup {Head(Tail(tasks))}
           /\ idle' = idle \cup {Head(Tail(tasks))}
           /\ prompts' = prompts \cup {Head(Tail(tasks))}
    BY <1>2 DEF Advance, StartPrompt
  <2>3. Tail(tasks) # <<>> => Head(Tail(tasks)) \in enqueued
    BY <2>1 DEF TypeOK, OrderInv
  <2> QED
    BY <2>1, <2>2, <2>3 DEF StartedInv
<1>3. ASSUME NEW r \in Runs, PromptReturns(r)
      PROVE  StartedInv'
  <2>1. /\ r \in prompts /\ prompts' = prompts \ {r}
        /\ returned' = returned \cup {r}
        /\ UNCHANGED <<enqueued, prompted, taskDone, routing, stream>>
    BY <1>3 DEF PromptReturns, historyVars
  <2>2. /\ cleaned' \subseteq cleaned \cup Queued
        /\ closed' \subseteq closed \cup Queued \cup {r}
    BY <1>3 DEF PromptReturns, SettlePrompt, FailPrompt, endVars, AbortAll, CloseFacts
  <2>3. /\ quiet' \subseteq quiet \cup {r} /\ drain' \subseteq drain \cup {r}
        /\ idle' \subseteq idle
    BY <1>3 DEF PromptReturns, SettlePrompt, FailPrompt, endVars, timerVars,
       AbortAll, CloseFacts
  <2> QED
    BY <2>1, <2>2, <2>3, QueueIsSerial DEF StartedInv
<1>4. ASSUME NEW r \in Runs, TaskFinishes(r) \/ DrainEnds(r) \/ IdleTimeout(r)
      PROVE  StartedInv'
  <2>1. r \in prompted
    BY <1>4 DEF TaskFinishes, DrainEnds, IdleTimeout, StartedInv
  <2>2. /\ UNCHANGED <<enqueued, prompted, routing, stream, prompts>>
        /\ returned' \subseteq returned /\ taskDone' \subseteq taskDone \cup {r}
    BY <1>4 DEF TaskFinishes, DrainEnds, IdleTimeout, ForceTimeout, hostVars,
       historyVars
  <2>3. cleaned' \subseteq cleaned \cup {r} /\ closed' \subseteq closed \cup {r}
    BY <1>4 DEF TaskFinishes, DrainEnds, IdleTimeout, TryCleanup, CloseFacts, endVars
  <2>4. quiet' \subseteq quiet /\ drain' \subseteq drain /\ idle' \subseteq idle
    BY <1>4 DEF TaskFinishes, DrainEnds, IdleTimeout, timerVars, CloseFacts
  <2> QED
    BY <2>1, <2>2, <2>3, <2>4 DEF StartedInv
<1>5. ASSUME CloseSession
      PROVE  StartedInv'
  <2>1. UNCHANGED <<enqueued, prompted, taskDone, routing, stream, prompts, returned>>
    BY <1>5 DEF CloseSession, hostVars, historyVars
  <2>2. /\ cleaned' \subseteq cleaned \cup Queued
        /\ closed' \subseteq closed \cup Queued
        /\ quiet' \subseteq quiet /\ drain' \subseteq drain /\ idle' \subseteq idle
    BY <1>5 DEF CloseSession, AbortAll, CloseFacts
  <2> QED
    BY <2>1, <2>2, QueueIsSerial DEF StartedInv
<1>6. ASSUME NEW i \in 1..MaxEvents, ResolveEvent(i)
      PROVE  StartedInv'
  <2>1. UNCHANGED <<enqueued, prompted, taskDone, cleaned, closed, quiet, drain,
                    idle, returned, prompts, stream>>
    BY <1>6 DEF ResolveEvent, queueVars, endVars, timerVars, historyVars
  <2>2. \/ routing' = routing
        \/ Head(queue) \in prompted
           /\ routing' = [event |-> events[i], run |-> Head(queue)]
    BY <1>6 DEF ResolveEvent
  <2> QED
    BY <2>1, <2>2 DEF StartedInv
<1>7. ASSUME RouteEvent
      PROVE  StartedInv'
  <2> DEFINE r == routing.run
  <2>1. /\ r \in prompted /\ routing' = None
        /\ UNCHANGED <<enqueued, prompted, taskDone, cleaned, closed, drain,
                       returned, prompts>>
    BY <1>7 DEF RouteEvent, queueVars, endVars, hostVars, StartedInv
  <2>2. quiet' \subseteq quiet \cup {r} /\ idle' \subseteq idle \cup {r}
    BY <1>7 DEF RouteEvent, PushFacts
  <2>3. \A q \in Runs \ {r} : stream'[q] = stream[q]
    BY <1>7 DEF RouteEvent, PushFacts, TypeOK
  <2> QED
    BY <2>1, <2>2, <2>3 DEF StartedInv
<1>8. ASSUME NEW t \in Tokens, ReplyInteraction(t)
      PROVE  StartedInv'
  <2>1. UNCHANGED <<enqueued, prompted, taskDone, cleaned, closed, quiet, drain,
                    returned, prompts, routing, stream>>
    BY <1>8 DEF ReplyInteraction, queueVars, endVars, historyVars
  <2>2. idle' \subseteq idle \cup prompted
    BY <1>8 DEF ReplyInteraction, Watchful
  <2> QED
    BY <2>1, <2>2 DEF StartedInv
<1>9. CASE HostStep
  <2>1. UNCHANGED <<queueVars, endVars, timerVars, returned, prompts, routing,
                    historyVars>>
    BY <1>9 DEF HostStep, HostBegins, HostWrites, HostAsks, HostIsAnswered, Publish
  <2> QED
    BY <2>1 DEF StartedInv, queueVars, endVars, timerVars, historyVars
<1> QED
  BY <1>1, <1>2, <1>3, <1>4, <1>5, <1>6, <1>7, <1>8, <1>9 DEF Next, EventLoop

LEMMA WaitingStays ==
  ASSUME UNCHANGED tasks
  PROVE  Waiting' = Waiting
  BY DEF Waiting

\* The result of a run is what its terminal result was when its facts closed.
LEMMA ResultsOfClose ==
  ASSUME TypeOK, EndInv, NEW rs \in SUBSET Runs, CloseFacts(rs),
         \A q \in Runs : terminal[q] # None => terminal'[q] # None
  PROVE  /\ closed' = closed \cup rs
         /\ quiet' = quiet \ rs /\ drain' = drain \ rs
         /\ \A q \in Runs :
              /\ result'[q] # None => terminal'[q] # None /\ q \in closed'
              /\ result[q] # None => result'[q] # None
<1>1. /\ closed' = closed \cup rs /\ quiet' = quiet \ rs /\ drain' = drain \ rs
      /\ SettleIfReady(rs)
  BY DEF CloseFacts
<1>2. ASSUME NEW q \in Runs
      PROVE  /\ result'[q] # None => terminal'[q] # None /\ q \in closed'
             /\ result[q] # None => result'[q] # None
  <2>1. result'[q] = IF q \in rs /\ terminal'[q] # None /\ q \in closed'
                        /\ result[q] = None
                     THEN terminal'[q] ELSE result[q]
    BY <1>1 DEF SettleIfReady
  <2>2. result[q] # None => terminal[q] # None /\ q \in closed
    BY DEF EndInv
  <2> QED
    BY <1>1, <2>1, <2>2
<1> QED
  BY <1>1, <1>2

\* What deletes the queue.
LEMMA AbortEndInv ==
  ASSUME TypeOK, OrderInv, StartedInv, EndInv, AbortAll,
         UNCHANGED <<tasks, enqueued, prompted, taskDone>>,
         prompts' \subseteq prompts, prompts' \cap returned' = {}
  PROVE  EndInv'
<1> DEFINE live == Queued \ forced
<1> DEFINE over == {r \in live : r \in prompted => r \in taskDone}
<1>0. queue \in Seq(Runs) /\ terminal \in [Runs -> Outcomes \cup {None}]
  BY DEF TypeOK
<1>1. live \in SUBSET Runs /\ over \subseteq live
  BY <1>0 DEF Queued
<1>2. /\ forced' = forced \cup live /\ CloseFacts(live)
      /\ cleaned' = cleaned \cup over /\ queue' = <<>>
      /\ terminal' = [r \in Runs |-> IF r \in live THEN "aborted" ELSE terminal[r]]
  BY DEF AbortAll
<1>3. Queued' = {}
  BY <1>2 DEF Queued
<1>4. /\ \A q \in Runs : terminal[q] # None => terminal'[q] # None
      /\ \A q \in live : terminal'[q] # None
      /\ \A q \in Runs \ live : terminal'[q] = terminal[q]
  BY <1>1, <1>2, NoneIsNoOutcome DEF Outcomes
<1>5. Queued \subseteq enqueued /\ live \subseteq Queued /\ Queued \subseteq live \cup forced
  BY QueueIsSerial
<1>6. Waiting' = Waiting
  BY WaitingStays
<1> HIDE DEF live, over
<1>7. /\ closed' = closed \cup live
      /\ quiet' = quiet \ live /\ drain' = drain \ live
      /\ \A q \in Runs :
           /\ result'[q] # None => terminal'[q] # None /\ q \in closed'
           /\ result[q] # None => result'[q] # None
  BY <1>1, <1>2, <1>4, ResultsOfClose
<1>8. forced' \subseteq closed'
  BY <1>2, <1>7 DEF EndInv
<1>9. \A r \in quiet' \cup drain' \cup forced' : terminal'[r] # None
  BY <1>1, <1>2, <1>4, <1>7 DEF EndInv, TypeOK
<1>10. enqueued' \ Queued' \subseteq closed'
  BY <1>3, <1>5, <1>7 DEF EndInv
<1>11. \A r \in Queued' \cup (Runs \ enqueued') :
        r \notin prompted' \/ (r \in taskDone' /\ r \in closed') => terminal'[r] = None
  BY <1>3, <1>4, <1>5, <1>7 DEF EndInv
<1>12. \A r \in enqueued' \ Waiting' : TaskOver(r)'
  BY <1>6, <1>7 DEF EndInv, TaskOver, TypeOK
<1>13. prompts' \cap taskDone' \subseteq forced' /\ cleaned' \cap Queued' = {}
  BY <1>2, <1>3 DEF EndInv
<1> QED
  BY <1>7, <1>8, <1>9, <1>10, <1>11, <1>12, <1>13 DEF EndInv

\* What may end in a cleanup.
LEMMA CleanupEndInv ==
  ASSUME TypeOK, OrderInv, StartedInv, EndInv, NEW r \in prompted, TryCleanup(r),
         UNCHANGED <<tasks, enqueued, prompted, prompts>>, returned' \subseteq returned,
         taskDone \subseteq taskDone', taskDone' \subseteq taskDone \cup {r},
         closed \subseteq closed', closed' \subseteq closed \cup {r},
         forced' \subseteq closed', prompts \cap taskDone' \subseteq forced',
         \A q \in quiet' \cup drain' \cup forced' : terminal'[q] # None,
         \A q \in Runs \ {r} : terminal'[q] = terminal[q],
         \A q \in Runs :
           /\ result'[q] # None => terminal'[q] # None /\ q \in closed'
           /\ result[q] # None => result'[q] # None
  PROVE  EndInv'
<1>1. Queued \subseteq enqueued /\ r \in enqueued
  BY QueueIsSerial DEF StartedInv
<1>2. \/ /\ r \in cleaned \/ terminal'[r] = None \/ r \notin closed' \/ r \notin taskDone'
         /\ UNCHANGED <<cleaned, queue>>
      \/ /\ cleaned' = cleaned \cup {r} /\ Queued' = Queued \ {r} /\ r \in closed'
  BY CleanupQueue
<1>3. UNCHANGED queue => Queued' = Queued
  BY DEF Queued
<1>4. cleaned' \cap Queued' = {} /\ enqueued' \ Queued' \subseteq closed'
  BY <1>2, <1>3 DEF EndInv
<1>5. ASSUME NEW q \in Queued' \cup (Runs \ enqueued'),
             q \notin prompted' \/ (q \in taskDone' /\ q \in closed')
      PROVE  terminal'[q] = None
  <2>1. CASE q = r
    BY <1>1, <1>2, <1>3, <1>5, <2>1 DEF EndInv
  <2>2. CASE q # r
    <3>1. q \in Queued \cup (Runs \ enqueued)
      BY <1>2, <1>3, <1>5, <2>2
    <3>2. q \in Runs
      BY <1>1, <3>1 DEF TypeOK
    <3>3. q \notin prompted \/ (q \in taskDone /\ q \in closed)
      BY <1>5, <2>2
    <3> QED
      BY <2>2, <3>1, <3>2, <3>3 DEF EndInv
  <2> QED
    BY <2>1, <2>2
<1>6. \A q \in enqueued' \ Waiting' : TaskOver(q)'
  BY WaitingStays DEF EndInv, TaskOver, TypeOK
<1>7. prompts' \cap taskDone' \subseteq forced' /\ prompts' \cap returned' = {}
  BY DEF EndInv
<1> QED
  BY <1>4, <1>5, <1>6, <1>7 DEF EndInv

\* The next prompt of the coordinator.
LEMMA StartEndInv ==
  ASSUME TypeOK, EndInv, NEW next \in Runs,
         \/ UNCHANGED <<prompted, prompts>>
         \/ /\ prompted' = prompted \cup {next} /\ prompts' = prompts \cup {next}
            /\ terminal[next] = None /\ next \notin taskDone \cup returned,
         UNCHANGED <<forced, closed, cleaned, terminal, result, quiet, drain,
                     taskDone, returned>>,
         enqueued \subseteq enqueued', cleaned \cap Queued' = {},
         enqueued' \ Queued' \subseteq closed,
         Queued' \cup (Runs \ enqueued') \subseteq Queued \cup (Runs \ enqueued),
         \A q \in enqueued' \ Waiting' :
           q \in Runs /\ TaskOver(q) /\ (q = next => prompted' = prompted)
  PROVE  EndInv'
<1>1. \A q \in Queued' \cup (Runs \ enqueued') :
        q \notin prompted' \/ (q \in taskDone /\ q \in closed) => terminal[q] = None
  BY DEF EndInv
<1>2. prompts' \cap taskDone \subseteq forced /\ prompts' \cap returned = {}
  BY DEF EndInv
<1>3. \A q \in enqueued' \ Waiting' : TaskOver(q)'
  BY DEF TaskOver
<1> QED
  BY <1>1, <1>2, <1>3 DEF EndInv

LEMMA EnqueueEndInv ==
  ASSUME TypeOK, OrderInv, StartedInv, EndInv, NEW r \in Runs, Enqueue(r)
  PROVE  EndInv'
<1>0. queue \in Seq(Runs) /\ tasks \in Seq(Runs) /\ enqueued \subseteq Runs
  BY DEF TypeOK
<1>1. /\ r \notin enqueued /\ enqueued' = enqueued \cup {r}
      /\ queue' = Append(queue, r) /\ tasks' = Append(tasks, r)
      /\ UNCHANGED <<forced, closed, cleaned, terminal, result, quiet, drain,
                     taskDone, returned>>
  BY DEF Enqueue, endVars
<1>2. \/ UNCHANGED <<prompted, prompts>>
      \/ /\ prompted' = prompted \cup {r} /\ prompts' = prompts \cup {r}
         /\ terminal[r] = None
  BY DEF Enqueue, StartPrompt
<1>3. Queued' = Queued \cup {r}
  BY <1>1, AppendToQueue
<1>4. Waiting \subseteq Waiting' /\ r \in Waiting'
  <2>1. /\ tasks' \in Seq(Runs) /\ Len(tasks') = Len(tasks) + 1
        /\ \A i \in 1..Len(tasks) : tasks'[i] = tasks[i]
        /\ tasks'[Len(tasks) + 1] = r
    BY <1>0, <1>1
  <2>2. /\ \A i \in 1..Len(tasks) : i \in DOMAIN tasks'
        /\ Len(tasks) + 1 \in DOMAIN tasks'
    BY <1>0, <2>1
  <2>3. DOMAIN tasks = 1..Len(tasks)
    BY <1>0
  <2> QED
    BY <2>1, <2>2, <2>3 DEF Waiting
<1>5. r \notin taskDone \cup returned /\ cleaned \cap Queued' = {}
  BY <1>1, <1>3 DEF StartedInv, EndInv
<1>6. \A q \in enqueued' \ Waiting' : q # r /\ q \in Runs /\ TaskOver(q)
  BY <1>0, <1>1, <1>4 DEF EndInv
<1>7. /\ enqueued' \ Queued' \subseteq closed
      /\ Queued' \cup (Runs \ enqueued') \subseteq Queued \cup (Runs \ enqueued)
  BY <1>1, <1>3 DEF EndInv
<1> QED
  BY <1>1, <1>2, <1>5, <1>6, <1>7, StartEndInv

LEMMA AdvanceEndInv ==
  ASSUME TypeOK, OrderInv, StartedInv, EndInv, Advance
  PROVE  EndInv'
<1>0. queue \in Seq(Runs) /\ tasks \in Seq(Runs) /\ enqueued \subseteq Runs
  BY DEF TypeOK
<1>1. /\ tasks # <<>> /\ TaskOver(Head(tasks)) /\ tasks' = Tail(tasks)
      /\ UNCHANGED <<queue, enqueued, forced, closed, cleaned, terminal, result,
                     quiet, drain, taskDone, returned>>
  BY DEF Advance, endVars
<1>2. \/ UNCHANGED <<prompted, prompts>>
      \/ /\ tasks' # <<>> /\ prompted' = prompted \cup {Head(tasks')}
         /\ prompts' = prompts \cup {Head(tasks')} /\ terminal[Head(tasks')] = None
  BY <1>1 DEF Advance, StartPrompt
<1>3. /\ tasks' \in Seq(Runs) /\ Len(tasks') = Len(tasks) - 1 /\ Len(tasks) > 0
      /\ \A i \in 1..Len(tasks') : tasks'[i] = tasks[i + 1]
      /\ Head(tasks) = tasks[1] /\ Head(tasks) \in Runs
      /\ tasks' # <<>> => Head(tasks') = tasks'[1] /\ Len(tasks) > 1
  BY <1>0, <1>1
<1>4. Waiting \subseteq Waiting' \cup {Head(tasks)}
  <2>1. ASSUME NEW i \in 1..Len(tasks), i # 1
        PROVE  tasks[i] \in Waiting'
    <3>1. i - 1 \in DOMAIN tasks' /\ tasks'[i - 1] = tasks[i]
      BY <1>0, <1>3, <2>1
    <3> QED
      BY <3>1 DEF Waiting
  <2>2. DOMAIN tasks = 1..Len(tasks)
    BY <1>0
  <2> QED
    BY <1>3, <2>1, <2>2 DEF Waiting
<1>5. \A q \in enqueued' \ Waiting' : q \in Runs /\ TaskOver(q)
  BY <1>0, <1>1, <1>4 DEF EndInv
<1>6. Queued' = Queued
  BY <1>1 DEF Queued
<1>7. CASE tasks' = <<>>
  <2>1. UNCHANGED <<prompted, prompts>> /\ Head(tasks) \in Runs
    BY <1>2, <1>3, <1>7
  <2> QED
    BY <1>1, <1>5, <1>6, <2>1, StartEndInv DEF EndInv
<1>8. CASE tasks' # <<>>
  <2> DEFINE next == Head(tasks')
  <2>1. next \in Runs /\ next \in Waiting' /\ next \notin prompted
    <3>1. 1 \in DOMAIN tasks' /\ 1 + 1 \in 1..Len(tasks)
      BY <1>0, <1>3, <1>8
    <3> QED
      BY <1>3, <1>8, <3>1 DEF Waiting, OrderInv
  <2>2. next \notin taskDone \cup returned
    BY <2>1 DEF StartedInv
  <2> QED
    BY <1>1, <1>2, <1>5, <1>6, <2>1, <2>2, StartEndInv DEF EndInv
<1> QED
  BY <1>7, <1>8

LEMMA PromptEndInv ==
  ASSUME TypeOK, OrderInv, StartedInv, EndInv, NEW r \in Runs, PromptReturns(r)
  PROVE  EndInv'
<1>0. /\ r \in prompts /\ prompts' = prompts \ {r} /\ returned' = returned \cup {r}
      /\ UNCHANGED <<tasks, enqueued, prompted, taskDone>>
  BY DEF PromptReturns
<1>1. prompts' \subseteq prompts /\ prompts' \cap returned' = {} /\ Waiting' = Waiting
  BY <1>0, WaitingStays DEF EndInv
<1>2. CASE AbortAll
  BY <1>0, <1>1, <1>2, AbortEndInv
<1>3. r \in prompted /\ Queued \subseteq enqueued
      /\ (r \notin forced => r \notin taskDone)
  BY <1>0, QueueIsSerial DEF StartedInv, EndInv
<1>4. CASE /\ r \in forced
           /\ UNCHANGED <<terminal, result, cleaned, queue, quiet, drain, forced, closed>>
  <2>1. Queued' = Queued
    BY <1>4 DEF Queued
  <2> QED
    BY <1>0, <1>1, <1>4, <2>1 DEF EndInv, TaskOver
<1>5. ASSUME NEW outcome \in {"completed", "failed"}, SettlePrompt(r, outcome),
             r \notin forced
      PROVE  EndInv'
  <2>1. /\ terminal' = [terminal EXCEPT ![r] = outcome] /\ outcome # None
        /\ quiet' \subseteq quiet \cup {r} /\ drain' = drain \cup {r}
        /\ UNCHANGED <<result, cleaned, queue, forced, closed>>
    BY <1>5, NoneIsNoOutcome DEF SettlePrompt, Outcomes
  <2>2. Queued' = Queued
    BY <2>1 DEF Queued
  <2>3. /\ terminal'[r] # None
        /\ \A q \in Runs \ {r} : terminal'[q] = terminal[q]
    BY <2>1 DEF TypeOK
  <2>4. ASSUME NEW q \in Queued' \cup (Runs \ enqueued'),
               q \notin prompted' \/ (q \in taskDone' /\ q \in closed')
        PROVE  terminal'[q] = None
    BY <1>0, <1>3, <1>5, <2>1, <2>2, <2>3, <2>4 DEF EndInv, TypeOK
  <2>5. \A q \in quiet' \cup drain' \cup forced' : terminal'[q] # None
    BY <2>1, <2>3 DEF EndInv, TypeOK
  <2>6. \A q \in Runs : result'[q] # None => terminal'[q] # None /\ q \in closed'
    BY <2>1, <2>3 DEF EndInv
  <2> QED
    BY <1>0, <1>1, <2>1, <2>2, <2>4, <2>5, <2>6 DEF EndInv, TaskOver
<1>6. CASE FailPrompt(r) /\ r \notin forced
  <2>1. /\ forced' = forced \cup {r} /\ CloseFacts({r})
        /\ terminal' = [terminal EXCEPT ![r] = "failed"]
        /\ UNCHANGED <<cleaned, queue>>
    BY <1>6 DEF FailPrompt
  <2>2. Queued' = Queued
    BY <2>1 DEF Queued
  <2>3. /\ terminal'[r] # None
        /\ \A q \in Runs \ {r} : terminal'[q] = terminal[q]
        /\ \A q \in Runs : terminal[q] # None => terminal'[q] # None
    BY <2>1, NoneIsNoOutcome DEF TypeOK, Outcomes
  <2>4. /\ closed' = closed \cup {r} /\ quiet' = quiet \ {r} /\ drain' = drain \ {r}
        /\ \A q \in Runs :
             /\ result'[q] # None => terminal'[q] # None /\ q \in closed'
             /\ result[q] # None => result'[q] # None
    BY <2>1, <2>3, ResultsOfClose
  <2>5. ASSUME NEW q \in Queued' \cup (Runs \ enqueued'),
               q \notin prompted' \/ (q \in taskDone' /\ q \in closed')
        PROVE  terminal'[q] = None
    BY <1>0, <1>3, <1>6, <2>2, <2>3, <2>4, <2>5 DEF EndInv, TypeOK
  <2>6. \A q \in quiet' \cup drain' \cup forced' : terminal'[q] # None
    BY <2>1, <2>3, <2>4 DEF EndInv, TypeOK
  <2>7. \A q \in enqueued' \ Waiting' : TaskOver(q)'
    BY <1>0, <1>1, <2>4 DEF EndInv, TaskOver, TypeOK
  <2> QED
    BY <1>0, <1>1, <2>1, <2>2, <2>4, <2>5, <2>6, <2>7 DEF EndInv
<1> QED
  BY <1>2, <1>4, <1>5, <1>6 DEF PromptReturns, SettlePrompt, FailPrompt, endVars,
     timerVars

LEMMA NextEndInv ==
  ASSUME TypeOK, OrderInv, StartedInv, EndInv, Next
  PROVE  EndInv'
<1>1. ASSUME NEW r \in Runs, TaskFinishes(r)
      PROVE  EndInv'
  <2>1. /\ r \in returned /\ returned' = returned \ {r}
        /\ taskDone' = taskDone \cup {r}
        /\ UNCHANGED <<tasks, enqueued, prompted, prompts, terminal, closed, forced,
                       result, quiet, drain>>
    BY <1>1 DEF TaskFinishes, timerVars, hostVars
  <2>2. CASE r \in taskDone
    <3>1. UNCHANGED <<queue, cleaned>> /\ taskDone' = taskDone
      BY <1>1, <2>1, <2>2 DEF TaskFinishes
    <3>2. Queued' = Queued /\ Waiting' = Waiting
      BY <2>1, <3>1 DEF Queued, Waiting
    <3> QED
      BY <2>1, <3>1, <3>2 DEF EndInv, TaskOver
  <2>3. CASE r \notin taskDone
    <3>1. TryCleanup(r) /\ r \in prompted
      BY <1>1, <2>1, <2>3 DEF TaskFinishes, StartedInv
    <3> QED
      BY <2>1, <3>1, CleanupEndInv DEF EndInv
  <2> QED
    BY <2>2, <2>3
<1>2. ASSUME NEW r \in Runs, DrainEnds(r)
      PROVE  EndInv'
  <2>1. /\ r \in quiet \cup drain /\ CloseFacts({r}) /\ TryCleanup(r)
        /\ UNCHANGED <<tasks, enqueued, prompted, prompts, returned, terminal,
                       taskDone, forced>>
    BY <1>2 DEF DrainEnds, hostVars
  <2>2. r \in prompted /\ terminal[r] # None
    BY <2>1 DEF StartedInv, EndInv
  <2>3. /\ closed' = closed \cup {r} /\ quiet' = quiet \ {r} /\ drain' = drain \ {r}
        /\ \A q \in Runs :
             /\ result'[q] # None => terminal'[q] # None /\ q \in closed'
             /\ result[q] # None => result'[q] # None
    BY <2>1, ResultsOfClose
  <2> QED
    BY <2>1, <2>2, <2>3, CleanupEndInv DEF EndInv
<1>3. ASSUME NEW r \in Runs, IdleTimeout(r)
      PROVE  EndInv'
  <2>0. /\ r \in idle /\ UNCHANGED <<tasks, enqueued, prompted, prompts, returned>>
    BY <1>3 DEF IdleTimeout, hostVars
  <2>1. CASE Asking(r)
    <3>1. UNCHANGED <<taskDone, forced, closed, cleaned, terminal, result, quiet,
                      drain, queue>>
      BY <1>3, <2>1 DEF IdleTimeout, endVars
    <3>2. Queued' = Queued /\ Waiting' = Waiting
      BY <2>0, <3>1 DEF Queued, Waiting
    <3> QED
      BY <2>0, <3>1, <3>2 DEF EndInv, TaskOver
  <2>2. CASE ~Asking(r)
    <3>1. /\ CloseFacts({r}) /\ TryCleanup(r)
          /\ forced' = forced \cup {r} /\ taskDone' = taskDone \cup {r}
          /\ terminal' = [terminal EXCEPT ![r] = "timeout"]
      BY <1>3, <2>2 DEF IdleTimeout, ForceTimeout
    <3>2. /\ terminal'[r] # None
          /\ \A q \in Runs \ {r} : terminal'[q] = terminal[q]
          /\ \A q \in Runs : terminal[q] # None => terminal'[q] # None
      BY <3>1, NoneIsNoOutcome DEF TypeOK, Outcomes
    <3>3. /\ closed' = closed \cup {r} /\ quiet' = quiet \ {r}
          /\ drain' = drain \ {r}
          /\ \A q \in Runs :
               /\ result'[q] # None => terminal'[q] # None /\ q \in closed'
               /\ result[q] # None => result'[q] # None
      BY <3>1, <3>2, ResultsOfClose
    <3>4. /\ r \in prompted /\ forced' \subseteq closed'
          /\ prompts \cap taskDone' \subseteq forced'
          /\ \A q \in quiet' \cup drain' \cup forced' : terminal'[q] # None
      BY <2>0, <3>1, <3>2, <3>3 DEF StartedInv, EndInv, TypeOK
    <3> QED
      BY <2>0, <3>1, <3>2, <3>3, <3>4, CleanupEndInv
  <2> QED
    BY <2>1, <2>2
<1>4. ASSUME CloseSession
      PROVE  EndInv'
  <2>1. /\ AbortAll /\ UNCHANGED <<tasks, enqueued, prompted, taskDone, prompts, returned>>
    BY <1>4 DEF CloseSession, hostVars
  <2> QED
    BY <2>1, AbortEndInv DEF EndInv
<1>5. ASSUME UNCHANGED <<queueVars, endVars, drain, returned, prompts>>,
             \A q \in quiet' \ quiet : terminal[q] # None
      PROVE  EndInv'
  <2>1. Queued' = Queued /\ Waiting' = Waiting
    BY <1>5 DEF Queued, Waiting, queueVars
  <2> QED
    BY <1>5, <2>1 DEF EndInv, TaskOver, queueVars, endVars
<1>6. CASE RouteEvent
  <2>1. \A q \in quiet' \ quiet : terminal[q] # None
    BY <1>6 DEF RouteEvent, PushFacts
  <2> QED
    BY <1>5, <1>6, <2>1 DEF RouteEvent, hostVars
<1>7. CASE \E i \in 1..MaxEvents : ResolveEvent(i)
  BY <1>5, <1>7 DEF ResolveEvent, timerVars
<1>8. CASE \E t \in Tokens : ReplyInteraction(t)
  BY <1>5, <1>8 DEF ReplyInteraction
<1>9. CASE HostStep
  BY <1>5, <1>9 DEF HostStep, HostBegins, HostWrites, HostAsks, HostIsAnswered,
     Publish, timerVars
<1> QED
  BY <1>1, <1>2, <1>3, <1>4, <1>6, <1>7, <1>8, <1>9, EnqueueEndInv, AdvanceEndInv,
     PromptEndInv DEF Next, EventLoop

-----------------------------------------------------------------------------
(* The store of the messages. *)

\* An abort that finds no run changes nothing.
LEMMA AbortOfNothing ==
  ASSUME TypeOK, EndInv, AbortAll, queue = <<>>
  PROVE  UNCHANGED <<terminal, closed, cleaned, queue, begun, done>>
<1>1. Queued = {}
  BY DEF Queued
<1>2. /\ closed' = closed \cup {} /\ cleaned' = cleaned \cup {} /\ queue' = <<>>
      /\ terminal' = [r \in Runs |-> terminal[r]]
      /\ UNCHANGED <<begun, done>>
  BY <1>1 DEF AbortAll, CloseFacts
<1>3. terminal' = terminal
  BY <1>2 DEF TypeOK
<1> QED
  BY <1>2, <1>3

\* Unless the runs in front, their messages and their events change, the store
\* is what it was.
LEMMA StoreStays ==
  ASSUME TypeOK, OrderInv, StartedInv, EndInv, StoreInv,
         UNCHANGED <<queue, enqueued, closed, cleaned, begun, done, observed,
                     stream, misled>>,
         prompted \subseteq prompted',
         \A r \in Runs : terminal'[r] # None => r \in taskDone' \cup returned',
         routing' # None => queue # <<>> /\ routing'.run = Head(queue)
  PROVE  StoreInv'
<1>1. Queued' = Queued
  BY DEF Queued
<1>2. \A m \in Messages : StateOf(m)' = StateOf(m)
  BY DEF StateOf
<1> QED
  BY <1>1, <1>2 DEF StoreInv

\* The run whose facts close is in front, and its messages are all there are.
LEMMA StoreIsEmptied ==
  ASSUME TypeOK, OrderInv, StartedInv, EndInv, StoreInv, NEW r \in prompted, Idling,
         TryCleanup(r), terminal'[r] # None, closed' = closed \cup {r},
         r \in taskDone', taskDone \subseteq taskDone',
         \A q \in Runs \ {r} : terminal'[q] = terminal[q],
         UNCHANGED <<enqueued, prompted, observed, routing, returned, stream, misled>>
  PROVE  StoreInv'
<1>0. queue \in Seq(Runs) /\ prompted \subseteq Runs /\ done \subseteq begun
      /\ begun \subseteq Messages
  BY DEF TypeOK
<1>1. \A q \in Runs : terminal'[q] # None => q \in taskDone' \cup returned'
  BY DEF StoreInv
<1>2. routing' = None
  BY DEF Idling
<1>3. CASE UNCHANGED <<cleaned, queue, begun, done>>
  <2>1. r \in cleaned
    BY <1>3, CleanupQueue
  <2>2. r \in cleaned' /\ Queued' = Queued
    BY <1>3, <2>1 DEF Queued
  <2>3. \A m \in Messages : StateOf(m)' = StateOf(m)
    BY <1>3 DEF StateOf
  <2> QED
    BY <1>1, <1>2, <1>3, <2>1, <2>2, <2>3 DEF StoreInv
<1>4. CASE r \notin cleaned
  <2>1. /\ cleaned' = cleaned \cup {r} /\ Queued' = Queued \ {r}
        /\ r \in Queued => /\ queue # <<>> /\ Head(queue) = r /\ queue' = Tail(queue)
                          /\ ForgetSessions(observed[r])
    BY <1>4, CleanupQueue
  <2>2. r \in Queued
    BY <1>4 DEF StartedInv, StoreInv
  <2>3. begun' = {} /\ done' = {}
    BY <1>0, <2>1, <2>2 DEF ForgetSessions, StoreInv
  <2>4. closed' \cup (enqueued' \ Queued') \subseteq cleaned'
    BY <2>1 DEF StoreInv
  <2>5. ASSUME queue' # <<>>
        PROVE  Head(queue') \in Runs \ prompted
    <3>1. 2 \in 1..Len(queue) /\ Head(queue') = queue[2] /\ queue[2] \in Runs
      BY <1>0, <2>1, <2>2, <2>5
    <3> QED
      BY <3>1, QueueIsSerial
  <2>6. queue' # <<>> => \A m \in Messages : stream'[Head(queue')][m] = "none"
    BY <2>5 DEF StartedInv
  <2>7. \A m \in Messages : StateOf(m)' = "none"
    BY <2>3 DEF StateOf
  <2> QED
    BY <1>1, <1>2, <2>3, <2>4, <2>6, <2>7 DEF StoreInv
<1> QED
  BY <1>3, <1>4 DEF TryCleanup

\* What an event says of a message is what the store makes of it.
LEMMA ToldAsStored ==
  ASSUME TypeOK, NEW e \in Events,
         begun' = begun \cup Begins(e), done' = done \cup Ends(e)
  PROVE  /\ Told(e, StateOf(e.message)) = StateOf(e.message)'
         /\ \A m \in Messages \ {e.message} : StateOf(m)' = StateOf(m)
<1>1. done \subseteq begun
  BY DEF TypeOK
<1>2. \A m \in Messages \ {e.message} : StateOf(m)' = StateOf(m)
  BY DEF StateOf, Begins, Ends
<1>3. CASE e.kind = "created"
  BY <1>1, <1>3 DEF Told, StateOf, Begins, Ends, Speaks, IsOpen
<1>4. CASE e.kind \in {"completed", "final"}
  BY <1>1, <1>4 DEF Told, StateOf, Begins, Ends, Speaks, IsOpen
<1>5. CASE e.kind \notin {"created", "completed", "final"}
  BY <1>1, <1>5 DEF Told, StateOf, Begins, Ends, Speaks, IsOpen
<1> QED
  BY <1>2, <1>3, <1>4, <1>5

LEMMA RouteStoreInv ==
  ASSUME TypeOK, OrderInv, StartedInv, EndInv, StoreInv, RouteEvent
  PROVE  StoreInv'
<1>0. routing # None /\ routing.event \in Events /\ routing.run \in Runs
  BY DEF RouteEvent, TypeOK
<1> PICK e \in Events, r \in Runs : e = routing.event /\ r = routing.run
  BY <1>0
<1>1. /\ routing' = None
      /\ begun' = begun \cup Begins(e) /\ done' = done \cup Ends(e)
      /\ observed' = [observed EXCEPT ![r] = @ \cup {Home(e.message)}]
      /\ PushFacts(r, e)
      /\ UNCHANGED <<queue, enqueued, prompted, taskDone, terminal, closed, cleaned,
                     returned>>
  BY DEF RouteEvent, queueVars, endVars
<1>2. e.message \in Messages
  BY DEF Events
<1>3. queue # <<>> /\ r = Head(queue) /\ r \in prompted /\ queue \in Seq(Runs)
  BY <1>0 DEF StoreInv, StartedInv, TypeOK
<1>4. Queued' = Queued /\ r \in Queued
  BY <1>1, <1>3 DEF Queued
<1>5. r \notin forced \cup closed
  BY <1>4 DEF StoreInv, EndInv
<1>6. stream[r][e.message] = StateOf(e.message)
  BY <1>2, <1>3 DEF StoreInv
<1>7. /\ Told(e, StateOf(e.message)) = StateOf(e.message)'
      /\ \A m \in Messages \ {e.message} : StateOf(m)' = StateOf(m)
  BY <1>1, <1>2, ToldAsStored
<1>8. StateOf(e.message)' # "misled"
  BY DEF StateOf
<1>9. /\ stream' = [stream EXCEPT ![r][e.message] = StateOf(e.message)']
      /\ misled' = misled
  <2>1. \A told : told = Told(e, stream[r][e.message]) /\ told # "misled" =>
          stream' = [stream EXCEPT ![r][e.message] = told] /\ misled' = misled
    BY <1>1, <1>5 DEF PushFacts
  <2>2. Told(e, stream[r][e.message]) = StateOf(e.message)'
    BY <1>6, <1>7
  <2> QED
    BY <1>8, <2>1, <2>2
<1>10. stream \in [Runs -> [Messages -> MessageStates]]
       /\ observed \in [Runs -> SUBSET Sessions] /\ begun \subseteq Messages
  BY DEF TypeOK
<1>11. \A m \in Messages : stream'[r][m] = StateOf(m)'
  <2>1. stream'[r] = [stream[r] EXCEPT ![e.message] = StateOf(e.message)']
    BY <1>2, <1>9, <1>10
  <2>2. stream[r] \in [Messages -> MessageStates]
    BY <1>2, <1>10
  <2>3. \A m \in Messages \ {e.message} : stream'[r][m] = StateOf(m)
    BY <1>2, <1>3, <2>1, <2>2 DEF StoreInv
  <2> QED
    BY <1>2, <1>7, <2>1, <2>2, <2>3
<1>12. \A m \in begun' : Home(m) \in observed'[r]
  <2>1. observed'[r] = observed[r] \cup {Home(e.message)}
    BY <1>1, <1>2, <1>10
  <2>2. begun' \subseteq begun \cup {e.message}
    BY <1>1 DEF Begins
  <2>3. \A m \in begun : Home(m) \in observed[r]
    BY <1>3 DEF StoreInv
  <2> QED
    BY <2>1, <2>2, <2>3
<1> QED
  BY <1>1, <1>3, <1>4, <1>9, <1>11, <1>12 DEF StoreInv

LEMMA EnqueueStoreInv ==
  ASSUME TypeOK, OrderInv, StartedInv, EndInv, StoreInv, NEW r \in Runs, Enqueue(r)
  PROVE  StoreInv'
<1>0. queue \in Seq(Runs) /\ done \subseteq begun
  BY DEF TypeOK
<1>1. /\ r \notin enqueued /\ enqueued' = enqueued \cup {r}
      /\ queue' = Append(queue, r)
      /\ UNCHANGED <<closed, cleaned, terminal, taskDone, returned, begun, done,
                     observed, routing, stream, misled>>
      /\ prompted \subseteq prompted'
  BY DEF Enqueue, StartPrompt, endVars, storeVars, historyVars
<1>2. Queued' = Queued \cup {r}
  BY <1>1, AppendToQueue
<1>3. \A m \in Messages : StateOf(m)' = StateOf(m)
  BY <1>1 DEF StateOf
<1>4. /\ queue' # <<>> /\ queue # <<>> => Head(queue') = Head(queue)
      /\ queue = <<>> => Head(queue') = r
  BY <1>0, <1>1
<1>5. CASE queue = <<>>
  <2>1. begun = {} /\ done = {} /\ r \notin prompted
    BY <1>0, <1>1, <1>5 DEF StoreInv, StartedInv
  <2>2. \A m \in Messages : stream[r][m] = "none" /\ StateOf(m) = "none"
    BY <2>1 DEF StartedInv, StateOf
  <2> QED
    BY <1>1, <1>2, <1>3, <1>4, <1>5, <2>1, <2>2 DEF StoreInv
<1>6. CASE queue # <<>>
  BY <1>1, <1>2, <1>3, <1>4, <1>6 DEF StoreInv
<1> QED
  BY <1>5, <1>6

\* Whatever cuts a run off is remembered.
LEMMA DisruptedForEver ==
  ASSUME TypeOK, Next, disrupted
  PROVE  disrupted'
  BY DEF TypeOK, Next, EventLoop, Enqueue, PromptReturns, SettlePrompt, FailPrompt,
     AbortAll, TaskFinishes, CloseSession, DrainEnds, IdleTimeout, ResolveEvent,
     RouteEvent, ReplyInteraction, Advance, HostStep, HostBegins, HostWrites,
     HostAsks, HostIsAnswered, Publish, endVars

LEMMA NextStoreInv ==
  ASSUME TypeOK, OrderInv, StartedInv, EndInv, StoreInv, Next, ~disrupted'
  PROVE  StoreInv'
<1>1. ASSUME Advance
      PROVE  StoreInv'
  <2>1. /\ UNCHANGED <<queue, enqueued, closed, cleaned, begun, done, observed,
                       stream, misled, terminal, taskDone, returned, routing>>
        /\ prompted \subseteq prompted'
    BY <1>1 DEF Advance, StartPrompt, endVars, storeVars, historyVars
  <2> QED
    BY <2>1, StoreStays DEF StoreInv
<1>2. ASSUME NEW r \in Runs, PromptReturns(r)
      PROVE  StoreInv'
  <2>1. /\ returned' = returned \cup {r}
        /\ UNCHANGED <<enqueued, prompted, taskDone, observed, routing, stream, misled>>
    BY <1>2 DEF PromptReturns, historyVars
  <2>2. /\ UNCHANGED <<queue, closed, cleaned, begun, done>>
        /\ terminal' = terminal \/ \E o \in Outcomes : terminal' = [terminal EXCEPT ![r] = o]
    <3>1. CASE AbortAll
      <4>1. queue = <<>>
        BY <3>1 DEF AbortAll
      <4> QED
        BY <3>1, <4>1, AbortOfNothing
    <3>2. CASE FailPrompt(r)
      BY <3>2 DEF FailPrompt, endVars
    <3>3. CASE \E outcome \in {"completed", "failed"} : SettlePrompt(r, outcome)
      BY <3>3 DEF SettlePrompt, Outcomes
    <3> QED
      BY <1>2, <3>1, <3>2, <3>3 DEF PromptReturns
  <2>3. \A q \in Runs : terminal'[q] # None => q \in taskDone' \cup returned'
    BY <2>1, <2>2 DEF StoreInv, TypeOK
  <2> QED
    BY <2>1, <2>2, <2>3, StoreStays DEF StoreInv
<1>3. ASSUME NEW r \in Runs, TaskFinishes(r)
      PROVE  StoreInv'
  <2>1. /\ r \in returned /\ returned' = returned \ {r}
        /\ taskDone' = taskDone \cup {r}
        /\ UNCHANGED <<enqueued, prompted, terminal, closed, observed, routing,
                       stream, misled>>
    BY <1>3 DEF TaskFinishes, historyVars
  <2>2. UNCHANGED <<cleaned, queue, begun, done>>
    <3>1. CASE r \in taskDone
      BY <1>3, <3>1 DEF TaskFinishes
    <3>2. CASE r \notin taskDone
      <4>1. TryCleanup(r) /\ r \in prompted
        BY <1>3, <2>1, <3>2 DEF TaskFinishes, StartedInv
      <4>2. r \in closed' => r \in cleaned
        BY <2>1 DEF StoreInv
      <4> QED
        BY <4>1, <4>2, CleanupQueue
    <3> QED
      BY <3>1, <3>2
  <2> QED
    BY <2>1, <2>2, StoreStays DEF StoreInv
<1>4. ASSUME NEW r \in Runs, DrainEnds(r)
      PROVE  StoreInv'
  <2>1. /\ Idling /\ r \in quiet \cup drain /\ CloseFacts({r}) /\ TryCleanup(r)
        /\ UNCHANGED <<terminal, taskDone, enqueued, prompted, observed, routing,
                       returned, stream, misled>>
    BY <1>4 DEF DrainEnds, historyVars
  <2>2. r \in prompted /\ terminal[r] # None /\ r \in taskDone
    BY <2>1 DEF StartedInv, EndInv, StoreInv, Idling
  <2>3. closed' = closed \cup {r}
    BY <2>1 DEF CloseFacts
  <2> QED
    BY <2>1, <2>2, <2>3, StoreIsEmptied
<1>5. ASSUME NEW r \in Runs, IdleTimeout(r)
      PROVE  StoreInv'
  <2>1. /\ Idling /\ r \in prompted
        /\ UNCHANGED <<enqueued, prompted, observed, routing, returned, stream, misled>>
    BY <1>5 DEF IdleTimeout, StartedInv, historyVars
  <2>2. CASE Asking(r)
    <3>1. UNCHANGED <<taskDone, queue, closed, cleaned, terminal, begun, done>>
      BY <1>5, <2>2 DEF IdleTimeout, endVars
    <3> QED
      BY <2>1, <3>1, StoreStays DEF StoreInv
  <2>3. CASE ~Asking(r)
    <3>1. /\ CloseFacts({r}) /\ TryCleanup(r) /\ taskDone' = taskDone \cup {r}
          /\ terminal' = [terminal EXCEPT ![r] = "timeout"]
      BY <1>5, <2>3 DEF IdleTimeout, ForceTimeout
    <3>2. /\ terminal'[r] # None /\ closed' = closed \cup {r}
          /\ \A q \in Runs \ {r} : terminal'[q] = terminal[q]
      BY <3>1, NoneIsNoOutcome DEF TypeOK, Outcomes, CloseFacts
    <3> QED
      BY <2>1, <3>1, <3>2, StoreIsEmptied
  <2> QED
    BY <2>2, <2>3
<1>6. ASSUME CloseSession
      PROVE  StoreInv'
  <2>1. /\ AbortAll /\ queue = <<>>
        /\ UNCHANGED <<enqueued, prompted, taskDone, returned, observed, routing,
                       stream, misled>>
    BY <1>6 DEF CloseSession, AbortAll, historyVars
  <2>2. UNCHANGED <<terminal, closed, cleaned, queue, begun, done>>
    BY <2>1, AbortOfNothing
  <2> QED
    BY <2>1, <2>2, StoreStays DEF StoreInv
<1>7. ASSUME NEW i \in 1..MaxEvents, ResolveEvent(i)
      PROVE  StoreInv'
  <2>1. UNCHANGED <<queue, enqueued, prompted, taskDone, closed, cleaned, terminal,
                    begun, done, observed, stream, misled, returned>>
    BY <1>7 DEF ResolveEvent, queueVars, endVars, storeVars, historyVars
  <2>2. \/ routing' = routing
        \/ /\ queue # <<>> /\ routing' = [event |-> events[i], run |-> Head(queue)]
    BY <1>7 DEF ResolveEvent
  <2> QED
    BY <2>1, <2>2, StoreStays DEF StoreInv
<1>8. CASE \E t \in Tokens : ReplyInteraction(t)
  <2>1. UNCHANGED <<queueVars, endVars, storeVars, returned, routing, historyVars>>
    BY <1>8 DEF ReplyInteraction
  <2> QED
    BY <2>1, StoreStays DEF StoreInv, queueVars, endVars, storeVars, historyVars
<1>9. CASE HostStep
  <2>1. UNCHANGED <<queueVars, endVars, storeVars, returned, routing, historyVars>>
    BY <1>9 DEF HostStep, HostBegins, HostWrites, HostAsks, HostIsAnswered, Publish
  <2> QED
    BY <2>1, StoreStays DEF StoreInv, queueVars, endVars, storeVars, historyVars
<1> QED
  BY <1>1, <1>2, <1>3, <1>4, <1>5, <1>6, <1>7, <1>8, <1>9, EnqueueStoreInv,
     RouteStoreInv DEF Next, EventLoop

-----------------------------------------------------------------------------
(* The inductive invariant, and what follows from it. *)

LEMMA InitSessionInv ==
  ASSUME Init
  PROVE  SessionInv
<1>1. TypeOK
  <2>1. RunTypes
    BY DEF Init, RunTypes
  <2>2. <<>> \in Seq(Runs) /\ <<>> \in Seq(Events)
    OBVIOUS
  <2>3. SharedTypes
    BY <2>2 DEF Init, SharedTypes, MessageStates, Sessions
  <2> QED
    BY <2>1, <2>3 DEF TypeOK, RunTypes, SharedTypes
<1>2. OrderInv
  BY DEF Init, OrderInv
<1>3. StartedInv
  BY DEF Init, StartedInv
<1>4. Queued = {} /\ Waiting = {}
  BY DEF Init, Queued, Waiting
<1>5. EndInv
  BY <1>4 DEF Init, EndInv
<1>6. StoreInv
  BY <1>4 DEF Init, StoreInv
<1> QED
  BY <1>1, <1>2, <1>3, <1>5, <1>6 DEF SessionInv

LEMMA StutterSessionInv ==
  ASSUME SessionInv, UNCHANGED vars
  PROVE  SessionInv'
<1>1. UNCHANGED <<queueVars, endVars, timerVars, storeVars, pending, routing, returned,
                  hostVars, historyVars>>
  BY DEF vars
<1>2. Queued' = Queued /\ Waiting' = Waiting
  BY <1>1 DEF Queued, Waiting, queueVars
<1>3. TypeOK'
  BY <1>1 DEF SessionInv, TypeOK, queueVars, endVars, timerVars, storeVars, hostVars,
     historyVars
<1>4. OrderInv' /\ StartedInv'
  BY <1>1 DEF SessionInv, OrderInv, StartedInv, queueVars, endVars, timerVars,
     hostVars, historyVars
<1>5. EndInv'
  BY <1>1, <1>2 DEF SessionInv, EndInv, TaskOver, queueVars, endVars, timerVars, hostVars
<1>6. (disrupted \/ StoreInv)'
  BY <1>1, <1>2 DEF SessionInv, StoreInv, StateOf, queueVars, endVars, storeVars,
     historyVars
<1> QED
  BY <1>3, <1>4, <1>5, <1>6 DEF SessionInv

LEMMA NextSessionInv ==
  ASSUME SessionInv, Next
  PROVE  SessionInv'
<1>1. TypeOK /\ OrderInv /\ StartedInv /\ EndInv
  BY DEF SessionInv
<1>2. TypeOK' /\ OrderInv' /\ StartedInv' /\ EndInv'
  BY <1>1, NextTypes, NextOrderInv, NextStartedInv, NextEndInv
<1>3. ~disrupted' => StoreInv'
  <2>1. ~disrupted' => StoreInv
    BY <1>1, DisruptedForEver DEF SessionInv
  <2> QED
    BY <1>1, <2>1, NextStoreInv
<1> QED
  BY <1>2, <1>3 DEF SessionInv

LEMMA SessionInvariance == Spec => []SessionInv
<1>1. SessionInv /\ [Next]_vars => SessionInv'
  BY NextSessionInv, StutterSessionInv
<1> QED
  BY <1>1, InitSessionInv, PTL DEF Spec

\* Every variable of the runs of a session keeps its type.
THEOREM SessionTypeCorrect == Spec => []TypeOK
<1>1. SessionInv => TypeOK
  BY DEF SessionInv
<1> QED
  BY <1>1, SessionInvariance, PTL

\* However prompts, timers, aborts and late cleanups meet, the events go to the run
\* in front of the queue, which is the one that was prompted, and a run leaves the
\* queue only when its facts are closed.
THEOREM EventsGoToThePrompted == Spec => []HeadIsPrompted
<1>1. ASSUME SessionInv
      PROVE  HeadIsPrompted
  <2>1. TypeOK /\ OrderInv /\ EndInv
    BY <1>1 DEF SessionInv
  <2>2. DOMAIN queue = 1..Len(queue)
    BY <2>1 DEF TypeOK
  <2> QED
    BY <2>1, <2>2, QueueIsSerial DEF HeadIsPrompted, EndInv
<1> QED
  BY <1>1, SessionInvariance, PTL

\* As long as no run was cut off, the runtime is told of every message in order.
THEOREM FactsStayInOrder == Spec => []FactsAreInOrder
<1>1. SessionInv => FactsAreInOrder
  BY DEF SessionInv, StoreInv, FactsAreInOrder
<1> QED
  BY <1>1, SessionInvariance, PTL

\* The coordinator prompts for one run at a time: of those it has prompted for, all
\* but the one in front have their result and their prompt behind them.
OnePromptAtATime ==
  \A r \in prompted : TaskOver(r) \/ (tasks # <<>> /\ r = Head(tasks))

\* One prompt of a session is worked on at a time, whatever gave up the last one.
THEOREM PromptsAreSerial == Spec => []OnePromptAtATime
<1>1. ASSUME SessionInv, NEW r \in prompted, ~TaskOver(r)
      PROVE  tasks # <<>> /\ r = Head(tasks)
  <2>1. tasks \in Seq(Runs) /\ r \in enqueued
    BY <1>1 DEF SessionInv, TypeOK, StartedInv
  <2>2. PICK i \in 1..Len(tasks) : tasks[i] = r
    BY <1>1, <2>1 DEF SessionInv, EndInv, Waiting
  <2>3. i = 1
    BY <1>1, <2>2 DEF SessionInv, OrderInv
  <2> QED
    BY <2>1, <2>2, <2>3
<1>2. SessionInv => OnePromptAtATime
  BY <1>1 DEF OnePromptAtATime
<1> QED
  BY <1>2, SessionInvariance, PTL

-----------------------------------------------------------------------------
(* Each run is a ProviderRun. *)

\* The stream of a run opens when the chat is accepted and ends when its facts
\* are closed; a fact out of order breaks it, unless a run was cut off.
Contract == INSTANCE ProviderRun WITH
  facts <- [r \in Runs |-> IF r \in misled /\ ~disrupted THEN "broken"
                           ELSE IF r \in closed THEN "over"
                           ELSE IF r \in enqueued THEN "open" ELSE "unused"],
  outcome <- result

\* What a step of the session may do to a run, for its part of the contract.
RunMoves ==
  /\ enqueued \subseteq enqueued' /\ closed \subseteq closed'
  /\ closed' \subseteq enqueued
  /\ \A q \in Runs : \/ result'[q] = result[q]
                    \/ /\ result[q] = None /\ result'[q] \in Outcomes
                       /\ q \in closed'

LEMMA CloseMoves ==
  ASSUME TypeOK, StartedInv, NEW rs \in SUBSET enqueued, CloseFacts(rs),
         terminal' \in [Runs -> Outcomes \cup {None}], UNCHANGED enqueued
  PROVE  RunMoves
<1>1. closed' = closed \cup rs /\ SettleIfReady(rs)
  BY DEF CloseFacts
<1>2. ASSUME NEW q \in Runs, result'[q] # result[q]
      PROVE  result[q] = None /\ result'[q] \in Outcomes /\ q \in closed'
  BY <1>1, <1>2 DEF SettleIfReady
<1> QED
  BY <1>1, <1>2 DEF RunMoves, StartedInv

LEMMA NextRunMoves ==
  ASSUME TypeOK, TypeOK', OrderInv, StartedInv, Next
  PROVE  RunMoves
<1>0. terminal' \in [Runs -> Outcomes \cup {None}]
  BY DEF TypeOK
<1>1. ASSUME UNCHANGED <<closed, result>>, enqueued \subseteq enqueued'
      PROVE  RunMoves
  BY <1>1 DEF RunMoves, StartedInv
<1>2. ASSUME AbortAll, UNCHANGED enqueued
      PROVE  RunMoves
  <2>1. CloseFacts(Queued \ forced)
    BY <1>2 DEF AbortAll
  <2>2. Queued \ forced \in SUBSET enqueued
    BY QueueIsSerial
  <2> QED
    BY <1>0, <1>2, <2>1, <2>2, CloseMoves
<1>3. ASSUME NEW r \in Runs, PromptReturns(r)
      PROVE  RunMoves
  <2>1. UNCHANGED enqueued /\ {r} \in SUBSET enqueued
    BY <1>3 DEF PromptReturns, StartedInv
  <2>2. CASE \E outcome \in {"completed", "failed"} : SettlePrompt(r, outcome)
    BY <1>1, <2>1, <2>2 DEF SettlePrompt
  <2>3. CASE FailPrompt(r)
    BY <1>0, <1>1, <2>1, <2>3, CloseMoves DEF FailPrompt, endVars
  <2> QED
    BY <1>2, <1>3, <2>1, <2>2, <2>3 DEF PromptReturns
<1>4. ASSUME NEW r \in Runs, DrainEnds(r) \/ IdleTimeout(r)
      PROVE  RunMoves
  <2>1. UNCHANGED enqueued /\ {r} \in SUBSET enqueued
    BY <1>4 DEF DrainEnds, IdleTimeout, StartedInv
  <2>2. UNCHANGED <<closed, result>> \/ CloseFacts({r})
    BY <1>4 DEF DrainEnds, IdleTimeout, endVars
  <2> QED
    BY <1>0, <1>1, <2>1, <2>2, CloseMoves
<1>5. CASE CloseSession
  BY <1>2, <1>5 DEF CloseSession
<1>6. CASE \E r \in Runs : Enqueue(r) \/ TaskFinishes(r)
  BY <1>1, <1>6 DEF Enqueue, TaskFinishes, endVars
<1>7. CASE UNCHANGED <<enqueued, endVars>>
  BY <1>1, <1>7 DEF endVars
<1> QED
  BY <1>2, <1>3, <1>4, <1>5, <1>6, <1>7
  DEF Next, EventLoop, Advance, ResolveEvent, RouteEvent, ReplyInteraction, HostStep,
      HostBegins, HostWrites, HostAsks, HostIsAnswered, Publish, queueVars

LEMMA ContractStep ==
  ASSUME SessionInv, SessionInv', [Next]_vars
  PROVE  [Contract!Next]_Contract!vars
<1>1. TypeOK /\ OrderInv /\ StartedInv /\ TypeOK'
  BY DEF SessionInv
<1>2. /\ \A r \in Runs : ~(r \in misled /\ ~disrupted)
      /\ \A r \in Runs : ~(r \in misled' /\ ~disrupted')
  BY DEF SessionInv, StoreInv
<1>3. CASE Next
  <2>1. RunMoves
    BY <1>1, <1>3, NextRunMoves
  <2>2. ASSUME NEW r \in Runs
        PROVE  \/ Contract!Accept(r) \/ Contract!FailAtOnce(r)
               \/ Contract!End(r) \/ Contract!Settle(r) \/ Contract!Idle(r)
    <3>1. \/ result'[r] = result[r]
          \/ result[r] = None /\ result'[r] \in Outcomes /\ r \in closed'
      BY <2>1 DEF RunMoves
    <3>2. closed \subseteq enqueued /\ r \in closed' => r \in enqueued
      BY <1>1, <2>1 DEF StartedInv, RunMoves
    <3>3. CASE r \in closed
      <4>1. r \in closed'
        BY <2>1, <3>3 DEF RunMoves
      <4> QED
        BY <1>2, <3>1, <3>3, <4>1 DEF Contract!Settle, Contract!Idle,
           Contract!Moves, Contract!Settles, Contract!Stays
    <3>4. CASE r \notin closed /\ r \in closed'
      <4>1. r \in enqueued
        BY <2>1, <3>4 DEF RunMoves
      <4> QED
        BY <1>2, <3>1, <3>4, <4>1 DEF Contract!End, Contract!Moves,
           Contract!Settles, Contract!Stays
    <3>5. CASE r \notin closed /\ r \notin closed'
      <4>1. r \in enqueued => r \in enqueued'
        BY <2>1 DEF RunMoves
      <4> QED
        BY <1>2, <3>1, <3>5, <4>1 DEF Contract!Accept, Contract!Idle,
           Contract!Moves, Contract!Stays
    <3> QED
      BY <3>3, <3>4, <3>5
  <2> QED
    BY <2>2 DEF Contract!Next
<1>4. CASE UNCHANGED vars
  <2>1. UNCHANGED <<misled, disrupted, closed, enqueued, result>>
    BY <1>4 DEF vars, queueVars, endVars, historyVars
  <2> QED
    BY <2>1 DEF Contract!vars
<1> QED
  BY <1>3, <1>4

\* Every run of a session keeps what the SDK relies on: its stream of facts ends once,
\* in order unless a run was cut off, and it has one result, which comes no earlier
\* than the end of the stream, on the paths of an answer, an error, an abort, a
\* close and a timeout alike.
THEOREM HostRunsKeepTheContract == Spec => Contract!Spec
<1>1. Init => Contract!Init
  BY DEF Init, Contract!Init
<1> QED
  BY <1>1, ContractStep, SessionInvariance, PTL DEF Spec, Contract!Spec

-----------------------------------------------------------------------------
(* Nobody waits for nothing: what RunsEnd rests on besides fairness. *)

IsAsk(e) == e.kind \in {"question", "permission"}

\* A question or permission on its way is the first of its token, and nobody has
\* it pending.
Unheard(t) == t \in Tokens /\ asked[t] # "no" /\ pending[t] = None

AskInv ==
  /\ \A t \in Tokens : pending[t] # None => asked[t] # "no"
  /\ \A i \in 1..Len(events) : IsAsk(events[i]) => Unheard(events[i].token)
  /\ \A i, j \in 1..Len(events) :
       IsAsk(events[i]) /\ IsAsk(events[j]) /\ events[i].token = events[j].token
         => i = j
  /\ routing # None /\ IsAsk(routing.event) =>
       /\ Unheard(routing.event.token)
       /\ \A i \in 1..Len(events) :
            IsAsk(events[i]) => events[i].token # routing.event.token

\* A run has its result when its facts are closed; until then its watchdog runs, or
\* its drain timer, or the user has been asked.
WatchInv ==
  /\ \A r \in closed : result[r] # None
  /\ prompted \subseteq prompts \cup returned \cup taskDone
  /\ tasks # <<>> => Head(tasks) \in prompted \cup closed
  /\ \A r \in prompted \ closed :
       r \in drain \/ (terminal[r] = None /\ (r \in idle \/ Asking(r)))

\* As long as a run of the session is not over, the first that is not is waited for
\* by somebody: the coordinator can go on, a timer is armed, the user has been asked,
\* or the run was given up and its prompt has yet to return.
SomebodyActs ==
  tasks # <<>> =>
    LET first == Head(tasks)
    IN  \/ TaskOver(first)
        \/ result[first] = None /\ (first \in drain \cup idle \/ Asking(first))
        \/ result[first] # None /\ first \in prompts \cup returned

LEMMA DropAt ==
  ASSUME TypeOK, NEW i \in 1..Len(events)
  PROVE  /\ Drop(i) \in Seq(Events) /\ Len(Drop(i)) = Len(events) - 1
         /\ \A k \in 1..(Len(events) - 1) :
              Drop(i)[k] = IF k < i THEN events[k] ELSE events[k + 1]
<1>1. events \in Seq(Events) /\ Len(events) \in Nat
  BY DEF TypeOK
<1> DEFINE front == SubSeq(events, 1, i - 1)
           rest == SubSeq(events, i + 1, Len(events))
<1>2. /\ front \in Seq(Events) /\ Len(front) = i - 1
      /\ \A k \in 1..(i - 1) : front[k] = events[k]
  BY <1>1
<1>3. /\ rest \in Seq(Events) /\ Len(rest) = Len(events) - i
      /\ \A k \in 1..(Len(events) - i) : rest[k] = events[i + k]
  BY <1>1
<1>4. Drop(i) = front \o rest
  BY DEF Drop
<1> HIDE DEF front, rest
<1>5. /\ Drop(i) \in Seq(Events) /\ Len(Drop(i)) = Len(events) - 1
      /\ \A k \in 1..(i - 1) : Drop(i)[k] = front[k]
      /\ \A k \in i..(Len(events) - 1) : Drop(i)[k] = rest[k - (i - 1)]
  BY <1>1, <1>2, <1>3, <1>4
<1>6. ASSUME NEW k \in 1..(Len(events) - 1)
      PROVE  Drop(i)[k] = IF k < i THEN events[k] ELSE events[k + 1]
  <2>1. CASE k < i
    BY <1>1, <1>2, <1>5, <2>1
  <2>2. CASE ~(k < i)
    <3>1. k - (i - 1) \in 1..(Len(events) - i) /\ i + (k - (i - 1)) = k + 1
      BY <1>1, <2>2
    <3> QED
      BY <1>1, <1>3, <1>5, <2>2, <3>1
  <2> QED
    BY <2>1, <2>2
<1> QED
  BY <1>5, <1>6

LEMMA NextAskInv ==
  ASSUME TypeOK, AskInv, Next
  PROVE  AskInv'
<1>0. events \in Seq(Events) /\ Len(events) \in Nat
      /\ pending \in [Tokens -> Runs \cup {None}]
      /\ asked \in [Tokens -> {"no", "open", "replied", "answered"}]
  BY DEF TypeOK
<1>1. ASSUME UNCHANGED <<pending, asked, events, routing>>
      PROVE  AskInv'
  BY <1>1 DEF AskInv, Unheard
<1>2. ASSUME NEW i \in 1..MaxEvents, ResolveEvent(i)
      PROVE  AskInv'
  <2>1. /\ i \in 1..Len(events) /\ routing = None /\ events' = Drop(i)
        /\ UNCHANGED <<pending, asked>>
        /\ routing' = routing \/ routing' = [event |-> events[i], run |-> Head(queue)]
    BY <1>0, <1>2 DEF ResolveEvent
  <2> DEFINE at(k) == IF k < i THEN k ELSE k + 1
  <2>2. /\ Len(events') = Len(events) - 1
        /\ \A k \in 1..Len(events') : /\ at(k) \in 1..Len(events) \ {i}
                                      /\ events'[k] = events[at(k)]
        /\ \A j, k \in 1..Len(events') : at(j) = at(k) => j = k
    <3>1. /\ Len(events') = Len(events) - 1
          /\ \A k \in 1..Len(events') : events'[k] = IF k < i THEN events[k]
                                                     ELSE events[k + 1]
      BY <2>1, DropAt
    <3>2. \A k \in 1..Len(events') : at(k) \in 1..Len(events) \ {i}
      BY <1>0, <2>1, <3>1
    <3>3. \A j, k \in 1..Len(events') : at(j) = at(k) => j = k
      BY <1>0, <2>1, <3>1
    <3> QED
      BY <3>1, <3>2, <3>3
  <2> HIDE DEF at
  <2>3. \A t : Unheard(t)' <=> Unheard(t)
    BY <2>1 DEF Unheard
  <2>4. ASSUME NEW k \in 1..Len(events'), IsAsk(events'[k])
        PROVE  /\ Unheard(events'[k].token)
               /\ \A j \in 1..Len(events') :
                    IsAsk(events'[j]) /\ events'[j].token = events'[k].token => j = k
    <3>1. at(k) \in 1..Len(events) /\ events'[k] = events[at(k)]
      BY <2>2
    <3>2. ASSUME NEW j \in 1..Len(events'), IsAsk(events'[j]),
                 events'[j].token = events'[k].token
          PROVE  j = k
      <4>1. at(j) \in 1..Len(events) /\ events'[j] = events[at(j)]
        BY <2>2
      <4>2. at(j) = at(k)
        BY <2>4, <3>1, <3>2, <4>1 DEF AskInv
      <4> QED
        BY <2>2, <4>2
    <3> QED
      BY <2>4, <3>1, <3>2 DEF AskInv
  <2>5. routing' # None /\ IsAsk(routing'.event) =>
          /\ Unheard(routing'.event.token)
          /\ \A k \in 1..Len(events') :
               IsAsk(events'[k]) => events'[k].token # routing'.event.token
    BY <2>1, <2>2 DEF AskInv
  <2> QED
    BY <2>1, <2>3, <2>4, <2>5 DEF AskInv, IsAsk, Unheard
<1>3. ASSUME RouteEvent
      PROVE  AskInv'
  <2>1. routing # None /\ routing.event \in Events /\ routing.run \in Runs
    BY <1>3 DEF RouteEvent, TypeOK
  <2> PICK e \in Events, r \in Runs : e = routing.event /\ r = routing.run
    BY <2>1
  <2>2. /\ routing' = None /\ UNCHANGED <<asked, events>>
        /\ \/ UNCHANGED pending
           \/ IsAsk(e) /\ pending' = [pending EXCEPT ![e.token] = r]
    BY <1>3 DEF RouteEvent, Asks, IsAsk, hostVars
  <2>3. CASE UNCHANGED pending
    BY <2>2, <2>3 DEF AskInv, Unheard
  <2>4. CASE IsAsk(e) /\ pending' = [pending EXCEPT ![e.token] = r]
    <3>1. /\ e.token \in Tokens /\ asked[e.token] # "no"
          /\ \A i \in 1..Len(events) : IsAsk(events[i]) => events[i].token # e.token
      BY <2>1, <2>4 DEF AskInv, Unheard
    <3>2. \A t \in Tokens \ {e.token} : pending'[t] = pending[t]
      BY <1>0, <2>4
    <3>3. \A t \in Tokens : pending'[t] # None => asked'[t] # "no"
      BY <2>2, <3>1, <3>2 DEF AskInv
    <3>4. \A i \in 1..Len(events) : IsAsk(events[i]) => Unheard(events[i].token)'
      BY <2>2, <3>1, <3>2 DEF AskInv, Unheard
    <3> QED
      BY <2>2, <3>3, <3>4 DEF AskInv
  <2> QED
    BY <2>2, <2>3, <2>4
<1>4. ASSUME NEW t \in Tokens, ReplyInteraction(t)
      PROVE  AskInv'
  <2>1. /\ pending' = [pending EXCEPT ![t] = None] /\ UNCHANGED <<events, routing>>
        /\ UNCHANGED asked \/ asked' = [asked EXCEPT ![t] = "replied"]
    BY <1>4 DEF ReplyInteraction
  <2>2. \A u \in Tokens : /\ pending'[u] # None => pending'[u] = pending[u]
                          /\ pending[u] = None => pending'[u] = None
                          /\ asked[u] # "no" => asked'[u] # "no"
    BY <1>0, <2>1
  <2>3. \A u : Unheard(u) => Unheard(u)'
    BY <2>2 DEF Unheard
  <2> QED
    BY <2>1, <2>2, <2>3 DEF AskInv
<1>5. ASSUME UNCHANGED <<pending, routing>>,
             \A u \in Tokens : asked[u] # "no" => asked'[u] # "no",
             NEW e \in Events, events' = Append(events, e),
             IsAsk(e) => /\ e.token \in Tokens /\ asked[e.token] = "no"
                         /\ asked'[e.token] # "no"
      PROVE  AskInv'
  <2>1. /\ Len(events') = Len(events) + 1 /\ events'[Len(events) + 1] = e
        /\ \A i \in 1..Len(events) : events'[i] = events[i]
    BY <1>0, <1>5
  <2>2. \A u : Unheard(u) => Unheard(u)'
    BY <1>5 DEF Unheard
  <2>3. IsAsk(e) => Unheard(e.token)' /\ ~Unheard(e.token)
    BY <1>5 DEF Unheard, AskInv
  <2>4. \A i \in 1..Len(events') : i \in 1..Len(events) \/ i = Len(events) + 1
    BY <1>0, <2>1
  <2>5. \A i \in 1..Len(events') : IsAsk(events'[i]) => Unheard(events[i].token)'
    BY <2>1, <2>2, <2>3, <2>4 DEF AskInv
  <2>6. ASSUME NEW i \in 1..Len(events'), NEW j \in 1..Len(events'),
               IsAsk(events'[i]), IsAsk(events'[j]), events'[i].token = events'[j].token
        PROVE  i = j
    <3>1. CASE i \in 1..Len(events) /\ j \in 1..Len(events)
      BY <2>1, <2>6, <3>1 DEF AskInv
    <3>2. CASE i = Len(events) + 1 /\ j \in 1..Len(events)
      BY <2>1, <2>3, <2>6, <3>2 DEF AskInv
    <3>3. CASE j = Len(events) + 1 /\ i \in 1..Len(events)
      BY <2>1, <2>3, <2>6, <3>3 DEF AskInv
    <3> QED
      BY <2>4, <3>1, <3>2, <3>3
  <2>7. routing' # None /\ IsAsk(routing'.event) =>
          /\ Unheard(routing.event.token)'
          /\ \A i \in 1..Len(events') :
               IsAsk(events'[i]) => events'[i].token # routing'.event.token
    BY <1>5, <2>1, <2>2, <2>3, <2>4 DEF AskInv
  <2>8. \A u \in Tokens : pending'[u] # None => asked'[u] # "no"
    BY <1>5 DEF AskInv
  <2> QED
    BY <2>5, <2>6, <2>7, <2>8 DEF AskInv
<1>6. ASSUME NEW kind \in Kinds, NEW m \in Messages, NEW t \in Tokens \cup {None}
      PROVE  /\ EventOf(kind, m, t, Home(m)) \in Events
             /\ EventOf(kind, m, t, Home(m)).kind = kind
             /\ EventOf(kind, m, t, Home(m)).token = t
  BY DEF EventOf, Events
<1>7. ASSUME NEW m \in Messages, HostBegins(m) \/ HostWrites(m)
      PROVE  AskInv'
  <2>1. PICK kind \in {"created", "part", "completed", "final"} : Publish(kind, m, None)
    BY <1>7 DEF HostBegins, HostWrites
  <2>2. UNCHANGED asked
    BY <1>7 DEF HostBegins, HostWrites
  <2> QED
    BY <1>5, <1>6, <2>1, <2>2 DEF Publish, Kinds, IsAsk
<1>8. ASSUME NEW t \in Tokens, HostAsks(t)
      PROVE  AskInv'
  <2>1. PICK kind \in {"question", "permission"} : Publish(kind, About[t], t)
    BY <1>8 DEF HostAsks
  <2>2. asked[t] = "no" /\ asked' = [asked EXCEPT ![t] = "open"] /\ About[t] \in Messages
    BY <1>8, TokensHaveMessages DEF HostAsks
  <2>3. asked'[t] # "no" /\ \A u \in Tokens : asked[u] # "no" => asked'[u] # "no"
    BY <1>0, <2>2
  <2> QED
    BY <1>5, <1>6, <2>1, <2>2, <2>3 DEF Publish, Kinds
<1>9. ASSUME NEW t \in Tokens, HostIsAnswered(t)
      PROVE  AskInv'
  <2>1. /\ asked' = [asked EXCEPT ![t] = "answered"] /\ About[t] \in Messages
        /\ \/ Publish("replied", About[t], t)
           \/ UNCHANGED <<pending, events, routing>>
    BY <1>9, TokensHaveMessages DEF HostIsAnswered
  <2>2. \A u \in Tokens : asked[u] # "no" => asked'[u] # "no"
    BY <1>0, <2>1
  <2>3. CASE UNCHANGED <<pending, events, routing>>
    BY <2>2, <2>3 DEF AskInv, Unheard
  <2>4. CASE Publish("replied", About[t], t)
    BY <1>5, <1>6, <2>1, <2>2, <2>4 DEF Publish, Kinds, IsAsk
  <2> QED
    BY <2>1, <2>3, <2>4
<1>10. ASSUME \/ \E r \in Runs : Enqueue(r) \/ PromptReturns(r) \/ TaskFinishes(r)
                                 \/ DrainEnds(r) \/ IdleTimeout(r)
              \/ Advance \/ CloseSession
       PROVE  AskInv'
  BY <1>1, <1>10 DEF Enqueue, PromptReturns, TaskFinishes, DrainEnds, IdleTimeout,
     Advance, CloseSession, hostVars
<1> QED
  BY <1>2, <1>3, <1>4, <1>7, <1>8, <1>9, <1>10 DEF Next, EventLoop, HostStep

\* Facts are closed with a terminal result, which is the result then.
LEMMA ResultAtClose ==
  ASSUME TypeOK, WatchInv, NEW rs \in SUBSET Runs, CloseFacts(rs),
         \A q \in rs : terminal'[q] # None
  PROVE  \A q \in closed' : result'[q] # None
<1>1. /\ closed' = closed \cup rs
      /\ result' = [r \in Runs |->
           IF r \in rs /\ terminal'[r] # None /\ r \in closed' /\ result[r] = None
           THEN terminal'[r] ELSE result[r]]
  BY DEF CloseFacts, SettleIfReady
<1> QED
  BY <1>1 DEF WatchInv, TypeOK

\* Closing the facts of some runs stops no timer of another.
LEMMA CloseWatchInv ==
  ASSUME TypeOK, WatchInv, NEW rs \in SUBSET Runs, CloseFacts(rs),
         \A q \in rs : terminal'[q] # None,
         \A q \in Runs \ rs : terminal'[q] = terminal[q],
         UNCHANGED <<tasks, prompted, pending>>,
         prompts \cup returned \cup taskDone
           \subseteq prompts' \cup returned' \cup taskDone'
  PROVE  WatchInv'
<1>1. \A q \in closed' : result'[q] # None
  BY ResultAtClose
<1>2. closed' = closed \cup rs /\ drain' = drain \ rs /\ idle' = idle \ rs
  BY DEF CloseFacts
<1>3. \A q : Asking(q)' <=> Asking(q)
  BY DEF Asking
<1>4. \A q \in prompted' \ closed' :
        q \in drain' \/ (terminal'[q] = None /\ (q \in idle' \/ Asking(q)))
  BY <1>2 DEF WatchInv, TypeOK
<1>5. prompted' \subseteq prompts' \cup returned' \cup taskDone'
      /\ (tasks' # <<>> => Head(tasks') \in prompted' \cup closed')
  BY <1>2 DEF WatchInv
<1> QED
  BY <1>1, <1>3, <1>4, <1>5 DEF WatchInv

LEMMA AbortWatchInv ==
  ASSUME TypeOK, WatchInv, AbortAll, UNCHANGED <<tasks, prompted, pending, taskDone>>,
         prompts \cup returned \subseteq prompts' \cup returned'
  PROVE  WatchInv'
<1> DEFINE live == Queued \ forced
<1>1. live \in SUBSET Runs
  BY DEF Queued, TypeOK
<1>2. /\ CloseFacts(live)
      /\ terminal' = [r \in Runs |-> IF r \in live THEN "aborted" ELSE terminal[r]]
  BY DEF AbortAll
<1> HIDE DEF live
<1>3. /\ \A q \in live : terminal'[q] # None
      /\ \A q \in Runs \ live : terminal'[q] = terminal[q]
  BY <1>1, <1>2, NoneIsNoOutcome DEF Outcomes
<1> QED
  BY <1>1, <1>2, <1>3, CloseWatchInv

\* Timers may be armed, and nothing else that is waited for changes.
LEMMA WatchStays ==
  ASSUME TypeOK, WatchInv, UNCHANGED <<tasks, prompted, closed, result>>,
         prompts \cup returned \cup taskDone
           \subseteq prompts' \cup returned' \cup taskDone',
         \A q \in prompted \ closed :
           \/ q \in drain'
           \/ /\ terminal'[q] = None
              /\ q \in idle' \/ \E t \in Tokens : pending'[t] = q
  PROVE  WatchInv'
  BY DEF WatchInv, Asking

\* The run that is in front of the tasks is prompted, unless it is over.
LEMMA StartWatchInv ==
  ASSUME TypeOK, StartedInv, EndInv, WatchInv, NEW q \in Seq(Runs), StartPrompt(q),
         tasks' # <<>> => q # <<>> /\ Head(q) = Head(tasks'),
         q # <<>> => Head(q) \notin prompted
                       /\ (Head(q) \in enqueued \ closed => Head(q) \in Queued),
         UNCHANGED <<closed, result, drain, terminal, pending, returned, taskDone>>
  PROVE  WatchInv'
<1>1. CASE q = <<>>
  <2>1. UNCHANGED <<prompted, idle, prompts>> /\ tasks' = <<>>
    BY <1>1 DEF StartPrompt
  <2> QED
    BY <2>1 DEF WatchInv, Asking
<1>2. CASE q # <<>>
  <2>1. Head(q) \in Runs
    BY <1>2
  <2>2. Head(q) \notin closed => terminal[Head(q)] = None /\ Head(q) \notin forced
    BY <1>2, <2>1 DEF EndInv
  <2>3. CASE Head(q) \in closed
    <3>1. UNCHANGED <<prompted, idle, prompts>> \/
            /\ prompted' = prompted \cup {Head(q)} /\ idle' = idle \cup {Head(q)}
            /\ prompts' = prompts \cup {Head(q)}
      BY DEF StartPrompt
    <3> QED
      BY <1>2, <2>3, <3>1 DEF WatchInv, Asking
  <2>4. CASE Head(q) \notin closed
    <3>1. /\ prompted' = prompted \cup {Head(q)} /\ idle' = idle \cup {Head(q)}
          /\ prompts' = prompts \cup {Head(q)}
      BY <1>2, <2>2, <2>4 DEF StartPrompt
    <3> QED
      BY <1>2, <2>2, <2>4, <3>1 DEF WatchInv, Asking
  <2> QED
    BY <2>3, <2>4
<1> QED
  BY <1>1, <1>2

LEMMA NextWatchInv ==
  ASSUME TypeOK, OrderInv, StartedInv, EndInv, AskInv, WatchInv, Next
  PROVE  WatchInv'
<1>0. queue \in Seq(Runs) /\ tasks \in Seq(Runs) /\ terminal \in [Runs -> Outcomes \cup {None}]
  BY DEF TypeOK
<1>1. ASSUME NEW r \in Runs, Enqueue(r)
      PROVE  WatchInv'
  <2>1. /\ r \notin enqueued /\ tasks' = Append(tasks, r)
        /\ UNCHANGED <<closed, result, drain, terminal, pending, returned, taskDone>>
    BY <1>1 DEF Enqueue, endVars
  <2>2. CASE tasks = <<>>
    <3>1. /\ StartPrompt(<<r>>) /\ <<r>> \in Seq(Runs) /\ Head(<<r>>) = r
          /\ <<r>> # <<>> /\ tasks' = <<r>>
      BY <1>0, <1>1, <2>1, <2>2 DEF Enqueue
    <3>2. r \notin prompted /\ r \notin enqueued \ closed
      BY <2>1 DEF StartedInv
    <3> QED
      BY <2>1, <3>1, <3>2, StartWatchInv
  <2>3. CASE tasks # <<>>
    <3>1. UNCHANGED <<prompted, idle, prompts>> /\ Head(tasks') = Head(tasks)
      BY <1>0, <1>1, <2>1, <2>3 DEF Enqueue
    <3> QED
      BY <2>1, <2>3, <3>1 DEF WatchInv, Asking
  <2> QED
    BY <2>2, <2>3
<1>2. ASSUME Advance
      PROVE  WatchInv'
  <2>1. /\ tasks # <<>> /\ tasks' = Tail(tasks) /\ StartPrompt(Tail(tasks))
        /\ UNCHANGED <<closed, result, drain, terminal, pending, returned, taskDone>>
    BY <1>2 DEF Advance, endVars
  <2>2. Tail(tasks) \in Seq(Runs)
    BY <1>0, <2>1
  <2>3. ASSUME Tail(tasks) # <<>>
        PROVE  Head(Tail(tasks)) \notin prompted
               /\ (Head(Tail(tasks)) \in enqueued \ closed => Head(Tail(tasks)) \in Queued)
    <3>1. Head(Tail(tasks)) = tasks[2] /\ 2 \in 1..Len(tasks)
      BY <1>0, <2>1, <2>3
    <3> QED
      BY <3>1 DEF OrderInv, EndInv
  <2> QED
    BY <2>1, <2>2, <2>3, StartWatchInv
<1>3. ASSUME NEW r \in Runs, PromptReturns(r)
      PROVE  WatchInv'
  <2>1. /\ prompts' = prompts \ {r} /\ returned' = returned \cup {r}
        /\ UNCHANGED <<tasks, prompted, pending, taskDone>>
    BY <1>3 DEF PromptReturns
  <2>2. CASE AbortAll
    BY <2>1, <2>2, AbortWatchInv
  <2>3. CASE r \in forced /\ UNCHANGED <<closed, result, terminal, drain, idle>>
    BY <2>1, <2>3 DEF WatchInv, Asking
  <2>4. CASE FailPrompt(r) /\ r \notin forced
    <3>1. CloseFacts({r}) /\ terminal' = [terminal EXCEPT ![r] = "failed"]
      BY <2>4 DEF FailPrompt
    <3>2. /\ \A q \in {r} : terminal'[q] # None
          /\ \A q \in Runs \ {r} : terminal'[q] = terminal[q]
      BY <1>0, <3>1, NoneIsNoOutcome DEF Outcomes
    <3> QED
      BY <2>1, <3>1, <3>2, CloseWatchInv
  <2>5. ASSUME NEW outcome \in Outcomes, SettlePrompt(r, outcome), r \notin forced
        PROVE  WatchInv'
    <3>1. /\ terminal' = [terminal EXCEPT ![r] = outcome] /\ drain' = drain \cup {r}
          /\ UNCHANGED <<closed, result, idle>>
      BY <2>5 DEF SettlePrompt
    <3> QED
      BY <1>0, <2>1, <3>1, WatchStays DEF WatchInv, Asking, TypeOK
  <2> QED
    BY <1>3, <2>2, <2>3, <2>4, <2>5 DEF PromptReturns, SettlePrompt, FailPrompt,
       endVars, timerVars, Outcomes
<1>4. ASSUME NEW r \in Runs, TaskFinishes(r)
      PROVE  WatchInv'
  BY <1>4, WatchStays DEF TaskFinishes, timerVars, hostVars, WatchInv, Asking
<1>5. ASSUME NEW r \in Runs, DrainEnds(r)
      PROVE  WatchInv'
  <2>1. /\ r \in quiet \cup drain /\ CloseFacts({r})
        /\ UNCHANGED <<terminal, tasks, prompted, pending, taskDone, prompts, returned>>
    BY <1>5 DEF DrainEnds, hostVars
  <2>2. terminal[r] # None
    BY <2>1 DEF EndInv
  <2> QED
    BY <2>1, <2>2, CloseWatchInv
<1>6. ASSUME NEW r \in Runs, IdleTimeout(r)
      PROVE  WatchInv'
  <2>1. UNCHANGED <<tasks, prompted, pending, prompts, returned>>
    BY <1>6 DEF IdleTimeout, hostVars
  <2>2. CASE Asking(r)
    <3>1. /\ idle' = idle \ {r} /\ UNCHANGED <<closed, result, terminal, drain, taskDone>>
      BY <1>6, <2>2 DEF IdleTimeout, endVars
    <3> QED
      BY <2>1, <2>2, <3>1, WatchStays DEF WatchInv, Asking
  <2>3. CASE ~Asking(r)
    <3>1. /\ CloseFacts({r}) /\ terminal' = [terminal EXCEPT ![r] = "timeout"]
          /\ taskDone' = taskDone \cup {r}
      BY <1>6, <2>3 DEF IdleTimeout, ForceTimeout
    <3>2. /\ \A q \in {r} : terminal'[q] # None
          /\ \A q \in Runs \ {r} : terminal'[q] = terminal[q]
      BY <1>0, <3>1, NoneIsNoOutcome DEF Outcomes
    <3> QED
      BY <2>1, <3>1, <3>2, CloseWatchInv
  <2> QED
    BY <2>2, <2>3
<1>7. CASE CloseSession
  BY <1>7, AbortWatchInv DEF CloseSession, hostVars
<1>8. ASSUME RouteEvent
      PROVE  WatchInv'
  <2>1. routing # None /\ routing.event \in Events /\ routing.run \in Runs
    BY <1>8 DEF RouteEvent, TypeOK
  <2> PICK e \in Events, r \in Runs : e = routing.event /\ r = routing.run
    BY <2>1
  <2>2. /\ UNCHANGED <<queueVars, endVars, drain, returned, prompts>>
        /\ idle \subseteq idle'
        /\ \/ UNCHANGED pending
           \/ IsAsk(e) /\ pending' = [pending EXCEPT ![e.token] = r]
    BY <1>8 DEF RouteEvent, Asks, IsAsk, hostVars
  <2>3. \A q \in Runs : Asking(q) => \E t \in Tokens : pending'[t] = q
    <3>1. CASE UNCHANGED pending
      BY <3>1 DEF Asking
    <3>2. CASE IsAsk(e) /\ pending' = [pending EXCEPT ![e.token] = r]
      <4>1. pending[e.token] = None /\ pending \in [Tokens -> Runs \cup {None}]
        BY <2>1, <3>2 DEF AskInv, Unheard, TypeOK
      <4> QED
        BY <3>2, <4>1, NoneIsNobody DEF Asking
    <3> QED
      BY <2>2, <3>1, <3>2
  <2>4. prompted \subseteq Runs
    BY DEF TypeOK
  <2> QED
    BY <2>2, <2>3, <2>4, WatchStays DEF WatchInv, queueVars, endVars
<1>9. ASSUME NEW t \in Tokens, ReplyInteraction(t)
      PROVE  WatchInv'
  <2>1. /\ pending' = [pending EXCEPT ![t] = None]
        /\ idle' = IF Watchful(pending[t]) THEN idle \cup {pending[t]} ELSE idle
        /\ UNCHANGED <<queueVars, endVars, drain, returned, prompts>>
    BY <1>9 DEF ReplyInteraction
  <2>2. pending \in [Tokens -> Runs \cup {None}] /\ prompted \subseteq Runs
    BY DEF TypeOK
  <2>3. ASSUME NEW q \in prompted \ closed, q \notin drain
        PROVE  terminal[q] = None /\ (q \in idle' \/ \E u \in Tokens : pending'[u] = q)
    <3>1. terminal[q] = None /\ (q \in idle \/ Asking(q))
      BY <2>3 DEF WatchInv
    <3>2. CASE q \in idle
      BY <2>1, <3>1, <3>2
    <3>3. CASE pending[t] = q
      <4>1. q \in Queued /\ q \notin forced
        BY <2>3 DEF EndInv, StartedInv
      <4>2. Watchful(q)
        BY <2>3, <3>1, <4>1 DEF Watchful
      <4> QED
        BY <2>1, <3>1, <3>3, <4>2
    <3>4. CASE \E u \in Tokens \ {t} : pending[u] = q
      BY <2>1, <2>2, <3>1, <3>4
    <3> QED
      BY <3>1, <3>2, <3>3, <3>4 DEF Asking
  <2> QED
    BY <2>1, <2>3, WatchStays DEF WatchInv, queueVars, endVars
<1>10. ASSUME UNCHANGED <<queueVars, endVars, drain, idle, returned, prompts, pending>>
       PROVE  WatchInv'
  BY <1>10 DEF WatchInv, Asking, queueVars, endVars
<1>11. CASE HostStep \/ \E i \in 1..MaxEvents : ResolveEvent(i)
  BY <1>10, <1>11 DEF ResolveEvent, HostStep, HostBegins, HostWrites, HostAsks,
     HostIsAnswered, Publish, timerVars
<1> QED
  BY <1>1, <1>2, <1>3, <1>4, <1>5, <1>6, <1>7, <1>8, <1>9, <1>11 DEF Next, EventLoop

\* No session is stuck: whatever is given up, overtaken or asked meanwhile, the first
\* run that is not over is waited for by the coordinator, a timer, the user or the
\* prompt it still has out.
THEOREM NoSessionIsStuck == Spec => []SomebodyActs
<1>1. Init => AskInv /\ WatchInv
  BY DEF Init, AskInv, WatchInv
<1>2. ASSUME SessionInv, AskInv, WatchInv, [Next]_vars
      PROVE  AskInv' /\ WatchInv'
  <2>1. CASE Next
    BY <1>2, <2>1, NextAskInv, NextWatchInv DEF SessionInv
  <2>2. CASE UNCHANGED vars
    BY <1>2, <2>2 DEF AskInv, Unheard, WatchInv, Asking, vars, queueVars, endVars,
       timerVars, hostVars
  <2> QED
    BY <1>2, <2>1, <2>2
<1>3. ASSUME SessionInv, WatchInv
      PROVE  SomebodyActs
  <2>1. /\ tasks # <<>> => Head(tasks) \in prompted \cup closed
        /\ prompted \cup closed \subseteq Runs
    BY <1>3 DEF WatchInv, SessionInv, TypeOK
  <2> QED
    BY <1>3, <2>1 DEF SomebodyActs, TaskOver, WatchInv, SessionInv, StartedInv
<1> QED
  BY <1>1, <1>2, <1>3, SessionInvariance, PTL DEF Spec

-----------------------------------------------------------------------------
(* The one runtime of the plugin. *)

\* What the module state knows of an initialization, and what it may have
\* left behind at each of its awaits and callbacks.
IsKnown(c) ==
  /\ aborted[c] => initializing # c /\ holder # c /\ phase[c] # "unused"
  /\ phase[c] \in Awaits \cup {"raced", "started"} =>
       initializing = c \/ aborted[c]
  /\ phase[c] = "connecting" => initializing = c
  /\ holder = c \/ initializing = c => phase[c] # "unused"
  /\ runtime = c => phase[c] \in {"settled", "returning", "over"}

IsLinked(c) ==
  /\ phase[c] \in {"unused", "config", "health"} => link[c] = "none"
  /\ link[c] \in Live =>
       \/ phase[c] = "connecting" /\ initializing = c
       \/ phase[c] = "raced" /\ initializing = c /\ fulfilled[c]
       \/ phase[c] = "started" /\ started[c]
       \/ /\ phase[c] \in {"settled", "returning", "over"}
          /\ runtime = c /\ holder = c /\ started[c]

\* A stopped plugin is locked, or a load has found the stopped runtime that
\* startRuntimeFromLoadedInput() put back.
StopHolds ==
  hostStopped => /\ holder = NoCandidate
                 /\ locked \/ (runtime # NoCandidate /\ initState = "succeeded")

PluginInv ==
  /\ \A c \in Candidates : IsKnown(c) /\ IsLinked(c)
  /\ initializing # NoCandidate => holder = initializing
  /\ StopHolds

Uncrossed == crossed \/ PluginInv

USE DEF Candidates, NoCandidate, Awaits, Live

-----------------------------------------------------------------------------
LEMMA TypePreserved ==
  ASSUME PluginTypeOK, [PluginNext]_pluginVars
  PROVE  PluginTypeOK'
<1> USE StartsAreBounded DEF PluginTypeOK, Phases, Microtasks, Links, InitStates,
        Statuses, Unavailable
<1> USE DEF Goto, Step
<1>1. CASE LoadOnly
  BY <1>1 DEF LoadOnly, candidateVars
<1>2. ASSUME NEW c \in Candidates, LoadBegins(c)
      PROVE  PluginTypeOK'
  BY <1>2 DEF LoadBegins, Begin
<1>3. ASSUME NEW c \in Candidates, ExplicitStart(c)
      PROVE  PluginTypeOK'
  BY <1>3 DEF ExplicitStart, StopInternal, Begin, LinksAfterStop,
     PhaseAfterAbort
<1>4. CASE ExplicitStop
  BY <1>4 DEF ExplicitStop, StopInternal, LinksAfterStop, PhaseAfterAbort
<1>5. ASSUME NEW c \in Candidates,
             ConfigFails(c) \/ ConfigResolved(c) \/ HealthFails(c) \/ Healthy(c)
      PROVE  PluginTypeOK'
  <2>1. CASE ConfigFails(c)
    BY <2>1 DEF ConfigFails, StartFails, singletonVars
  <2>2. CASE ConfigResolved(c)
    BY <2>2 DEF ConfigResolved, singletonVars
  <2>3. CASE HealthFails(c)
    BY <2>3 DEF HealthFails, StartFails, singletonVars
  <2>4. CASE Healthy(c)
    BY <2>4 DEF Healthy, singletonVars
  <2> QED
    BY <1>5, <2>1, <2>2, <2>3, <2>4
<1>6. ASSUME NEW c \in Candidates, SdkStartEnds(c)
      PROVE  PluginTypeOK'
  BY <1>6 DEF SdkStartEnds, singletonVars, FailedStatus
<1>7. ASSUME NEW c \in Candidates, LinkMoves(c)
      PROVE  PluginTypeOK'
  BY <1>7 DEF LinkMoves, singletonVars, FailedStatus
<1>8. ASSUME NEW c \in Candidates, RaceEnds(c)
      PROVE  PluginTypeOK'
  BY <1>8 DEF RaceEnds, singletonVars, PluginFailureStatus
<1>9. ASSUME NEW c \in Candidates, Then(c) \/ Catch(c) \/ Finally(c) \/ Return(c)
      PROVE  PluginTypeOK'
  <2>1. CASE Then(c) /\ holder = c
    BY <2>1 DEF Then, Initialized
  <2>2. CASE Then(c) /\ holder # c
    <3>1. /\ phase' = [phase EXCEPT ![c] = "rejected"]
          /\ link' = [link EXCEPT ![c] = "stopped"]
          /\ started' = [started EXCEPT ![c] = FALSE]
          /\ status' = "not_ready"
      BY <2>2 DEF Then, Initialized
    <3>2. UNCHANGED <<loaded, runtime, initializing, holder, initState, locked,
                     explicit, aborted, fulfilled, hostStopped>>
      BY <2>2 DEF Then, Initialized
    <3>3. crossed' \in BOOLEAN
      BY <2>2 DEF Then
    <3>4. /\ phase' \in [Candidates -> Phases] /\ link' \in [Candidates -> Links]
          /\ started' \in [Candidates -> BOOLEAN] /\ status' \in Statuses
      BY <3>1
    <3> QED
      BY <3>2, <3>3, <3>4
  <2>3. CASE Catch(c)
    BY <2>3 DEF Catch
  <2>4. CASE Finally(c)
    BY <2>4 DEF Finally
  <2>5. CASE Return(c)
    BY <2>5 DEF Return
  <2> QED
    BY <1>9, <2>1, <2>2, <2>3, <2>4, <2>5
<1>10. CASE UNCHANGED pluginVars
  BY <1>10 DEF pluginVars, singletonVars, candidateVars
<1> QED
  BY <1>1, <1>2, <1>3, <1>4, <1>5, <1>6, <1>7, <1>8, <1>9, <1>10
  DEF PluginNext, Callback

-----------------------------------------------------------------------------
(* Initializations that do not cross leave the module state sound. *)

\* Whoever steps without crossing is the one the module state knows, if it
\* knows one.
LEMMA StepIsAlone ==
  ASSUME PluginTypeOK, NEW c \in Candidates, Step(c), ~crossed'
  PROVE  holder \in {NoCandidate, c} /\ runtime \in {NoCandidate, c}
BY DEF Step, PluginTypeOK

LEMMA LoadInv ==
  ASSUME PluginTypeOK, PluginInv,
         LoadOnly \/ \E c \in Candidates : LoadBegins(c)
  PROVE  PluginInv'
<1>1. CASE LoadOnly
  BY <1>1 DEF LoadOnly, candidateVars, PluginInv, IsKnown, IsLinked, StopHolds
<1>2. ASSUME NEW c \in Candidates, LoadBegins(c)
      PROVE  PluginInv'
  <2>1. /\ phase[c] = "unused" /\ runtime = NoCandidate /\ initializing = NoCandidate
        /\ ~locked /\ ~hostStopped
        /\ phase' = [phase EXCEPT ![c] = "config"]
        /\ holder' = c /\ initializing' = c
        /\ UNCHANGED <<runtime, aborted, fulfilled, started, link, hostStopped>>
    BY <1>2 DEF LoadBegins, MayBegin, Begin, Fresh, Unused, PluginInv,
       StopHolds, PluginTypeOK
  <2>2. ASSUME NEW d \in Candidates
        PROVE  (IsKnown(d) /\ IsLinked(d))'
    <3>1. phase'[d] = IF d = c THEN "config" ELSE phase[d]
      BY <2>1 DEF PluginTypeOK
    <3> QED
      BY <2>1, <3>1 DEF PluginInv, IsKnown, IsLinked
  <2> QED
    BY <2>1, <2>2 DEF PluginInv, StopHolds
<1> QED
  BY <1>1, <1>2

\* The explicit calls: what was installed or is connecting is stopped.
LEMMA ExplicitInv ==
  ASSUME PluginTypeOK, PluginInv,
         ExplicitStop \/ \E c \in Candidates : ExplicitStart(c)
  PROVE  PluginInv'
<1>1. ASSUME NEW d \in Candidates, StopInternal
      PROVE  /\ aborted'[d] <=> aborted[d] \/ initializing = d
             /\ link'[d] = IF runtime = d \/ (initializing = d
                                /\ phase[d] \in {"connecting", "raced"})
                           THEN "stopped" ELSE link[d]
             /\ started'[d] <=> started[d] /\ runtime # d
             /\ PhaseAfterAbort[d] =
                  IF initializing = d /\ phase[d] = "connecting"
                  THEN "rejected" ELSE phase[d]
  BY <1>1 DEF StopInternal, LinksAfterStop, PhaseAfterAbort
<1>2. CASE ExplicitStop
  <2>1. /\ StopInternal /\ phase' = PhaseAfterAbort
        /\ holder' = NoCandidate /\ initializing' = NoCandidate /\ runtime' = NoCandidate
        /\ locked' /\ UNCHANGED fulfilled
    BY <1>2 DEF ExplicitStop, StopInternal
  <2>2. ASSUME NEW d \in Candidates
        PROVE  (IsKnown(d) /\ IsLinked(d))'
    BY <1>1, <2>1 DEF PluginInv, IsKnown, IsLinked, PluginTypeOK
  <2> QED
    BY <2>1, <2>2 DEF PluginInv, StopHolds
<1>3. ASSUME NEW c \in Candidates, ExplicitStart(c)
      PROVE  PluginInv'
  <2>1. /\ StopInternal /\ phase[c] = "unused"
        /\ phase' = [PhaseAfterAbort EXCEPT ![c] = "config"]
        /\ holder' = c /\ initializing' = c /\ runtime' = NoCandidate
        /\ hostStopped' = FALSE /\ UNCHANGED fulfilled
    BY <1>3 DEF ExplicitStart, StopInternal, Begin, Fresh, Unused
  <2>2. ASSUME NEW d \in Candidates
        PROVE  (IsKnown(d) /\ IsLinked(d))'
    <3>1. phase'[d] = IF d = c THEN "config" ELSE PhaseAfterAbort[d]
      BY <2>1 DEF PhaseAfterAbort
    <3>2. CASE d = c
      BY <1>1, <2>1, <3>1, <3>2 DEF PluginInv, IsKnown, IsLinked
    <3>3. CASE d # c
      BY <1>1, <2>1, <3>1, <3>3 DEF PluginInv, IsKnown, IsLinked, PluginTypeOK
    <3> QED
      BY <3>2, <3>3
  <2> QED
    BY <2>1, <2>2 DEF PluginInv, StopHolds
<1> QED
  BY <1>2, <1>3

\* The awaits of start().
LEMMA StartInv ==
  ASSUME PluginTypeOK, PluginInv, NEW c \in Candidates, ~crossed',
         \/ ConfigFails(c) \/ ConfigResolved(c) \/ HealthFails(c)
         \/ Healthy(c) \/ SdkStartEnds(c) \/ LinkMoves(c) \/ RaceEnds(c)
  PROVE  PluginInv'
<1>1. UNCHANGED <<singletonVars, explicit, aborted, hostStopped>>
  BY DEF ConfigFails, ConfigResolved, HealthFails, Healthy, SdkStartEnds,
     LinkMoves, RaceEnds, StartFails
<1>2. ASSUME NEW d \in Candidates
      PROVE  /\ d # c => /\ phase'[d] = phase[d] /\ link'[d] = link[d]
                         /\ fulfilled'[d] = fulfilled[d]
                         /\ started'[d] = started[d]
             /\ IsKnown(c)' /\ IsLinked(c)'
  <2> USE <1>1 DEF PluginInv, IsKnown, IsLinked, PluginTypeOK, Goto, singletonVars
  <2>1. CASE ConfigFails(c) \/ HealthFails(c)
    BY <2>1 DEF ConfigFails, HealthFails, StartFails
  <2>2. CASE ConfigResolved(c)
    BY <2>2 DEF ConfigResolved
  <2>3. CASE Healthy(c)
    BY <2>3 DEF Healthy
  <2>4. CASE SdkStartEnds(c)
    <3>1. /\ phase[c] = "connecting" /\ phase' = [phase EXCEPT ![c] = "raced"]
          /\ \/ link' = [link EXCEPT ![c] = "ready"]
                /\ fulfilled' = [fulfilled EXCEPT ![c] = TRUE]
             \/ \E ok \in BOOLEAN :
                  /\ link' = [link EXCEPT ![c] = "failed"]
                  /\ fulfilled' = [fulfilled EXCEPT ![c] = ok]
          /\ UNCHANGED started
      BY <2>4 DEF SdkStartEnds
    <3>2. "failed" \notin Live
      BY DEF Live
    <3> QED
      BY <3>1, <3>2
  <2>5. CASE LinkMoves(c)
    <3>1. /\ link[c] \in Live
          /\ link' \in {[link EXCEPT ![c] = to] :
                        to \in {"ready", "reconnecting", "failed"}}
          /\ UNCHANGED <<phase, fulfilled, started>>
      BY <2>5 DEF LinkMoves
    <3> QED
      BY <3>1
  <2>6. CASE RaceEnds(c)
    BY <2>6 DEF RaceEnds
  <2> QED
    BY <2>1, <2>2, <2>3, <2>4, <2>5, <2>6
<1> QED
  BY <1>1, <1>2 DEF PluginInv, IsKnown, IsLinked, StopHolds, singletonVars

\* The callbacks of an initialization that no other stands beside.
LEMMA CallbackInv ==
  ASSUME PluginTypeOK, PluginInv, NEW c \in Candidates, ~crossed',
         Then(c) \/ Catch(c) \/ Finally(c) \/ Return(c)
  PROVE  PluginInv'
<1>1. holder \in {NoCandidate, c} /\ runtime \in {NoCandidate, c}
  BY StepIsAlone DEF Then, Catch, Finally, Return
<1> USE DEF PluginInv, IsKnown, IsLinked, StopHolds, PluginTypeOK, Goto
<1>2. CASE Then(c)
  <2>1. CASE holder = c
    <3>1. /\ phase[c] = "started" /\ phase' = [phase EXCEPT ![c] = "settled"]
          /\ runtime' = c /\ initState' = "succeeded"
          /\ UNCHANGED <<link, started, initializing, holder, aborted,
                         fulfilled, hostStopped>>
      BY <1>2, <2>1 DEF Then, Initialized
    <3>2. ASSUME NEW d \in Candidates
          PROVE  IsKnown(d)' /\ IsLinked(d)'
      <4>1. CASE d = c
        BY <1>1, <2>1, <3>1, <4>1 DEF Awaits
      <4>2. CASE d # c
        BY <1>1, <3>1, <4>2
      <4> QED
        BY <4>1, <4>2
    <3>3. ~hostStopped
      BY <2>1, StartsAreBounded
    <3> QED
      BY <3>1, <3>2, <3>3
  <2>2. CASE holder # c
    <3>1. /\ phase[c] = "started" /\ phase' = [phase EXCEPT ![c] = "rejected"]
          /\ link' = [link EXCEPT ![c] = "stopped"]
          /\ started' = [started EXCEPT ![c] = FALSE]
          /\ UNCHANGED <<runtime, initState, locked, initializing, holder,
                         aborted, fulfilled, hostStopped>>
      BY <1>2, <2>2 DEF Then, Initialized
    <3>2. ASSUME NEW d \in Candidates
          PROVE  IsKnown(d)' /\ IsLinked(d)'
      <4>1. CASE d = c
        BY <1>1, <2>2, <3>1, <4>1 DEF Awaits, Live
      <4>2. CASE d # c
        BY <3>1, <4>2
      <4> QED
        BY <4>1, <4>2
    <3> QED
      BY <3>1, <3>2
  <2> QED
    BY <2>1, <2>2
<1>3. CASE Catch(c)
  BY <1>1, <1>3 DEF Catch
<1>4. CASE Finally(c)
  BY <1>1, <1>4 DEF Finally
<1>5. CASE Return(c)
  BY <1>1, <1>5 DEF Return
<1> QED
  BY <1>2, <1>3, <1>4, <1>5

LEMMA NextPluginInv ==
  ASSUME PluginTypeOK, Uncrossed, [PluginNext]_pluginVars
  PROVE  Uncrossed'
<1> SUFFICES ASSUME ~crossed'
             PROVE  PluginInv'
  BY DEF Uncrossed
<1>1. ~crossed
  BY DEF PluginNext, Callback, Step, LoadOnly, ExplicitStop, LoadBegins,
     ExplicitStart, ConfigFails, ConfigResolved, HealthFails, Healthy,
     StartFails, SdkStartEnds, LinkMoves, RaceEnds, Then, Catch, Finally,
     Return, pluginVars, PluginTypeOK
<1>2. PluginInv
  BY <1>1 DEF Uncrossed
<1>3. CASE UNCHANGED pluginVars
  BY <1>2, <1>3 DEF pluginVars, singletonVars, candidateVars, PluginInv, IsKnown,
     IsLinked, StopHolds
<1> QED
  BY <1>2, <1>3, LoadInv, ExplicitInv, StartInv, CallbackInv DEF PluginNext, Callback

LEMMA PluginInvariant == PluginSpec => [](PluginTypeOK /\ Uncrossed)
<1>1. PluginInit => PluginTypeOK
  <2>1. /\ "unused" \in Phases /\ "none" \in Links /\ "never" \in InitStates
        /\ "not_ready" \in Statuses
    BY DEF Phases, Links, InitStates, Statuses, Unavailable
  <2>2. ASSUME PluginInit
        PROVE  {runtime, initializing, holder} \subseteq Candidates \cup {NoCandidate}
    BY <2>2 DEF PluginInit
  <2>3. ASSUME PluginInit
        PROVE  /\ {hostStopped, crossed} \subseteq BOOLEAN
               /\ loaded \in BOOLEAN /\ locked \in BOOLEAN
    BY <2>3 DEF PluginInit
  <2>4. ASSUME PluginInit
        PROVE  /\ explicit \in [Candidates -> BOOLEAN]
               /\ aborted \in [Candidates -> BOOLEAN]
               /\ fulfilled \in [Candidates -> BOOLEAN]
               /\ started \in [Candidates -> BOOLEAN]
    BY <2>4 DEF PluginInit
  <2>5. ASSUME PluginInit
        PROVE  /\ phase \in [Candidates -> Phases]
               /\ link \in [Candidates -> Links]
               /\ initState \in InitStates /\ status \in Statuses
    BY <2>1, <2>5 DEF PluginInit
  <2> QED
    BY <2>2, <2>3, <2>4, <2>5 DEF PluginTypeOK
<1>2. PluginInit => Uncrossed
  <2> SUFFICES ASSUME PluginInit
               PROVE  PluginInv
    BY DEF Uncrossed
  <2>1. ASSUME NEW c \in Candidates
        PROVE  IsKnown(c) /\ IsLinked(c)
    <3>1. /\ ~aborted[c] /\ phase[c] = "unused" /\ link[c] = "none"
          /\ holder # c /\ initializing # c /\ runtime # c
      BY StartsAreBounded DEF PluginInit
    <3> QED
      BY <3>1 DEF IsKnown, IsLinked
  <2> QED
    BY <2>1 DEF PluginInit, PluginInv, StopHolds
<1> QED
  BY <1>1, <1>2, TypePreserved, NextPluginInv, PTL DEF PluginSpec

-----------------------------------------------------------------------------
(* What follows. *)

\* As long as initializations do not cross, an explicit stop leaves nothing
\* connected, and nothing ever connects beside the installed runtime.
THEOREM StopsAreHeeded == PluginSpec => []StopIsHeeded
<1> DEFINE living == {c \in Candidates : link[c] \in Live}
<1>1. ASSUME PluginTypeOK, PluginInv, Quiet
      PROVE  /\ Cardinality(living) <= 1
             /\ hostStopped => \A c \in Candidates : link[c] \notin Live
  <2>1. ASSUME NEW c \in Candidates, link[c] \in Live
        PROVE  holder = c
    BY <1>1, <2>1 DEF PluginInv, IsKnown, IsLinked, Quiet, Microtasks
  <2>2. living \subseteq {holder}
    BY <2>1
  <2>3. Cardinality(living) <= 1
    <3>1. IsFiniteSet({holder}) /\ Cardinality({holder}) = 1
      BY FS_Singleton
    <3> QED
      BY <2>2, <3>1, FS_Subset
  <2>4. ASSUME hostStopped, NEW c \in Candidates
        PROVE  link[c] \notin Live
    BY <1>1, <2>1, <2>4 DEF PluginInv, StopHolds
  <2> QED
    BY <2>3, <2>4
<1>2. PluginTypeOK /\ Uncrossed => StopIsHeeded
  BY <1>1 DEF Uncrossed, StopIsHeeded
<1> QED
  BY <1>2, PluginInvariant, PTL

\* A live connection whose start is over is the installed runtime.
THEOREM ConnectionsAreHeld == PluginSpec => []ConnectionIsHeld
<1>1. PluginTypeOK /\ Uncrossed => ConnectionIsHeld
  BY DEF Uncrossed, PluginInv, IsLinked, ConnectionIsHeld
<1> QED
  BY <1>1, PluginInvariant, PTL

\* After an explicit stop only an explicit start begins another.
THEOREM StopsStick == PluginSpec => StopSticks
<1>1. ASSUME PluginTypeOK, Uncrossed, [PluginNext]_pluginVars, NEW c \in Candidates,
             hostStopped, phase[c] = "unused", phase'[c] # "unused"
      PROVE  crossed \/ explicit'[c]
  <2> SUFFICES ASSUME ~crossed
               PROVE  explicit'[c]
    OBVIOUS
  <2>1. PluginInv
    BY <1>1 DEF Uncrossed
  <2>2. ASSUME NEW d \in Candidates, LoadBegins(d)
        PROVE  FALSE
    BY <1>1, <2>1, <2>2 DEF LoadBegins, MayBegin, PluginInv, StopHolds
  <2>3. ASSUME NEW d \in Candidates, ExplicitStart(d)
        PROVE  explicit'[c]
    <3>1. d = c
      BY <1>1, <2>3 DEF ExplicitStart, Begin, PhaseAfterAbort, PluginTypeOK
    <3> QED
      BY <1>1, <2>3, <3>1 DEF ExplicitStart, Begin, PluginTypeOK
  <2>4. ASSUME NEW d \in Candidates,
               \/ ConfigFails(d) \/ ConfigResolved(d) \/ HealthFails(d)
               \/ Healthy(d) \/ SdkStartEnds(d) \/ LinkMoves(d) \/ Callback(d)
        PROVE  FALSE
    <3>1. phase' = phase \/ \E p \in Phases :
            phase[d] # "unused" /\ phase' = [phase EXCEPT ![d] = p]
      BY <2>4 DEF ConfigFails, ConfigResolved, HealthFails, Healthy,
         StartFails, SdkStartEnds, LinkMoves, Callback, RaceEnds, Then,
         Initialized, Catch, Finally, Return, Goto, Phases, Microtasks
    <3> QED
      BY <1>1, <3>1 DEF PluginTypeOK
  <2>5. CASE LoadOnly \/ ExplicitStop \/ UNCHANGED pluginVars
    BY <1>1, <2>5 DEF LoadOnly, ExplicitStop, PhaseAfterAbort, pluginVars,
       candidateVars, PluginTypeOK
  <2> QED
    BY <1>1, <2>2, <2>3, <2>4, <2>5 DEF PluginNext
<1>2. PluginTypeOK /\ Uncrossed /\ [PluginNext]_pluginVars =>
        [\A c \in Candidates :
           hostStopped /\ phase[c] = "unused" /\ phase'[c] # "unused"
             => crossed \/ explicit'[c]]_pluginVars
  BY <1>1
<1> QED
  BY <1>2, PluginInvariant, PTL DEF PluginSpec, StopSticks
=============================================================================
