------------------------- MODULE OpenClawRunsProofs -------------------------
(***************************************************************************)
(* The runs of the OpenClaw adapter, for every number of runs, sessions    *)
(* and keys: each keeps the contract of a provider run, the maps hold only *)
(* runs in flight, and, where the host routes sessions apart, they lead to *)
(* the run the SDK waits for.                                              *)
(***************************************************************************)
EXTENDS OpenClawRuns, TLAPS

\* A run has a stream from the moment it is accepted; its facts keep their
\* order, and a message that has no start yet gets it with its first fact.
StreamKeepsOrder(r) ==
  /\ stream[r] \in {"unused", "before", "within", "over"}
  /\ stream[r] = "unused" <=> pc[r] = "unused"
  /\ stream[r] = "unused" => session[r] = None
  /\ pc[r] # "unused" => session[r] \in Sessions /\ key[r] \in Keys
  /\ stream[r] \in {"unused", "before"} => r \notin started
  /\ stream[r] = "within" => r \in started

\* Both maps lead to runs in flight, by the key such a run goes by.
EntriesInFlight ==
  /\ \A k \in Keys : active[k] # None =>
       InFlight(active[k]) /\ key[active[k]] = k
  /\ \A r \in Runs : byRunId[r] # None => InFlight(r)

\* A session that is being closed has a record.
ClosingHasRecord == \A s \in closing : sessionKey[s] # None

RunsInv ==
  /\ TypeOK
  /\ \A r \in Runs : StreamKeepsOrder(r)
  /\ EntriesInFlight
  /\ ClosingHasRecord

USE DEF InFlight

-----------------------------------------------------------------------------
(* Every step preserves the invariant. *)

LEMMA RunMessageInv ==
  ASSUME RunsInv, NEW r \in Runs, NEW s \in Sessions, RunMessage(r, s)
  PROVE  RunsInv'
<1> DEFINE k == Ensured(s)[s]
           registered == [active EXCEPT ![k] = r]
<1>1. /\ k \in Keys /\ Ensured(s) \in [Sessions -> Keys \cup {None}]
      /\ Ensured(s)[s] # None
      /\ \A t \in Sessions : sessionKey[t] # None => Ensured(s)[t] # None
  BY SessionsHaveKeys, NoneIsNothing DEF Ensured, RunsInv, TypeOK
<1>2. PICK to \in Keys :
        /\ Bind(r, k, to, registered, Ensured(s), s)
        /\ pc' \in {[pc EXCEPT ![r] = "loading"],
                    [pc EXCEPT ![r] = "dispatching"]}
  <2>1. CASE reply
    BY <1>1, <2>1 DEF RunMessage
  <2>2. CASE ~reply
    BY <1>1, <2>2, SessionsHaveKeys DEF RunMessage
  <2> QED
    BY <2>1, <2>2
<1>3. /\ active' \in [Keys -> Runs \cup {None}]
      /\ \A j \in Keys : active'[j] # None =>
           (active'[j] = r /\ j = to) \/ active'[j] = active[j]
      /\ sessionKey' \in [Sessions -> Keys \cup {None}]
      /\ \A t \in Sessions : sessionKey[t] # None => sessionKey'[t] # None
      /\ key' = [key EXCEPT ![r] = to]
  BY <1>1, <1>2, NoneIsNothing DEF Bind, RunsInv, TypeOK
<1>4. /\ pc[r] = "unused"
      /\ session' = [session EXCEPT ![r] = s]
      /\ stream' = [stream EXCEPT ![r] = "before"]
      /\ UNCHANGED <<reply, byRunId, started, completed, abortRequested,
                     result, closing, history>>
  BY DEF RunMessage
<1>5. TypeOK'
  BY <1>2, <1>3, <1>4 DEF RunsInv, TypeOK, Streams, history
<1>6. ASSUME NEW q \in Runs PROVE StreamKeepsOrder(q)'
  BY <1>2, <1>3, <1>4 DEF RunsInv, TypeOK, StreamKeepsOrder
<1>7. EntriesInFlight'
  <2>1. \A q \in Runs : q = r \/ (pc'[q] = pc[q] /\ key'[q] = key[q])
    BY <1>2, <1>3 DEF RunsInv, TypeOK
  <2>2. pc'[r] \in {"loading", "dispatching"} /\ key'[r] = to
    BY <1>2, <1>3 DEF RunsInv, TypeOK
  <2>3. \A j \in Keys : active[j] # None => active[j] \in Runs \ {r}
    BY <1>4 DEF RunsInv, TypeOK, EntriesInFlight
  <2>4. \A q \in Runs : byRunId'[q] # None => q # r
    BY <1>4 DEF RunsInv, EntriesInFlight
  <2> QED
    BY <1>3, <1>4, <2>1, <2>2, <2>3, <2>4 DEF RunsInv, EntriesInFlight
<1>8. ClosingHasRecord'
  BY <1>3, <1>4 DEF RunsInv, TypeOK, ClosingHasRecord
<1> QED
  BY <1>5, <1>6, <1>7, <1>8 DEF RunsInv

LEMMA DispatchInv ==
  ASSUME RunsInv, NEW r \in Runs, Dispatch(r)
  PROVE  RunsInv'
<1>1. /\ pc[r] = "loading" /\ pc' = [pc EXCEPT ![r] = "dispatching"]
      /\ UNCHANGED <<reply, byRunId, session, started, completed,
                     abortRequested, stream, result, closing, detached,
                     foreign>>
      /\ undermined' \subseteq Runs
      /\ session[r] \in Sessions /\ key[r] \in Keys
  BY DEF Dispatch, Undermine, RunsInv, TypeOK, StreamKeepsOrder
<1>2. PICK to \in Keys :
        Bind(r, key[r], to, active, sessionKey, session[r])
  BY <1>1, SessionsHaveKeys DEF Dispatch
<1>3. /\ active' \in [Keys -> Runs \cup {None}]
      /\ \A j \in Keys : active'[j] # None =>
           \/ active'[j] = r /\ j = to
           \/ active'[j] = active[j] /\ (j # key[r] \/ j = to)
      /\ sessionKey' \in [Sessions -> Keys \cup {None}]
      /\ \A t \in Sessions : sessionKey[t] # None => sessionKey'[t] # None
      /\ key' = [key EXCEPT ![r] = to]
  <2>1. CASE key[r] = to
    BY <1>1, <1>2, <2>1, NoneIsNothing DEF Bind, RunsInv, TypeOK
  <2>2. CASE key[r] # to
    BY <1>1, <1>2, <2>2, NoneIsNothing DEF Bind, RunsInv, TypeOK
  <2> QED
    BY <2>1, <2>2
<1>4. TypeOK'
  BY <1>1, <1>3 DEF RunsInv, TypeOK, history
<1>5. ASSUME NEW q \in Runs PROVE StreamKeepsOrder(q)'
  BY <1>1, <1>3 DEF RunsInv, TypeOK, StreamKeepsOrder
<1>6. EntriesInFlight'
  <2>1. \A q \in Runs : q = r \/ (pc'[q] = pc[q] /\ key'[q] = key[q])
    BY <1>1, <1>3 DEF RunsInv, TypeOK
  <2>2. pc'[r] = "dispatching" /\ key'[r] = to
    BY <1>1, <1>3 DEF RunsInv, TypeOK
  <2>3. \A j \in Keys : active[j] # None =>
          active[j] \in Runs /\ key[active[j]] = j /\ InFlight(active[j])
    BY DEF RunsInv, TypeOK, EntriesInFlight
  <2>4. \A j \in Keys : active'[j] # None =>
          /\ pc'[active'[j]] \in {"loading", "dispatching"}
          /\ key'[active'[j]] = j
    <3> SUFFICES ASSUME NEW j \in Keys, active'[j] # None
                 PROVE  /\ pc'[active'[j]] \in {"loading", "dispatching"}
                        /\ key'[active'[j]] = j
      OBVIOUS
    <3>1. CASE active'[j] = r /\ j = to
      BY <2>2, <3>1
    <3>2. CASE active'[j] = active[j] /\ active[j] # r
      BY <2>1, <2>3, <3>2
    <3>3. CASE active'[j] = active[j] /\ active[j] = r
      BY <1>3, <2>2, <2>3, <3>3
    <3> QED
      BY <1>3, <3>1, <3>2, <3>3
  <2>5. \A q \in Runs : byRunId'[q] # None => InFlight(q)'
    BY <1>1, <2>1, <2>2 DEF RunsInv, EntriesInFlight
  <2> QED
    BY <2>4, <2>5 DEF EntriesInFlight
<1>7. ClosingHasRecord'
  BY <1>1, <1>3 DEF RunsInv, TypeOK, ClosingHasRecord, history
<1> QED
  BY <1>4, <1>5, <1>6, <1>7 DEF RunsInv

\* What the host reports of a run adds to its facts, in order.
LEMMA ContentInv ==
  ASSUME RunsInv, NEW r \in Runs, pc[r] # "unused", AddContent(r),
         UNCHANGED <<reply, mapVars, session, key, completed, abortRequested,
                     result, pc, closing, detached, undermined>>,
         foreign' \subseteq Runs
  PROVE  RunsInv'
<1>1. /\ stream' = [stream EXCEPT ![r] = WithContent(r)]
      /\ started' = started \cup {r}
      /\ WithContent(r) \in {"within", "over"}
  BY DEF AddContent, WithContent, Pushed, RunsInv, TypeOK, StreamKeepsOrder
<1>2. TypeOK'
  BY <1>1 DEF RunsInv, TypeOK, mapVars, Streams
<1>3. ASSUME NEW q \in Runs PROVE StreamKeepsOrder(q)'
  BY <1>1 DEF RunsInv, TypeOK, StreamKeepsOrder
<1>4. EntriesInFlight' /\ ClosingHasRecord'
  BY DEF RunsInv, EntriesInFlight, ClosingHasRecord, mapVars
<1> QED
  BY <1>2, <1>3, <1>4 DEF RunsInv

\* A run that is finalized leaves both maps, whether it ends or was aborted.
LEMMA FinalizeInv ==
  ASSUME RunsInv, NEW r \in Runs, InFlight(r), FinalizeRun(r),
         pc' \in {pc, [pc EXCEPT ![r] = "ended"]},
         stream' = [stream EXCEPT ![r] = "over"],
         started' \subseteq Runs,
         \A q \in Runs \ {r} : q \in started' <=> q \in started,
         abortRequested' \subseteq Runs,
         NEW outcome \in Outcomes, Resolve(r, outcome),
         undermined' \subseteq Runs,
         UNCHANGED <<reply, sessionKey, session, key, closing, detached,
                     foreign>>
  PROVE  RunsInv'
<1>1. /\ completed' = completed \cup {r}
      /\ active' = [active EXCEPT ![key[r]] = None]
      /\ byRunId' = [byRunId EXCEPT ![r] = None]
      /\ result' = [result EXCEPT ![r] =
                      IF result[r] = None THEN outcome ELSE result[r]]
      /\ pc[r] \in {"loading", "dispatching"}
      /\ key[r] \in Keys
  BY DEF FinalizeRun, Resolve, RunsInv, StreamKeepsOrder, TypeOK
<1>2. TypeOK'
  BY <1>1 DEF RunsInv, TypeOK, Streams
<1>3. ASSUME NEW q \in Runs PROVE StreamKeepsOrder(q)'
  <2>1. CASE q = r
    BY <1>1, <2>1 DEF RunsInv, TypeOK, StreamKeepsOrder
  <2>2. CASE q # r
    BY <1>1, <2>2 DEF RunsInv, TypeOK, StreamKeepsOrder
  <2> QED
    BY <2>1, <2>2
<1>4. EntriesInFlight'
  <2>1. \A q \in Runs \ {r} : pc'[q] = pc[q]
    BY DEF RunsInv, TypeOK
  <2>2. \A j \in Keys : active'[j] # None =>
          j # key[r] /\ active'[j] = active[j] /\ active[j] \in Runs
    BY <1>1 DEF RunsInv, TypeOK
  <2>3. \A j \in Keys : active'[j] # None => active'[j] # r
    BY <2>2 DEF RunsInv, EntriesInFlight
  <2>4. \A q \in Runs : byRunId'[q] # None => q # r /\ byRunId[q] # None
    BY <1>1 DEF RunsInv, TypeOK
  <2> QED
    BY <2>1, <2>2, <2>3, <2>4 DEF RunsInv, EntriesInFlight
<1>5. ClosingHasRecord'
  BY DEF RunsInv, ClosingHasRecord
<1> QED
  BY <1>2, <1>3, <1>4, <1>5 DEF RunsInv

LEMMA EndsInv ==
  ASSUME RunsInv, NEW r \in Runs, Complete(r) \/ Fail(r)
  PROVE  RunsInv'
<1>1. /\ stream[r] \in {"before", "within", "over"}
      /\ undermined' \subseteq Runs
  BY DEF Complete, Fail, Undermine, RunsInv, TypeOK, StreamKeepsOrder
<1>2. CASE Complete(r)
  <2>1. Closed(Pushed(WithContent(r), "done")) = "over"
    BY <1>1 DEF Closed, Pushed, WithContent, RunsInv, StreamKeepsOrder
  <2> QED
    BY <1>1, <1>2, <2>1, FinalizeInv DEF Complete, Outcomes, RunsInv, TypeOK
<1>3. CASE Fail(r)
  <2>1. stream' = [stream EXCEPT ![r] = "over"]
    BY <1>1, <1>3 DEF Fail, Closed
  <2> QED
    BY <1>1, <1>3, <2>1, FinalizeInv DEF Fail, Outcomes, RunsInv, TypeOK
<1> QED
  BY <1>2, <1>3

LEMMA AbortInv ==
  ASSUME RunsInv, NEW s \in Sessions, AbortSession(s)
  PROVE  RunsInv'
<1> DEFINE r == active[sessionKey[s]]
<1>1. sessionKey[s] \in Keys /\ r \in Runs \cup {None}
  BY DEF AbortSession, RunsInv, TypeOK
<1>2. CASE r = None \/ r \in completed
  BY <1>2 DEF AbortSession, AbortActiveRun, RunsInv, TypeOK, StreamKeepsOrder,
     EntriesInFlight, ClosingHasRecord, history
<1>3. CASE ~(r = None \/ r \in completed)
  <2>1. r \in Runs /\ InFlight(r)
    BY <1>1, <1>3 DEF RunsInv, EntriesInFlight
  <2>2. stream' = [stream EXCEPT ![r] = "over"]
    BY <1>3, <2>1 DEF AbortSession, AbortActiveRun, Closed, RunsInv,
       StreamKeepsOrder
  <2>3. /\ FinalizeRun(r) /\ Resolve(r, "aborted")
        /\ abortRequested' = abortRequested \cup {r}
        /\ UNCHANGED <<reply, sessionKey, session, key, started, pc, closing,
                       history>>
    BY <1>3 DEF AbortSession, AbortActiveRun
  <2> HIDE DEF r
  <2> QED
    BY <2>1, <2>2, <2>3, FinalizeInv DEF Outcomes, RunsInv, TypeOK, history
<1> QED
  BY <1>2, <1>3

LEMMA CloseInv ==
  ASSUME RunsInv, NEW s \in Sessions,
         CloseBegins(s) \/ CloseEnds(s) \/ CloseFails(s)
  PROVE  RunsInv'
<1>1. CASE CloseBegins(s)
  BY <1>1 DEF CloseBegins, RunsInv, TypeOK, StreamKeepsOrder,
     EntriesInFlight, ClosingHasRecord, mapVars, history
<1>2. CASE CloseEnds(s)
  <2>1. /\ active' \in [Keys -> Runs \cup {None}]
        /\ \A k \in Keys : active'[k] # None => active'[k] = active[k]
    BY <1>2 DEF CloseEnds, RunsInv, TypeOK
  <2>2. TypeOK'
    BY <1>2, <2>1 DEF CloseEnds, RunsInv, TypeOK, runVars
  <2>3. (\A r \in Runs : StreamKeepsOrder(r))'
    BY <1>2 DEF CloseEnds, RunsInv, StreamKeepsOrder, runVars
  <2>4. EntriesInFlight'
    BY <1>2, <2>1 DEF CloseEnds, RunsInv, EntriesInFlight, runVars
  <2>5. ClosingHasRecord'
    BY <1>2 DEF CloseEnds, RunsInv, TypeOK, ClosingHasRecord
  <2> QED
    BY <2>2, <2>3, <2>4, <2>5 DEF RunsInv
<1>3. CASE CloseFails(s)
  BY <1>3 DEF CloseFails, RunsInv, TypeOK, StreamKeepsOrder,
     EntriesInFlight, ClosingHasRecord, mapVars, runVars, history
<1> QED
  BY <1>1, <1>2, <1>3

LEMMA NextRunsInv ==
  ASSUME RunsInv, [Next]_vars
  PROVE  RunsInv'
<1>1. ASSUME NEW r \in Runs, Deliver(r)
      PROVE  RunsInv'
  BY <1>1, ContentInv DEF Deliver, mapVars, history, RunsInv, TypeOK
<1>2. ASSUME NEW h \in Runs, AgentEvent(h)
      PROVE  RunsInv'
  <2>1. PICK k \in {key[h], byRunId[h]} \ {None} :
          /\ active[k] # None
          /\ AddContent(active[k])
          /\ foreign' \in {foreign, foreign \cup {active[k]}}
    BY <1>2 DEF AgentEvent, ToolEvent, ReasoningEvent, AssistantEvent
  <2>2. k \in Keys
    BY <2>1 DEF RunsInv, TypeOK
  <2>3. active[k] \in Runs /\ pc[active[k]] # "unused"
    BY <2>1, <2>2 DEF RunsInv, TypeOK, EntriesInFlight
  <2> QED
    BY <1>2, <2>1, <2>3, ContentInv DEF AgentEvent, RunsInv, TypeOK
<1>3. ASSUME NEW r \in Runs, AgentRunStart(r)
      PROVE  RunsInv'
  BY <1>3 DEF AgentRunStart, RunsInv, TypeOK, StreamKeepsOrder,
     EntriesInFlight, ClosingHasRecord, runVars, history
<1>4. CASE UNCHANGED vars
  BY <1>4 DEF vars, mapVars, runVars, history, RunsInv, TypeOK,
     StreamKeepsOrder, EntriesInFlight, ClosingHasRecord
<1> QED
  BY <1>1, <1>2, <1>3, <1>4, RunMessageInv, DispatchInv, EndsInv, AbortInv,
     CloseInv DEF Next

\* The streams, the maps and the records of the adapter agree in every
\* reachable state.
THEOREM RunsAgree == Spec => []RunsInv
<1>1. Init => RunsInv
  BY NoneIsNothing DEF Init, RunsInv, TypeOK, Streams, StreamKeepsOrder,
     EntriesInFlight, ClosingHasRecord
<1> QED
  BY <1>1, NextRunsInv, PTL DEF Spec

\* However many runs there were and whichever way they ended, none is left in
\* the maps when none is in flight.
THEOREM MapsAreEmptied == Spec => []NothingIsLeft
<1>1. RunsInv => NothingIsLeft
  BY DEF RunsInv, EntriesInFlight, TypeOK, NothingIsLeft
<1> QED
  BY <1>1, RunsAgree, PTL

-----------------------------------------------------------------------------
(* The adapter implements what the SDK expects of its runs. *)

\* What a step may do to the stream and the result of a run.
Stays(r) == result'[r] = result[r]
Settles(r) == result[r] = None /\ result'[r] \in Outcomes

RunMoves(r) ==
  \/ stream[r] = "unused" /\ stream'[r] = "before" /\ Stays(r)
  \/ stream[r] \in {"before", "within"} /\ stream'[r] = "within" /\ Stays(r)
  \/ /\ stream[r] \in {"before", "within", "over"}
     /\ stream'[r] = "over"
     /\ Stays(r) \/ Settles(r)
  \/ stream'[r] = stream[r] /\ Stays(r)

LEMMA EndMoves ==
  ASSUME RunsInv, NEW r \in Runs, InFlight(r),
         stream' = [stream EXCEPT ![r] = "over"],
         NEW outcome \in Outcomes, Resolve(r, outcome),
         NEW q \in Runs
  PROVE  RunMoves(q)
<1>1. stream[r] \in {"before", "within", "over"}
  BY DEF RunsInv, StreamKeepsOrder
<1>2. CASE q = r
  BY <1>1, <1>2 DEF Resolve, RunsInv, TypeOK, RunMoves, Stays, Settles
<1>3. CASE q # r
  BY <1>3 DEF Resolve, RunsInv, TypeOK, RunMoves, Stays
<1> QED
  BY <1>2, <1>3

LEMMA ContentMoves ==
  ASSUME RunsInv, NEW r \in Runs, pc[r] # "unused", AddContent(r),
         UNCHANGED result, NEW q \in Runs
  PROVE  RunMoves(q)
<1>1. /\ stream' = [stream EXCEPT ![r] = WithContent(r)]
      /\ \/ stream[r] \in {"before", "within"} /\ WithContent(r) = "within"
         \/ stream[r] = "over" /\ WithContent(r) = "over"
  BY DEF AddContent, WithContent, Pushed, RunsInv, StreamKeepsOrder
<1> QED
  BY <1>1 DEF RunsInv, TypeOK, RunMoves, Stays

LEMMA EveryRunMoves ==
  ASSUME RunsInv, [Next]_vars, NEW q \in Runs
  PROVE  RunMoves(q)
<1>1. ASSUME NEW r \in Runs, NEW s \in Sessions, RunMessage(r, s)
      PROVE  RunMoves(q)
  BY <1>1 DEF RunMessage, RunsInv, TypeOK, StreamKeepsOrder, RunMoves, Stays
<1>2. ASSUME NEW r \in Runs, Complete(r) \/ Fail(r)
      PROVE  RunMoves(q)
  <2>1. stream[r] \in {"before", "within", "over"}
    BY <1>2 DEF Complete, Fail, RunsInv, StreamKeepsOrder
  <2>2. CASE Complete(r)
    <3>1. Closed(Pushed(WithContent(r), "done")) = "over"
      BY <2>1 DEF Closed, Pushed, WithContent, RunsInv, StreamKeepsOrder
    <3> QED
      BY <2>2, <3>1, EndMoves DEF Complete, Outcomes
  <2>3. CASE Fail(r)
    <3>1. stream' = [stream EXCEPT ![r] = "over"]
      BY <2>1, <2>3 DEF Fail, Closed
    <3> QED
      BY <2>3, <3>1, EndMoves DEF Fail, Outcomes
  <2> QED
    BY <1>2, <2>2, <2>3
<1>3. ASSUME NEW s \in Sessions, AbortSession(s)
      PROVE  RunMoves(q)
  <2> DEFINE r == active[sessionKey[s]]
  <2>1. CASE r = None \/ r \in completed
    BY <1>3, <2>1 DEF AbortSession, AbortActiveRun, RunMoves, Stays
  <2>2. CASE ~(r = None \/ r \in completed)
    <3>1. r \in Runs /\ InFlight(r)
      BY <1>3, <2>2 DEF AbortSession, RunsInv, TypeOK, EntriesInFlight
    <3>2. stream' = [stream EXCEPT ![r] = "over"] /\ Resolve(r, "aborted")
      BY <1>3, <2>2, <3>1 DEF AbortSession, AbortActiveRun, Closed, RunsInv,
         StreamKeepsOrder
    <3> HIDE DEF r
    <3> QED
      BY <3>1, <3>2, EndMoves DEF Outcomes
  <2> QED
    BY <2>1, <2>2
<1>4. ASSUME NEW r \in Runs, Deliver(r)
      PROVE  RunMoves(q)
  BY <1>4, ContentMoves DEF Deliver
<1>5. ASSUME NEW h \in Runs, AgentEvent(h)
      PROVE  RunMoves(q)
  <2>1. PICK k \in {key[h], byRunId[h]} \ {None} :
          active[k] # None /\ AddContent(active[k])
    BY <1>5 DEF AgentEvent, ToolEvent, ReasoningEvent, AssistantEvent
  <2>2. active[k] \in Runs /\ pc[active[k]] # "unused"
    BY <2>1 DEF RunsInv, TypeOK, EntriesInFlight
  <2> QED
    BY <1>5, <2>1, <2>2, ContentMoves DEF AgentEvent
<1>6. ASSUME UNCHANGED <<stream, result>>
      PROVE  RunMoves(q)
  BY <1>6 DEF RunMoves, Stays
<1> QED
  BY <1>1, <1>2, <1>3, <1>4, <1>5, <1>6 DEF Next, vars, runVars, Dispatch,
     AgentRunStart, CloseBegins, CloseEnds, CloseFails

\* Every run of the adapter is a provider run: its facts in their order,
\* nothing after the end of its stream, and one result that comes with the
\* end or after it.
THEOREM RunsKeepTheContract == Spec => ImplementsProviderRun
<1>1. Init => Contract!Init
  BY DEF Init, Contract!Init
<1>2. RunsInv /\ [Next]_vars => [Contract!Next]_(Contract!vars)
  <2> SUFFICES ASSUME RunsInv, [Next]_vars
               PROVE  Contract!Next
    OBVIOUS
  <2> SUFFICES ASSUME NEW q \in Runs
               PROVE  \/ Contract!Accept(q) \/ Contract!FailAtOnce(q)
                      \/ Contract!End(q) \/ Contract!Settle(q)
                      \/ Contract!Idle(q)
    BY DEF Contract!Next
  <2>1. RunMoves(q)
    BY EveryRunMoves
  <2> QED
    BY <2>1 DEF RunMoves, Stays, Settles, Contract!Accept, Contract!End,
       Contract!Settle, Contract!Idle, Contract!Moves, Contract!Settles,
       Contract!Stays
<1> QED
  BY <1>1, <1>2, RunsAgree, PTL DEF Spec, ImplementsProviderRun, Contract!Spec

-----------------------------------------------------------------------------
(* The SDK finds its runs, if no two sessions share a key. *)

OwnKeys(s) == Routes[s] \cup {Provisional[s]}

\* What the adapter relies on, and leaves to the host that routes.
KeysAreApart ==
  \A s, t \in Sessions : s # t => OwnKeys(s) \cap OwnKeys(t) = {}

KeysStayHome ==
  /\ \A s \in Sessions : sessionKey[s] # None => sessionKey[s] \in OwnKeys(s)
  /\ \A r \in Runs : pc[r] # "unused" => key[r] \in OwnKeys(session[r])

\* The runs RunIsReachable speaks of.
Awaited(r) ==
  r \notin undermined /\ InFlight(r) /\ result[r] = None /\ r \notin detached

Found(r) ==
  /\ sessionKey[session[r]] # None
  /\ active[sessionKey[session[r]]] = r

ReachInv ==
  /\ KeysStayHome
  /\ \A r \in Runs : Awaited(r) => Found(r)

\* What is known before a step.
Known == RunsInv /\ ReachInv /\ KeysAreApart

\* An awaited run is found under the key it goes by.
LEMMA AwaitedKey ==
  ASSUME Known, NEW r \in Runs, Awaited(r)
  PROVE  /\ session[r] \in Sessions /\ key[r] \in Keys
         /\ key[r] = sessionKey[session[r]] /\ active[key[r]] = r
<1>1. session[r] \in Sessions /\ key[r] \in Keys
  BY DEF Known, RunsInv, StreamKeepsOrder, Awaited
<1>2. Found(r)
  BY DEF Known, ReachInv
<1>3. sessionKey[session[r]] \in Keys
  BY <1>1, <1>2 DEF Found, Known, RunsInv, TypeOK
<1>4. r # None
  BY NoneIsNothing
<1>5. key[r] = sessionKey[session[r]]
  BY <1>2, <1>3, <1>4 DEF Found, Known, RunsInv, EntriesInFlight
<1> QED
  BY <1>1, <1>2, <1>5 DEF Found

\* A run of another session goes by another key.
LEMMA AwaitedKeyIsItsOwn ==
  ASSUME Known, NEW r \in Runs, Awaited(r), NEW q \in Runs, InFlight(q),
         session[q] # session[r]
  PROVE  key[q] # key[r]
<1>1. session[q] \in Sessions
  BY DEF Known, RunsInv, StreamKeepsOrder
<1>2. key[q] \in OwnKeys(session[q]) /\ key[r] \in OwnKeys(session[r])
  BY DEF Known, ReachInv, KeysStayHome, Awaited
<1> QED
  BY <1>1, <1>2, AwaitedKey DEF Known, KeysAreApart

LEMMA RunMessageReach ==
  ASSUME Known, NEW r \in Runs, NEW s \in Sessions, RunMessage(r, s)
  PROVE  ReachInv'
<1> DEFINE k == Ensured(s)[s]
           registered == [active EXCEPT ![k] = r]
<1>1. /\ k \in OwnKeys(s) /\ k \in Keys
      /\ Ensured(s) = [sessionKey EXCEPT ![s] = k]
  BY SessionsHaveKeys, NoneIsNothing DEF Ensured, Known, RunsInv, TypeOK,
     ReachInv, KeysStayHome, OwnKeys
<1>2. PICK to \in OwnKeys(s) :
        /\ to \in Keys
        /\ Bind(r, k, to, registered, Ensured(s), s)
        /\ pc' \in {[pc EXCEPT ![r] = "loading"],
                    [pc EXCEPT ![r] = "dispatching"]}
  <2>1. CASE reply
    BY <1>1, <2>1 DEF RunMessage
  <2>2. CASE ~reply
    BY <1>1, <2>2, SessionsHaveKeys DEF RunMessage, OwnKeys
  <2> QED
    BY <2>1, <2>2
<1>3. /\ active'[to] = r
      /\ \A j \in Keys \ OwnKeys(s) : active'[j] = active[j]
      /\ sessionKey' = [sessionKey EXCEPT ![s] = to]
      /\ key' = [key EXCEPT ![r] = to]
  BY <1>1, <1>2 DEF Bind, Known, RunsInv, TypeOK
<1>4. /\ pc[r] = "unused" /\ SdkIsFree(s)
      /\ session' = [session EXCEPT ![r] = s]
      /\ UNCHANGED <<result, detached, undermined>>
  BY DEF RunMessage, history
<1>5. /\ session'[r] = s /\ key'[r] = to /\ sessionKey'[s] = to
      /\ \A q \in Runs \ {r} : /\ session'[q] = session[q]
                                /\ key'[q] = key[q] /\ pc'[q] = pc[q]
      /\ \A t \in Sessions \ {s} : sessionKey'[t] = sessionKey[t]
  BY <1>2, <1>3, <1>4 DEF Known, RunsInv, TypeOK
<1>6. ASSUME NEW q \in Runs, q # r, Awaited(q)'
      PROVE  Awaited(q) /\ session[q] # s /\ session[q] \in Sessions
  <2>1. Awaited(q)
    BY <1>4, <1>5, <1>6 DEF Awaited
  <2>2. session[q] # s
    BY <1>4, <2>1 DEF SdkIsFree, Awaited
  <2> QED
    BY <2>1, <2>2, AwaitedKey
<1>7. KeysStayHome'
  BY <1>2, <1>5 DEF Known, ReachInv, KeysStayHome, OwnKeys
<1>9. ASSUME NEW q \in Runs, Awaited(q)'
      PROVE  Found(q)'
  <2>1. CASE q = r
    BY <1>2, <1>3, <1>5, <2>1, NoneIsNothing DEF Found
  <2>2. CASE q # r
    <3>1. /\ Awaited(q) /\ session[q] # s /\ session[q] \in Sessions
          /\ sessionKey[session[q]] = key[q] /\ active[key[q]] = q
          /\ key[q] \in Keys
      BY <1>6, <1>9, <2>2, AwaitedKey
    <3>2. key[q] \notin OwnKeys(s)
      BY <3>1 DEF Known, ReachInv, KeysStayHome, KeysAreApart, Awaited
    <3> QED
      BY <1>3, <1>5, <2>2, <3>1, <3>2, NoneIsNothing DEF Found
  <2> QED
    BY <2>1, <2>2
<1> QED
  BY <1>7, <1>9 DEF ReachInv

LEMMA DispatchReach ==
  ASSUME Known, NEW r \in Runs, Dispatch(r)
  PROVE  ReachInv'
<1>1. /\ pc[r] = "loading" /\ pc' = [pc EXCEPT ![r] = "dispatching"]
      /\ UNCHANGED <<session, result, detached>>
      /\ session[r] \in Sessions /\ key[r] \in Keys
      /\ \A q \in Runs \ undermined' :
           /\ q \notin undermined
           /\ q # r /\ InFlight(q) => session[q] # session[r]
  BY DEF Dispatch, Undermine, Known, RunsInv, StreamKeepsOrder
<1> DEFINE s == session[r]
<1>2. PICK to \in OwnKeys(s) :
        to \in Keys /\ Bind(r, key[r], to, active, sessionKey, s)
  BY <1>1, SessionsHaveKeys DEF Dispatch, OwnKeys
<1>3. key[r] \in OwnKeys(s)
  BY <1>1 DEF Known, ReachInv, KeysStayHome
<1>4. /\ \A j \in Keys \ OwnKeys(s) : active'[j] = active[j]
      /\ sessionKey' \in {sessionKey, [sessionKey EXCEPT ![s] = to]}
      /\ key' = [key EXCEPT ![r] = to]
      /\ \/ active' = active /\ sessionKey' = sessionKey /\ to = key[r]
         \/ active'[to] = r /\ sessionKey'[s] = to
  BY <1>1, <1>2, <1>3 DEF Bind, Known, RunsInv, TypeOK
<1>5. /\ key'[r] = to
      /\ \A q \in Runs \ {r} : key'[q] = key[q] /\ pc'[q] = pc[q]
      /\ \A t \in Sessions \ {s} : sessionKey'[t] = sessionKey[t]
      /\ sessionKey'[s] \in {sessionKey[s], to}
      /\ \A q \in Runs : InFlight(q)' <=> InFlight(q)
      /\ \A q \in Runs : pc'[q] # "unused" => pc[q] # "unused"
  BY <1>1, <1>4 DEF Known, RunsInv, TypeOK
<1>6. \A q \in Runs : Awaited(q)' =>
        Awaited(q) /\ (q # r => session[q] # session[r])
  BY <1>1, <1>5 DEF Awaited
<1>7. KeysStayHome'
  BY <1>1, <1>2, <1>5 DEF Known, ReachInv, KeysStayHome, OwnKeys
<1>9. ASSUME NEW q \in Runs, Awaited(q)'
      PROVE  Found(q)'
  <2>1. /\ Awaited(q) /\ session[q] \in Sessions
        /\ sessionKey[session[q]] = key[q] /\ active[key[q]] = q
        /\ key[q] \in Keys
    BY <1>6, <1>9, AwaitedKey
  <2>2. CASE q = r
    BY <1>1, <1>2, <1>4, <2>1, <2>2, NoneIsNothing DEF Found
  <2>3. CASE q # r
    <3>1. session[q] # s
      BY <1>6, <1>9, <2>3
    <3>2. key[q] \notin OwnKeys(s)
      BY <1>1, <2>1, <3>1 DEF Known, ReachInv, KeysStayHome, KeysAreApart,
         Awaited
    <3> QED
      BY <1>1, <1>4, <1>5, <2>1, <3>1, <3>2, NoneIsNothing DEF Found
  <2> QED
    BY <2>2, <2>3
<1> QED
  BY <1>7, <1>9 DEF ReachInv

\* A run is finalized: whatever it takes from the map is not awaited then.
LEMMA FinalizeReach ==
  ASSUME Known, NEW r \in Runs, InFlight(r), FinalizeRun(r),
         pc' \in {pc, [pc EXCEPT ![r] = "ended"]},
         NEW outcome \in Outcomes, Resolve(r, outcome),
         undermined \subseteq undermined',
         \A q \in Runs \ undermined' :
           q # r /\ Awaited(q) => key[q] # key[r],
         UNCHANGED <<sessionKey, session, key, detached>>
  PROVE  ReachInv'
<1>1. /\ active' = [active EXCEPT ![key[r]] = None]
      /\ result' = [result EXCEPT ![r] =
                      IF result[r] = None THEN outcome ELSE result[r]]
  BY DEF FinalizeRun, Resolve
<1>2. /\ \A q \in Runs : InFlight(q)' => InFlight(q)
      /\ \A q \in Runs : pc'[q] # "unused" => pc[q] # "unused"
      /\ result'[r] # None
      /\ \A q \in Runs \ {r} : result'[q] = result[q]
  <2>1. None \notin Outcomes
    BY NoneIsNothing
  <2> QED
    BY <1>1, <2>1 DEF Known, RunsInv, TypeOK
<1>3. \A q \in Runs : Awaited(q)' => Awaited(q) /\ q # r
  BY <1>2 DEF Awaited
<1>4. KeysStayHome'
  BY <1>2 DEF Known, ReachInv, KeysStayHome, OwnKeys
<1>5. ASSUME NEW q \in Runs, Awaited(q)'
      PROVE  Found(q)'
  <2>1. Awaited(q) /\ q # r /\ key[q] # key[r]
    BY <1>3, <1>5 DEF Awaited
  <2>2. /\ sessionKey[session[q]] # None
        /\ sessionKey[session[q]] \in Keys
        /\ sessionKey[session[q]] # key[r]
        /\ active[sessionKey[session[q]]] = q
    BY <2>1, AwaitedKey, NoneIsNothing
  <2> QED
    BY <1>1, <2>2 DEF Found, Known, RunsInv, TypeOK
<1> QED
  BY <1>4, <1>5 DEF ReachInv

LEMMA CloseEndsReach ==
  ASSUME Known, NEW s \in Sessions, CloseEnds(s)
  PROVE  ReachInv'
<1>1. /\ active' = [active EXCEPT ![sessionKey[s]] = None]
      /\ sessionKey' = [sessionKey EXCEPT ![s] = None]
      /\ detached' = detached \cup {r \in Runs : session[r] = s}
      /\ UNCHANGED <<session, key, result, pc, undermined>>
      /\ sessionKey[s] \in OwnKeys(s)
  BY DEF CloseEnds, runVars, Known, RunsInv, ClosingHasRecord, ReachInv,
     KeysStayHome
<1>2. \A q \in Runs : Awaited(q)' => Awaited(q) /\ session[q] # s
  BY <1>1 DEF Awaited
<1>3. KeysStayHome'
  BY <1>1 DEF Known, RunsInv, TypeOK, ReachInv, KeysStayHome, OwnKeys
<1>4. ASSUME NEW q \in Runs, Awaited(q)'
      PROVE  Found(q)'
  <2>1. /\ Awaited(q) /\ session[q] # s /\ session[q] \in Sessions
        /\ sessionKey[session[q]] = key[q] /\ active[key[q]] = q
        /\ key[q] \in Keys
    BY <1>2, <1>4, AwaitedKey
  <2>2. key[q] # sessionKey[s]
    BY <1>1, <2>1 DEF Known, ReachInv, KeysStayHome, KeysAreApart, Awaited
  <2> QED
    BY <1>1, <2>1, <2>2, NoneIsNothing DEF Found, Known, RunsInv, TypeOK
<1> QED
  BY <1>3, <1>4 DEF ReachInv

LEMMA NextReach ==
  ASSUME Known, [Next]_vars
  PROVE  ReachInv'
<1>1. ASSUME NEW r \in Runs, Complete(r) \/ Fail(r)
      PROVE  ReachInv'
  <2>1. InFlight(r) /\ Undermine(r)
    BY <1>1 DEF Complete, Fail
  <2>2. ASSUME NEW q \in Runs \ undermined', q # r, Awaited(q)
        PROVE  key[q] # key[r]
    <3>1. session[q] # session[r]
      BY <2>1, <2>2 DEF Undermine, Awaited
    <3> QED
      BY <2>1, <2>2, <3>1, AwaitedKeyIsItsOwn
  <2>3. undermined \subseteq undermined'
    BY <2>1 DEF Undermine
  <2>4. CASE Complete(r)
    BY <2>1, <2>2, <2>3, <2>4, FinalizeReach DEF Complete, Outcomes
  <2>5. CASE Fail(r)
    BY <2>1, <2>2, <2>3, <2>5, FinalizeReach DEF Fail, Outcomes
  <2> QED
    BY <1>1, <2>4, <2>5
<1>2. ASSUME NEW s \in Sessions, AbortSession(s)
      PROVE  ReachInv'
  <2> DEFINE r == active[sessionKey[s]]
  <2>1. CASE r = None \/ r \in completed
    BY <1>2, <2>1 DEF AbortSession, AbortActiveRun, Known, ReachInv,
       KeysStayHome, Awaited, Found, OwnKeys, history
  <2>2. CASE ~(r = None \/ r \in completed)
    <3>1. /\ r \in Runs /\ InFlight(r)
          /\ key[r] \in Keys /\ active[key[r]] = r
      BY <1>2, <2>2 DEF AbortSession, Known, RunsInv, TypeOK, EntriesInFlight
    <3>2. /\ FinalizeRun(r) /\ Resolve(r, "aborted")
          /\ UNCHANGED <<sessionKey, session, key, pc, history>>
      BY <1>2, <2>2 DEF AbortSession, AbortActiveRun
    <3> HIDE DEF r
    <3>3. \A q \in Runs : q # r /\ Awaited(q) => key[q] # key[r]
      BY <3>1, AwaitedKey
    <3> QED
      BY <3>1, <3>2, <3>3, FinalizeReach DEF Outcomes, history
  <2> QED
    BY <2>1, <2>2
<1>3. ASSUME UNCHANGED <<sessionKey, active, session, key, result, pc,
                         detached, undermined>>
      PROVE  ReachInv'
  BY <1>3 DEF Known, ReachInv, KeysStayHome, Awaited, Found,
     OwnKeys
<1> QED
  BY <1>1, <1>2, <1>3, RunMessageReach, DispatchReach, CloseEndsReach
  DEF Next, vars, mapVars, runVars, history, AgentRunStart, Deliver,
      AgentEvent, CloseBegins, CloseFails

\* Abort, close and the host's events find the run that the SDK waits for, if
\* the host gives no two sessions a key in common.
THEOREM AwaitedRunIsFound ==
  ASSUME KeysAreApart
  PROVE  Spec => []RunIsReachable
<1>1. Init => ReachInv
  BY NoneIsNothing DEF Init, ReachInv, KeysStayHome, Awaited
<1>2. RunsInv /\ ReachInv /\ [Next]_vars => ReachInv'
  BY NextReach DEF Known
<1>3. ReachInv => RunIsReachable
  BY DEF ReachInv, RunIsReachable, Awaited, Found
<1> QED
  BY <1>1, <1>2, <1>3, RunsAgree, PTL DEF Spec
=============================================================================
