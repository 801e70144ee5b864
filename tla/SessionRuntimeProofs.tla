------------------------ MODULE SessionRuntimeProofs ------------------------
(***************************************************************************)
(* What the registries of a runtime guarantee for every number of          *)
(* sessions, runs, emissions and reply targets, and every provider.        *)
(***************************************************************************)
EXTENDS SessionRuntime, FiniteSetTheorems, TLAPS

\* Under "reject" the runs of a session exclude each other.
RunsExcludeEachOther ==
  setting.policy = "reject" =>
    \A s \in Sessions : \A r, q \in activeRunIds[s] : r = q

\* The active runs of a session, as ActiveRunsAreInFlight has them.
ActiveRuns ==
  \A s \in Sessions : activeRunIds[s] = (FlowsOf(s) \cap Runs) \ detached

\* Only a run that has ended has an error that reached nobody.
UnheardRunsAreOver == \A r \in uncaught \cup muted : pc[r] = "ended"

-----------------------------------------------------------------------------
(* Types *)

USE DEF Flows, Emissions, Tokens, streamVars, historyVars, registryVars

\* The end of a flow keeps what the coordinators keep in its type.
LEMMA EndFlowType ==
  ASSUME TypeOK, NEW f \in Flows, EndFlow(f)
  PROVE  /\ pc' \in [Flows -> Pcs]
         /\ session' \in [Flows -> Sessions \cup {None}]
         /\ \A g \in Flows :
              pc'[g] \in {"starting", "running"} <=> session'[g] # None
         /\ facts' \in [Flows -> FactOutcomes]
         /\ openMessages' \in [Flows -> SUBSET Messages]
         /\ closedMessages' \in [Flows -> SUBSET Messages]
         /\ detached' \subseteq Flows
<1>1. pc' \in [Flows -> Pcs] /\ facts' \in [Flows -> FactOutcomes]
  BY DEF EndFlow, TypeOK, Pcs, FactOutcomes
<1>2. /\ openMessages' \in [Flows -> SUBSET Messages]
      /\ closedMessages' \in [Flows -> SUBSET Messages]
      /\ detached' \subseteq Flows
      /\ session' \in [Flows -> Sessions \cup {None}]
  BY DEF EndFlow, TypeOK
<1>3. \A g \in Flows :
        pc'[g] \in {"starting", "running"} <=> session'[g] # None
  BY DEF EndFlow, TypeOK, InFlight
<1> QED
  BY <1>1, <1>2, <1>3

\* A flow in flight has a session.
LEMMA FlowHasSession ==
  ASSUME TypeOK, NEW f \in Flows, InFlight(f)
  PROVE  session[f] \in Sessions
  BY DEF TypeOK

\* Commands of the gateway and what the provider applies for them.
LEMMA CommandType ==
  ASSUME TypeOK, UNCHANGED setting,
         \/ \E r \in Runs, s \in Sessions : Chat(r, s)
         \/ \E t \in Tokens : Reply(t)
         \/ \E s \in Sessions : AbortApplied(s) \/ CloseApplied(s)
         \/ GatewayChanges
  PROVE  TypeOK'
<1>1. ASSUME NEW r \in Runs, NEW s \in Sessions, Chat(r, s) PROVE TypeOK'
  <2>1. activeRunIds' \in [Sessions -> SUBSET Runs]
    BY <1>1 DEF Chat, TypeOK
  <2>2. pc' \in [Flows -> Pcs] /\ session' \in [Flows -> Sessions \cup {None}]
    BY <1>1 DEF Chat, TypeOK, Pcs
  <2>3. \A f \in Flows : InFlight(f)' <=> session'[f] # None
    BY <1>1, NoneIsNothing DEF Chat, TypeOK, InFlight
  <2>4. terminals' \in [Flows -> Nat]
    BY <1>1 DEF Chat, TypeOK
  <2> QED
    BY <1>1, <2>1, <2>2, <2>3, <2>4 DEF Chat, TypeOK
<1>2. ASSUME NEW t \in Tokens, Reply(t) PROVE TypeOK'
  BY <1>2 DEF Reply, TypeOK, InFlight
<1>3. ASSUME NEW s \in Sessions, AbortApplied(s) PROVE TypeOK'
  BY <1>3 DEF AbortApplied, TypeOK, InFlight
<1>4. ASSUME NEW s \in Sessions, CloseApplied(s) PROVE TypeOK'
  BY <1>4 DEF CloseApplied, TypeOK, InFlight, FlowsOf
<1>5. CASE GatewayChanges
  BY <1>5 DEF GatewayChanges, TypeOK, InFlight
<1> QED
  BY <1>1, <1>2, <1>3, <1>4, <1>5

\* The steps of a run and of an emission between its facts.
LEMMA FlowType ==
  ASSUME TypeOK, UNCHANGED setting,
         \/ \E r \in Runs : RunStarts(r) \/ RunRefused(r) \/ FinishRun(r)
         \/ \E r \in Runs, how \in {"settled", "rejected"} :
              ResultSettles(r, how)
         \/ \E e \in Emissions, s \in Sessions : Emit(e, s)
         \/ \E e \in Emissions : FinishEmission(e)
         \/ \E f \in Flows, how \in {"done", "failed"} : FactsEnd(f, how)
  PROVE  TypeOK'
<1>1. ASSUME NEW r \in Runs, RunStarts(r) PROVE TypeOK'
  BY <1>1 DEF RunStarts, TypeOK, Pcs, InFlight
<1>2. ASSUME NEW r \in Runs, RunRefused(r) \/ FinishRun(r) PROVE TypeOK'
  <2>1. /\ EndFlow(r) /\ ReleaseRequestRun(r)
        /\ \E mute \in BOOLEAN : Unheard(r, mute)
    BY <1>2 DEF RunRefused, FinishRun
  <2>2. /\ activeRunIds' \in [Sessions -> SUBSET Runs]
        /\ uncaught' \subseteq Runs /\ muted' \subseteq Runs
    BY <2>1 DEF ReleaseRequestRun, Unheard, TypeOK
  <2>3. result' \in [Runs -> Results]
    BY <1>2 DEF RunRefused, FinishRun, TypeOK, Results
  <2>4. terminals' \in [Flows -> Nat]
    BY <1>2 DEF RunRefused, FinishRun, Times, Count, TypeOK
  <2> QED
    BY <1>2, <2>1, <2>2, <2>3, <2>4, EndFlowType
       DEF RunRefused, FinishRun, TypeOK, InFlight
<1>3. ASSUME NEW r \in Runs, NEW how \in {"settled", "rejected"},
             ResultSettles(r, how)
      PROVE  TypeOK'
  BY <1>3 DEF ResultSettles, TypeOK, Results, InFlight
<1>4. ASSUME NEW e \in Emissions, NEW s \in Sessions, Emit(e, s) PROVE TypeOK'
  <2>1. pc' \in [Flows -> Pcs] /\ session' \in [Flows -> Sessions \cup {None}]
    BY <1>4 DEF Emit, TypeOK, Pcs
  <2>2. outbound' \in [Sessions -> Emissions \cup {None}]
    BY <1>4 DEF Emit, TypeOK
  <2>3. \A f \in Flows : InFlight(f)' <=> session'[f] # None
    BY <1>4, NoneIsNothing DEF Emit, TypeOK, InFlight
  <2> QED
    BY <1>4, <2>1, <2>2, <2>3 DEF Emit, TypeOK
<1>5. ASSUME NEW e \in Emissions, FinishEmission(e) PROVE TypeOK'
  <2>1. EndFlow(e) /\ ReleaseOutbound(e)
    BY <1>5 DEF FinishEmission
  <2>2. outbound' \in [Sessions -> Emissions \cup {None}]
    BY <2>1 DEF ReleaseOutbound, TypeOK
  <2>3. terminals' \in [Flows -> Nat]
    BY <1>5 DEF FinishEmission, Times, Count, TypeOK
  <2> QED
    BY <1>5, <2>1, <2>2, <2>3, EndFlowType DEF FinishEmission, TypeOK, InFlight
<1>6. ASSUME NEW f \in Flows, NEW how \in {"done", "failed"}, FactsEnd(f, how)
      PROVE  TypeOK'
  BY <1>6 DEF FactsEnd, TypeOK, FactOutcomes, InFlight
<1> QED
  BY <1>1, <1>2, <1>3, <1>4, <1>5, <1>6

\* What a fact does: it touches the interactions and the stream of its flow.
LEMMA FactEffects ==
  ASSUME TypeOK, NEW f \in Flows, Fact(f)
  PROVE  /\ Streaming(f)
         /\ UNCHANGED <<activeRunIds, outbound, session, pc, result, ready,
                        terminals, detached, uncaught, muted>>
         /\ facts' \in {facts, [facts EXCEPT ![f] = "unsent"],
                        [facts EXCEPT ![f] = "invalid"]}
         /\ openMessages' \in [Flows -> SUBSET Messages]
         /\ closedMessages' \in [Flows -> SUBSET Messages]
         /\ \/ UNCHANGED <<pending, card>>
            \/ \E t \in Tokens :
                 /\ pending[t] \in {None, session[f]}
                 /\ pending' = [pending EXCEPT ![t] = session[f]]
                 /\ card' \in {card, [card EXCEPT ![t] = session[f]]}
         /\ \/ UNCHANGED presented
            \/ \E p \in Permissions :
                 presented' = presented \cup {<<session[f], p>>}
<1> USE DEF Deliver, Refuse
<1>1. ASSUME NEW m \in Messages,
             MessageStart(f, m) \/ Content(f, m) \/ MessageDone(f, m)
      PROVE  /\ Streaming(f)
             /\ UNCHANGED <<registryVars, session, pc, result, ready,
                            historyVars>>
             /\ facts' \in {facts, [facts EXCEPT ![f] = "unsent"],
                            [facts EXCEPT ![f] = "invalid"]}
             /\ openMessages' \in [Flows -> SUBSET Messages]
             /\ closedMessages' \in [Flows -> SUBSET Messages]
  BY <1>1 DEF MessageStart, Content, MessageDone, TypeOK
<1>2. ASSUME NEW t \in Tokens, Ask(f, t)
      PROVE  /\ facts' \in {facts, [facts EXCEPT ![f] = "unsent"],
                            [facts EXCEPT ![f] = "invalid"]}
             /\ \/ UNCHANGED <<pending, card>>
                \/ /\ pending[t] \in {None, session[f]}
                   /\ pending' = [pending EXCEPT ![t] = session[f]]
                   /\ card' \in {card, [card EXCEPT ![t] = session[f]]}
  BY <1>2 DEF Ask, Show
<1>3. ASSUME NEW m \in Messages, NEW q \in Questions, QuestionAsk(f, m, q)
      PROVE  /\ Streaming(f)
             /\ UNCHANGED <<activeRunIds, outbound, presented, session, pc,
                            result, streamVars, ready, terminals, detached,
                            uncaught, muted>>
             /\ \/ UNCHANGED <<pending, card>> /\ Refuse(f)
                \/ Ask(f, q)
  BY <1>3 DEF QuestionAsk
<1>4. ASSUME NEW p \in Permissions, PermissionAsk(f, p)
      PROVE  /\ Streaming(f)
             /\ UNCHANGED <<activeRunIds, outbound, session, pc, result,
                            streamVars, ready, terminals, detached, uncaught,
                            muted>>
             /\ presented' = presented \cup {<<session[f], p>>}
             /\ \/ UNCHANGED <<pending, card>> /\ Refuse(f)
                \/ Ask(f, p)
  BY <1>4 DEF PermissionAsk
<1>5. ASSUME NEW p \in Permissions \cup {None}, FreeFact(f, p)
      PROVE  /\ Streaming(f)
             /\ UNCHANGED <<registryVars, session, pc, result, streamVars,
                            ready, historyVars>>
             /\ facts' \in {facts, [facts EXCEPT ![f] = "unsent"],
                            [facts EXCEPT ![f] = "invalid"]}
  BY <1>5 DEF FreeFact
<1>6. \/ \E m \in Messages :
           MessageStart(f, m) \/ Content(f, m) \/ MessageDone(f, m)
      \/ \E m \in Messages, q \in Questions : QuestionAsk(f, m, q)
      \/ \E p \in Permissions : PermissionAsk(f, p)
      \/ \E p \in Permissions \cup {None} : FreeFact(f, p)
  BY DEF Fact
<1>7. CASE \E m \in Messages :
             MessageStart(f, m) \/ Content(f, m) \/ MessageDone(f, m)
  BY <1>1, <1>7
<1>8. CASE \E m \in Messages, q \in Questions : QuestionAsk(f, m, q)
  BY <1>2, <1>3, <1>8 DEF TypeOK
<1>9. CASE \E p \in Permissions : PermissionAsk(f, p)
  BY <1>2, <1>4, <1>9 DEF TypeOK
<1>10. CASE \E p \in Permissions \cup {None} : FreeFact(f, p)
  BY <1>5, <1>10 DEF TypeOK
<1> QED
  BY <1>6, <1>7, <1>8, <1>9, <1>10

LEMMA FactType ==
  ASSUME TypeOK, NEW f \in Flows, Fact(f), UNCHANGED setting
  PROVE  TypeOK'
<1>1. session[f] \in Sessions
  BY FactEffects, FlowHasSession DEF Streaming, InFlight
<1>2. facts' \in [Flows -> FactOutcomes]
  BY FactEffects DEF TypeOK, FactOutcomes
<1>3. /\ pending' \in [Tokens -> Sessions \cup {None}]
      /\ card' \in [Tokens -> Sessions \cup {None}]
  <2>1. CASE UNCHANGED <<pending, card>>
    BY <2>1 DEF TypeOK
  <2>2. ASSUME NEW t \in Tokens,
               pending' = [pending EXCEPT ![t] = session[f]],
               card' \in {card, [card EXCEPT ![t] = session[f]]}
        PROVE  /\ pending' \in [Tokens -> Sessions \cup {None}]
               /\ card' \in [Tokens -> Sessions \cup {None}]
    BY <1>1, <2>2 DEF TypeOK
  <2> QED
    BY <2>1, <2>2, FactEffects
<1>4. presented' \subseteq Sessions \X Permissions
  BY <1>1, FactEffects DEF TypeOK
<1> QED
  BY <1>2, <1>3, <1>4, FactEffects DEF TypeOK, InFlight

\* What Next is made of, with the settings' restrictions left out.
LEMMA StepCases ==
  ASSUME TypeOK, Next
  PROVE  /\ UNCHANGED setting
         /\ \/ \E r \in Runs, s \in Sessions : Chat(r, s)
            \/ \E t \in Tokens : Reply(t)
            \/ \E s \in Sessions : AbortApplied(s) \/ CloseApplied(s)
            \/ GatewayChanges
            \/ \E r \in Runs : RunStarts(r) \/ RunRefused(r) \/ FinishRun(r)
            \/ \E r \in Runs, how \in {"settled", "rejected"} :
                 ResultSettles(r, how)
            \/ \E e \in Emissions, s \in Sessions : Emit(e, s)
            \/ \E e \in Emissions : FinishEmission(e)
            \/ \E f \in Flows, how \in {"done", "failed"} : FactsEnd(f, how)
            \/ \E f \in Flows : Fact(f)
<1>1. setting.sessions \subseteq Sessions
  BY SettingsAreKnown DEF TypeOK
<1> QED
  BY <1>1 DEF Next, GatewayCommand, ProviderStep, Finish, TakingPart

LEMMA NextTypeOK == TypeOK /\ [Next]_vars => TypeOK'
<1> SUFFICES ASSUME TypeOK, [Next]_vars PROVE TypeOK'
  OBVIOUS
<1>1. CASE UNCHANGED vars
  BY <1>1 DEF vars, TypeOK, InFlight
<1>2. CASE Next
  BY <1>2, StepCases, CommandType, FlowType, FactType
<1> QED
  BY <1>1, <1>2

LEMMA InitTypeOK == Init => TypeOK
  BY NoneIsNothing DEF Init, TypeOK, Pcs, FactOutcomes, Results, InFlight

\* The registries and what the coordinators keep hold what they should.
THEOREM TypeCorrect == Spec => []TypeOK
  BY InitTypeOK, NextTypeOK, PTL DEF Spec

-----------------------------------------------------------------------------
(* Runs and locks *)

\* Only flows in flight are detached: EndFlow forgets them.
DetachedAreInFlight == \A f \in detached : InFlight(f)

\* The inductive invariant.
RegistryInv ==
  /\ DetachedAreInFlight
  /\ ActiveRuns
  /\ RunsExcludeEachOther
  /\ OutboundIsHeld
  /\ UnheardRunsAreOver
  /\ OneTerminalPerRun

\* Steps that leave the registries, places and terminals as they are.
LEMMA QuietInv ==
  ASSUME RegistryInv,
         UNCHANGED <<activeRunIds, outbound, session, pc, detached,
                     terminals, uncaught, muted, setting>>
  PROVE  RegistryInv'
  BY DEF RegistryInv, DetachedAreInFlight, ActiveRuns, RunsExcludeEachOther, OutboundIsHeld,
     UnheardRunsAreOver, OneTerminalPerRun, FlowsOf, InFlight

\* A flow that ends is in flight no more and lets go of nothing else.
LEMMA EndFlowFlows ==
  ASSUME TypeOK, NEW f \in Flows, InFlight(f), EndFlow(f)
  PROVE  /\ \A s \in Sessions : FlowsOf(s)' = FlowsOf(s) \ {f}
         /\ \A s \in Sessions : f \in FlowsOf(s) <=> s = session[f]
         /\ detached' = detached \ {f}
         /\ pc' = [pc EXCEPT ![f] = "ended"]
<1>1. \A g \in Flows : g # f => pc'[g] = pc[g] /\ session'[g] = session[g]
  BY DEF EndFlow, TypeOK
<1>2. pc'[f] = "ended" /\ session'[f] = None
  BY DEF EndFlow, TypeOK
<1> QED
  BY <1>1, <1>2, FlowHasSession DEF EndFlow, FlowsOf, InFlight

\* The end of a run frees its session of it, and of nothing else.
LEMMA RunEnds ==
  ASSUME TypeOK, RegistryInv, NEW r \in Runs, InFlight(r), EndFlow(r),
         ReleaseRequestRun(r), UNCHANGED <<outbound, setting>>,
         NEW mute \in BOOLEAN, Unheard(r, mute),
         terminals' =
           [terminals EXCEPT ![r] = @ + IF mute THEN 0 ELSE Times(1)]
  PROVE  RegistryInv'
<1>1. session[r] \in Sessions /\ r \notin Emissions
  BY FlowHasSession, FlowsAreDistinct
<1>2. \A s \in Sessions :
        activeRunIds'[s] = IF s = session[r] THEN activeRunIds[s] \ {r}
                                             ELSE activeRunIds[s]
  BY <1>1 DEF ReleaseRequestRun, TypeOK
<1>3. ActiveRuns'
  <2> SUFFICES ASSUME NEW s \in Sessions
               PROVE  activeRunIds'[s] = (FlowsOf(s)' \cap Runs) \ detached'
    BY DEF ActiveRuns
  <2>1. activeRunIds[s] = (FlowsOf(s) \cap Runs) \ detached
    BY DEF RegistryInv, ActiveRuns
  <2>2. FlowsOf(s)' = FlowsOf(s) \ {r} /\ (s # session[r] => r \notin FlowsOf(s))
    BY EndFlowFlows
  <2>3. activeRunIds'[s] = activeRunIds[s] \ {r}
    BY <1>2, <2>1, <2>2
  <2>4. detached' = detached \ {r}
    BY EndFlowFlows
  <2> QED
    BY <2>1, <2>2, <2>3, <2>4
<1>4. RunsExcludeEachOther'
  BY <1>2 DEF RegistryInv, RunsExcludeEachOther
<1>5. OutboundIsHeld'
  BY <1>1, EndFlowFlows DEF RegistryInv, OutboundIsHeld
<1>6. pc' = [pc EXCEPT ![r] = "ended"] /\ pc \in [Flows -> Pcs]
  BY EndFlowFlows DEF TypeOK
<1>7. pc[r] # "ended" /\ r \notin uncaught \cup muted /\ terminals[r] = 0
  BY DEF InFlight, RegistryInv, UnheardRunsAreOver, OneTerminalPerRun
<1>8. UnheardRunsAreOver' /\ OneTerminalPerRun'
  <2>1. /\ muted' = IF mute THEN muted \cup {r} ELSE muted
        /\ uncaught' = IF mute \/ ready THEN uncaught ELSE uncaught \cup {r}
    BY DEF Unheard
  <2>2. /\ terminals \in [Flows -> Nat]
        /\ uncaught \subseteq Runs /\ muted \subseteq Runs
    BY DEF TypeOK
  <2>3. terminals'[r] = IF ready /\ ~mute THEN 1 ELSE 0
    BY <1>7, <2>2 DEF Times
  <2>4. \A q \in Runs : q # r => terminals'[q] = terminals[q] /\ pc'[q] = pc[q]
    BY <1>6, <2>2
  <2>5. pc'[r] = "ended"
    BY <1>6
  <2>6. UnheardRunsAreOver'
    BY <2>1, <2>2, <2>4, <2>5 DEF RegistryInv, UnheardRunsAreOver
  <2>7. \A q \in Runs : terminals'[q] =
          IF pc'[q] = "ended" /\ q \notin uncaught' \cup muted' THEN 1 ELSE 0
    BY <1>7, <2>1, <2>3, <2>4, <2>5 DEF RegistryInv, OneTerminalPerRun
  <2> QED
    BY <2>6, <2>7 DEF OneTerminalPerRun
<1>9. DetachedAreInFlight'
  BY <1>6, EndFlowFlows DEF RegistryInv, DetachedAreInFlight, InFlight, TypeOK
<1> QED
  BY <1>3, <1>4, <1>5, <1>8, <1>9 DEF RegistryInv

\* However facts and result() have ended, one of the two reports the run.
LEMMA OneReport ==
  ASSUME TypeOK, NEW r \in Runs, FinishDue(r)
  PROVE  Count(CoordinatorReports(r)) + Count(CommandReports(r)) = 1
<1>1. /\ facts[r] \in {"done", "invalid", "failed", "unsent"}
      /\ result[r] \in {"settled", "rejected"}
  BY DEF FinishDue, TypeOK, FactOutcomes, Results
<1> QED
  BY <1>1 DEF Count, CoordinatorReports, CommandReports

LEMMA RunStepInv ==
  ASSUME TypeOK, RegistryInv, NEW r \in Runs, UNCHANGED setting,
         RunStarts(r) \/ RunRefused(r) \/ FinishRun(r)
  PROVE  RegistryInv'
<1>1. CASE RunStarts(r)
  <2>1. /\ pc[r] = "starting" /\ pc' = [pc EXCEPT ![r] = "running"]
        /\ pc \in [Flows -> Pcs]
        /\ UNCHANGED <<activeRunIds, outbound, session, detached, terminals,
                       uncaught, muted>>
    BY <1>1 DEF RunStarts, TypeOK
  <2>2. \A f \in Flows : /\ InFlight(f)' <=> InFlight(f)
                         /\ pc'[f] = "ended" <=> pc[f] = "ended"
    BY <2>1 DEF InFlight
  <2>3. \A s \in Sessions : FlowsOf(s)' = FlowsOf(s)
    BY <2>1, <2>2 DEF FlowsOf
  <2> QED
    BY <2>1, <2>2, <2>3 DEF RegistryInv, DetachedAreInFlight, ActiveRuns, RunsExcludeEachOther,
       OutboundIsHeld, UnheardRunsAreOver, OneTerminalPerRun, TypeOK
<1>2. CASE RunRefused(r)
  <2>1. PICK mute \in BOOLEAN :
          /\ terminals' =
               [terminals EXCEPT ![r] = @ + IF mute THEN 0 ELSE Times(1)]
          /\ Unheard(r, mute)
    BY <1>2 DEF RunRefused
  <2> QED
    BY <1>2, <2>1, RunEnds DEF RunRefused, InFlight
<1>3. CASE FinishRun(r)
  <2>1. PICK mute \in BOOLEAN :
          /\ terminals' =
               [terminals EXCEPT ![r] = @ + IF mute THEN 0 ELSE Times(1)]
          /\ Unheard(r, mute)
    BY <1>3, OneReport DEF FinishRun
  <2> QED
    BY <1>3, <2>1, RunEnds DEF FinishRun, FinishDue, InFlight
<1> QED
  BY <1>1, <1>2, <1>3

\* A chat is refused with a terminal message, or begins a run.
LEMMA ChatInv ==
  ASSUME TypeOK, RegistryInv, NEW r \in Runs, NEW s \in Sessions, Chat(r, s),
         UNCHANGED setting
  PROVE  RegistryInv'
<1>1. /\ pc[r] = "unused" /\ r \notin uncaught \cup muted
      /\ terminals[r] = 0
      /\ session[r] = None
      /\ r \notin Emissions /\ ~InFlight(r)
  BY FlowsAreDistinct DEF Chat, RegistryInv, UnheardRunsAreOver,
     OneTerminalPerRun, TypeOK, InFlight
<1>2. /\ UNCHANGED <<outbound, detached, uncaught, muted>>
      /\ pc \in [Flows -> Pcs] /\ terminals \in [Flows -> Nat]
      /\ session \in [Flows -> Sessions \cup {None}]
      /\ activeRunIds \in [Sessions -> SUBSET Runs]
      /\ uncaught \subseteq Runs /\ muted \subseteq Runs
  BY DEF Chat, TypeOK
<1>3. CASE /\ pc' = [pc EXCEPT ![r] = "ended"]
           /\ terminals' = [terminals EXCEPT ![r] = 1]
           /\ UNCHANGED <<activeRunIds, session>>
  <2>1. \A q \in Sessions : FlowsOf(q)' = FlowsOf(q)
    BY <1>1, <1>2, <1>3 DEF FlowsOf, InFlight
  <2>2. DetachedAreInFlight'
    BY <1>1, <1>2, <1>3 DEF RegistryInv, DetachedAreInFlight, InFlight, TypeOK
  <2>3. ActiveRuns' /\ OutboundIsHeld'
    BY <1>2, <1>3, <2>1 DEF RegistryInv, ActiveRuns, OutboundIsHeld
  <2>4. RunsExcludeEachOther' /\ UnheardRunsAreOver' /\ OneTerminalPerRun'
    BY <1>1, <1>2, <1>3 DEF RegistryInv, RunsExcludeEachOther,
       UnheardRunsAreOver, OneTerminalPerRun
  <2> QED
    BY <2>2, <2>3, <2>4 DEF RegistryInv
<1>4. CASE /\ ~Busy(s)
           /\ session' = [session EXCEPT ![r] = s]
           /\ activeRunIds' = [activeRunIds EXCEPT ![s] = @ \cup {r}]
           /\ pc' = [pc EXCEPT ![r] = "starting"]
           /\ UNCHANGED terminals
  <2>1. \A q \in Sessions :
          FlowsOf(q)' = IF q = s THEN FlowsOf(q) \cup {r} ELSE FlowsOf(q)
    BY <1>1, <1>2, <1>4, NoneIsNothing DEF FlowsOf, InFlight
  <2>2. r \notin detached
    BY <1>1 DEF RegistryInv, DetachedAreInFlight
  <2>3. ActiveRuns'
    BY <1>2, <1>4, <2>1, <2>2 DEF RegistryInv, ActiveRuns
  <2>4. RunsExcludeEachOther'
    BY <1>2, <1>4 DEF RegistryInv, RunsExcludeEachOther, Busy
  <2>5. OutboundIsHeld'
    BY <1>1, <1>2, <2>1 DEF RegistryInv, OutboundIsHeld
  <2>6. UnheardRunsAreOver' /\ OneTerminalPerRun'
    BY <1>1, <1>2, <1>4 DEF RegistryInv, UnheardRunsAreOver, OneTerminalPerRun
  <2>7. DetachedAreInFlight'
    BY <1>1, <1>2, <1>4 DEF RegistryInv, DetachedAreInFlight, InFlight, TypeOK
  <2> QED
    BY <2>3, <2>4, <2>5, <2>6, <2>7 DEF RegistryInv
<1> QED
  BY <1>3, <1>4 DEF Chat

\* close_session lets go of what is in flight: none of it is active any more.
LEMMA CloseInv ==
  ASSUME TypeOK, RegistryInv, NEW s \in Sessions, CloseApplied(s),
         UNCHANGED setting
  PROVE  RegistryInv'
<1>1. /\ UNCHANGED <<session, pc, terminals, uncaught, muted>>
      /\ detached' = detached \cup FlowsOf(s)
      /\ \A q \in Sessions :
           /\ activeRunIds'[q] = IF q = s THEN {} ELSE activeRunIds[q]
           /\ outbound'[q] = IF q = s THEN None ELSE outbound[q]
  BY DEF CloseApplied, TypeOK
<1>2. \A q \in Sessions :
        /\ FlowsOf(q)' = FlowsOf(q)
        /\ q # s => FlowsOf(q) \cap FlowsOf(s) = {}
  BY <1>1 DEF FlowsOf, InFlight
<1>3. ActiveRuns' /\ OutboundIsHeld'
  BY <1>1, <1>2 DEF RegistryInv, ActiveRuns, OutboundIsHeld
<1>4. RunsExcludeEachOther' /\ UnheardRunsAreOver' /\ OneTerminalPerRun'
  BY <1>1 DEF RegistryInv, RunsExcludeEachOther, UnheardRunsAreOver,
     OneTerminalPerRun
<1>5. DetachedAreInFlight'
  BY <1>1 DEF RegistryInv, DetachedAreInFlight, FlowsOf, InFlight
<1> QED
  BY <1>3, <1>4, <1>5 DEF RegistryInv

\* An emission acquires a free session, or is refused.
LEMMA EmitInv ==
  ASSUME TypeOK, RegistryInv, NEW e \in Emissions, NEW s \in Sessions,
         Emit(e, s), UNCHANGED setting
  PROVE  RegistryInv'
<1>1. /\ pc[e] = "unused" /\ session[e] = None /\ ~InFlight(e)
      /\ e \notin Runs /\ e # None
  BY FlowsAreDistinct, NoneIsNothing DEF Emit, TypeOK, InFlight
<1>2. /\ UNCHANGED <<activeRunIds, detached, uncaught, muted, terminals>>
      /\ pc \in [Flows -> Pcs]
      /\ uncaught \subseteq Runs /\ muted \subseteq Runs
      /\ session \in [Flows -> Sessions \cup {None}]
      /\ outbound \in [Sessions -> Emissions \cup {None}]
  BY DEF Emit, TypeOK
<1>3. /\ pc' \in {[pc EXCEPT ![e] = "ended"], [pc EXCEPT ![e] = "running"]}
      /\ \A r \in Runs : pc'[r] = pc[r]
  BY <1>1, <1>2 DEF Emit
<1>4. RunsExcludeEachOther' /\ UnheardRunsAreOver' /\ OneTerminalPerRun'
  BY <1>2, <1>3 DEF RegistryInv, RunsExcludeEachOther, UnheardRunsAreOver,
     OneTerminalPerRun
<1>5. DetachedAreInFlight'
  BY <1>1, <1>2, <1>3 DEF RegistryInv, DetachedAreInFlight, InFlight, TypeOK
<1>6. CASE /\ pc' = [pc EXCEPT ![e] = "ended"]
           /\ UNCHANGED <<outbound, session>>
  <2>1. \A q \in Sessions : FlowsOf(q)' = FlowsOf(q)
    BY <1>1, <1>2, <1>6 DEF FlowsOf, InFlight
  <2>2. ActiveRuns' /\ OutboundIsHeld'
    BY <1>2, <1>6, <2>1 DEF RegistryInv, ActiveRuns, OutboundIsHeld
  <2> QED
    BY <1>4, <1>5, <2>2 DEF RegistryInv
<1>7. CASE /\ outbound[s] = None
           /\ session' = [session EXCEPT ![e] = s]
           /\ outbound' = [outbound EXCEPT ![s] = e]
           /\ pc' = [pc EXCEPT ![e] = "running"]
  <2>1. \A q \in Sessions :
          FlowsOf(q)' = IF q = s THEN FlowsOf(q) \cup {e} ELSE FlowsOf(q)
    BY <1>1, <1>2, <1>7, NoneIsNothing DEF FlowsOf, InFlight
  <2>2. e \notin detached
    BY <1>1 DEF RegistryInv, DetachedAreInFlight
  <2>3. ActiveRuns'
    BY <1>1, <1>2, <2>1 DEF RegistryInv, ActiveRuns
  <2>4. OutboundIsHeld'
    BY <1>1, <1>2, <1>7, <2>1, <2>2 DEF RegistryInv, OutboundIsHeld
  <2> QED
    BY <1>4, <1>5, <2>3, <2>4 DEF RegistryInv
<1> QED
  BY <1>6, <1>7 DEF Emit

\* The end of an emission unlocks its session only if it still holds it.
LEMMA FinishEmissionInv ==
  ASSUME TypeOK, RegistryInv, NEW e \in Emissions, FinishEmission(e),
         UNCHANGED setting
  PROVE  RegistryInv'
<1>1. /\ EndFlow(e) /\ ReleaseOutbound(e) /\ InFlight(e) /\ e \notin Runs
      /\ e # None
      /\ UNCHANGED <<activeRunIds, uncaught, muted>>
      /\ pc \in [Flows -> Pcs] /\ terminals \in [Flows -> Nat]
      /\ uncaught \subseteq Runs /\ muted \subseteq Runs
  BY FlowsAreDistinct, NoneIsNothing DEF FinishEmission, FinishDue, InFlight,
     TypeOK
<1>2. session[e] \in Sessions
  BY <1>1, FlowHasSession
<1>3. /\ \A s \in Sessions : FlowsOf(s)' = FlowsOf(s) \ {e}
      /\ \A s \in Sessions : e \in FlowsOf(s) <=> s = session[e]
      /\ detached' = detached \ {e}
      /\ pc' = [pc EXCEPT ![e] = "ended"]
  BY <1>1, EndFlowFlows
<1>4. \A s \in Sessions :
        outbound'[s] = IF s = session[e] /\ outbound[s] = e THEN None
                       ELSE outbound[s]
  BY <1>1, <1>2 DEF ReleaseOutbound, TypeOK
<1>5. ActiveRuns'
  BY <1>1, <1>3 DEF RegistryInv, ActiveRuns
<1>6. OutboundIsHeld'
  <2> SUFFICES ASSUME NEW s \in Sessions
               PROVE  (FlowsOf(s)' \cap Emissions) \ detached' =
                        IF outbound'[s] = None THEN {} ELSE {outbound'[s]}
    BY DEF OutboundIsHeld
  <2>1. (FlowsOf(s) \cap Emissions) \ detached =
          IF outbound[s] = None THEN {} ELSE {outbound[s]}
    BY DEF RegistryInv, OutboundIsHeld
  <2>2. (FlowsOf(s)' \cap Emissions) \ detached' =
          ((FlowsOf(s) \cap Emissions) \ detached) \ {e}
    BY <1>3
  <2>3. outbound[s] = e => s = session[e]
    BY <1>1, <1>3, <2>1
  <2> QED
    BY <1>1, <1>4, <2>1, <2>2, <2>3
<1>7. RunsExcludeEachOther'
  BY <1>1 DEF RegistryInv, RunsExcludeEachOther
<1>8. UnheardRunsAreOver' /\ OneTerminalPerRun'
  BY <1>1, <1>3 DEF FinishEmission, RegistryInv, UnheardRunsAreOver,
     OneTerminalPerRun
<1>9. DetachedAreInFlight'
  BY <1>1, <1>3 DEF RegistryInv, DetachedAreInFlight, InFlight, TypeOK
<1> QED
  BY <1>5, <1>6, <1>7, <1>8, <1>9 DEF RegistryInv

LEMMA NextRegistryInv == TypeOK /\ RegistryInv /\ [Next]_vars => RegistryInv'
<1> SUFFICES ASSUME TypeOK, RegistryInv, [Next]_vars PROVE RegistryInv'
  OBVIOUS
<1>1. CASE UNCHANGED vars
  BY <1>1, QuietInv DEF vars
<1>2. CASE Next
  <2>1. UNCHANGED setting
    BY <1>2, StepCases
  <2>2. ASSUME \/ \E t \in Tokens : Reply(t)
               \/ \E s \in Sessions : AbortApplied(s)
               \/ GatewayChanges
               \/ \E r \in Runs, how \in {"settled", "rejected"} :
                    ResultSettles(r, how)
               \/ \E f \in Flows, how \in {"done", "failed"} : FactsEnd(f, how)
        PROVE  UNCHANGED <<activeRunIds, outbound, session, pc, detached,
                           terminals, uncaught, muted>>
    BY <2>2 DEF Reply, AbortApplied, GatewayChanges, ResultSettles, FactsEnd
  <2>3. ASSUME NEW f \in Flows, Fact(f)
        PROVE  UNCHANGED <<activeRunIds, outbound, session, pc, detached,
                           terminals, uncaught, muted>>
    BY <2>3, FactEffects
  <2> QED
    BY <1>2, <2>1, <2>2, <2>3, StepCases, QuietInv, ChatInv, CloseInv,
       RunStepInv, EmitInv, FinishEmissionInv
<1> QED
  BY <1>1, <1>2

LEMMA InitRegistryInv == Init => RegistryInv
  BY DEF Init, RegistryInv, DetachedAreInFlight, ActiveRuns,
     RunsExcludeEachOther, OutboundIsHeld, UnheardRunsAreOver,
     OneTerminalPerRun, FlowsOf, InFlight

LEMMA RegistryInvariant == Spec => [](TypeOK /\ RegistryInv)
<1>1. Init => TypeOK /\ RegistryInv
  BY InitTypeOK, InitRegistryInv
<1>2. TypeOK /\ RegistryInv /\ [Next]_vars => (TypeOK /\ RegistryInv)'
  BY NextTypeOK, NextRegistryInv
<1> QED
  BY <1>1, <1>2, PTL DEF Spec

\* The registry of active runs holds the runs in flight that no close let go
\* of, and under "reject" one at most.
THEOREM RunsAreInFlight == Spec => []ActiveRunsAreInFlight
<1>1. TypeOK /\ RegistryInv => ActiveRunsAreInFlight
  <2> SUFFICES ASSUME RegistryInv, NEW s \in Sessions,
                      setting.policy = "reject"
               PROVE  Cardinality(activeRunIds[s]) <= 1
    BY DEF RegistryInv, ActiveRuns, ActiveRunsAreInFlight
  <2>1. CASE activeRunIds[s] = {}
    BY <2>1, FS_EmptySet
  <2>2. ASSUME NEW r \in activeRunIds[s]
        PROVE  Cardinality(activeRunIds[s]) = 1
    <3>1. activeRunIds[s] = {r}
      BY <2>2 DEF RegistryInv, RunsExcludeEachOther
    <3> QED
      BY <3>1, FS_Singleton
  <2> QED
    BY <2>1, <2>2
<1> QED
  BY <1>1, RegistryInvariant, PTL

\* A session is locked for exactly one emission, the one that acquired it,
\* until that one ends or a close lets go of it.
THEOREM LocksAreHeld == Spec => []OutboundIsHeld
<1>1. RegistryInv => OutboundIsHeld
  BY DEF RegistryInv
<1> QED
  BY <1>1, RegistryInvariant, PTL

\* Every chat that is over has been answered once, unless the gateway was
\* away when its error was reported.
THEOREM TerminalsAreOne == Spec => []OneTerminalPerRun
<1>1. RegistryInv => OneTerminalPerRun
  BY DEF RegistryInv
<1> QED
  BY <1>1, RegistryInvariant, PTL

-----------------------------------------------------------------------------
(* Cards *)

\* No step takes the token of a card away without the card.
LEMMA NextCards ==
  TypeOK /\ CardsAreAnswerable /\ [Next]_vars => CardsAreAnswerable'
<1> SUFFICES ASSUME TypeOK, CardsAreAnswerable, [Next]_vars
             PROVE  CardsAreAnswerable'
  OBVIOUS
<1>1. CASE UNCHANGED <<pending, card>>
  BY <1>1 DEF CardsAreAnswerable
<1>2. ASSUME NEW t \in Tokens, Reply(t) PROVE CardsAreAnswerable'
  BY <1>2 DEF Reply, CardsAreAnswerable, TypeOK
<1>3. ASSUME NEW f \in Flows, Fact(f) PROVE CardsAreAnswerable'
  <2>1. ASSUME NEW t \in Tokens,
               pending[t] \in {None, session[f]},
               pending' = [pending EXCEPT ![t] = session[f]],
               card' \in {card, [card EXCEPT ![t] = session[f]]}
        PROVE  CardsAreAnswerable'
    BY <2>1 DEF CardsAreAnswerable, TypeOK
  <2> QED
    BY <1>1, <1>3, <2>1, FactEffects
<1>4. CASE Next
  <2>1. ASSUME \/ \E r \in Runs, s \in Sessions : Chat(r, s)
               \/ \E s \in Sessions : AbortApplied(s) \/ CloseApplied(s)
               \/ GatewayChanges
               \/ \E r \in Runs : RunStarts(r) \/ RunRefused(r) \/ FinishRun(r)
               \/ \E r \in Runs, how \in {"settled", "rejected"} :
                    ResultSettles(r, how)
               \/ \E e \in Emissions, s \in Sessions : Emit(e, s)
               \/ \E e \in Emissions : FinishEmission(e)
               \/ \E f \in Flows, how \in {"done", "failed"} : FactsEnd(f, how)
        PROVE  UNCHANGED <<pending, card>>
    BY <2>1 DEF Chat, AbortApplied, CloseApplied, GatewayChanges, RunStarts,
       RunRefused, FinishRun, ResultSettles, Emit, FinishEmission, FactsEnd
  <2> QED
    BY <1>1, <1>2, <1>3, <1>4, <2>1, StepCases
<1> QED
  BY <1>1, <1>4 DEF vars

\* A card the gateway holds unanswered is always answerable: its token is
\* pending, in the session the card was sent in.
THEOREM CardsStayAnswerable == Spec => []CardsAreAnswerable
<1>1. Init => CardsAreAnswerable
  BY DEF Init, CardsAreAnswerable
<1> QED
  BY <1>1, NextCards, TypeCorrect, PTL DEF Spec
=============================================================================
