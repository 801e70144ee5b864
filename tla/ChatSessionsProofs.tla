------------------------- MODULE ChatSessionsProofs -------------------------
(***************************************************************************)
(* Whose sessions the chats land in, whose events they receive and what    *)
(* becomes of a session's record, for every number of anchors, entries,    *)
(* sessions, commands in progress and faults: the properties of            *)
(* ChatSessions, from what a command in progress may rely on although the  *)
(* file and the host move on while it waits.                               *)
(***************************************************************************)
EXTENDS ChatSessions, TLAPS

\* A command in progress, as a record.
TaskRecords ==
  [at : {"idle", "reading", "choosing", "creating", "binding", "undoing",
         "resolved", "prompting", "checking", "deleting", "closing"},
   kind : {"chat", "new", "pick", "create", "close"},
   anchor : Anchors \cup {None}, session : Sessions \cup {None},
   own : SUBSET Sessions, other : SUBSET Sessions,
   left : Sessions \cup {None}]

TypeInv ==
  /\ TypeOK
  /\ task \in [Tasks -> TaskRecords]
  /\ maker \in [Sessions -> Entries \cup {None}]
  /\ strayed \subseteq Sessions

\* What a command in progress r knows, however stale it is: h and m are the
\* state of the host and the makers of its sessions by now.
HasSession == {"resolved", "prompting", "binding", "undoing", "deleting",
               "closing"}
Knows(r, h, m) ==
  LET entry == EntryOf[r.anchor]
  IN  r.at # "idle" =>
        /\ r.at \in HasSession => r.session \in Sessions
        /\ \A s \in r.own : m[s] = entry
        /\ \A s \in r.own \cup r.other : h[s] # "unborn"
        /\ entry \notin Natives => r.other = {}
        /\ r.at \in {"resolved", "prompting"} =>
             /\ h[r.session] # "unborn"
             /\ entry \notin Natives => m[r.session] = entry
        /\ r.at = "binding" =>
             h[r.session] # "unborn" /\ m[r.session] = entry
        /\ r.at = "closing" => h[r.session] = "gone"
TasksKnow == \A t \in Tasks : Knows(task[t], host, maker)

\* A record names the entry the session was made for; what is to be erased is
\* gone at the host or was forgotten in another one's place.
RecordsAreTrue ==
  \A s \in Sessions :
    /\ owned[s] # None => maker[s] = owned[s]
    /\ maker[s] # None => host[s] # "unborn"
    /\ s \in erasing => host[s] = "gone" \/ s \in strayed
    /\ s \in deleted => host[s] = "gone"

\* The inductive invariant.
ChatInv ==
  /\ TypeInv
  /\ TasksKnow
  /\ RecordsAreTrue
  /\ OwnerIsBoundHere
  /\ NoOrphans

\* Sessions are born once, for one entry, and never come back.
HistoryGrows ==
  \A s \in Sessions :
    /\ host[s] # "unborn" => host'[s] # "unborn" /\ maker'[s] = maker[s]
    /\ host[s] = "gone" => host'[s] = "gone"

-----------------------------------------------------------------------------
(* The records of the commands in progress. *)

NewRecord(at, kind, a, s) ==
  [at |-> at, kind |-> kind, anchor |-> a, session |-> s,
   own |-> {}, other |-> {}, left |-> None]
Becomes(t, r) == task' = [task EXCEPT ![t] = r]

Gone(r, at, s) ==
  [r EXCEPT !.at = at, !.session = s, !.own = {}, !.other = {}]

\* A command that begins, goes on or ends leaves every other one alone.
LEMMA TaskMoves ==
  ASSUME task \in [Tasks -> TaskRecords], NEW t \in Tasks,
         NEW at, NEW kind, NEW a, NEW s
  PROVE  /\ Begin(t, kind, a, at, s) => Becomes(t, NewRecord(at, kind, a, s))
         /\ Goto(t, at, s) => Becomes(t, Gone(task[t], at, s))
         /\ End(t) => Becomes(t, NoTask)
<1>1. Begin(t, kind, a, at, s) => Becomes(t, NewRecord(at, kind, a, s))
  BY DEF Begin, NoTask, NewRecord, Becomes
<1>2. Goto(t, at, s) => Becomes(t, Gone(task[t], at, s))
  BY DEF Goto, Becomes, Gone
<1>3. End(t) => Becomes(t, NoTask)
  BY DEF End, Becomes
<1> QED
  BY <1>1, <1>2, <1>3

LEMMA NoTaskKnows ==
  /\ NoTask \in TaskRecords
  /\ \A h, m : Knows(NoTask, h, m)
  BY DEF NoTask, TaskRecords, Knows

\* What a command that waits knows stays true.
LEMMA KnowledgeLasts ==
  ASSUME NEW r \in TaskRecords, Knows(r, host, maker), HistoryGrows
  PROVE  Knows(r, host', maker')
<1> SUFFICES ASSUME r.at # "idle" PROVE Knows(r, host', maker')
  BY DEF Knows
<1>1. r.own \subseteq Sessions /\ r.other \subseteq Sessions
  BY DEF TaskRecords
<1>2. /\ r.at \in HasSession => r.session \in Sessions
      /\ \A s \in r.own : maker[s] = EntryOf[r.anchor]
      /\ \A s \in r.own \cup r.other : host[s] # "unborn"
      /\ EntryOf[r.anchor] \notin Natives => r.other = {}
  BY DEF Knows
<1>3. /\ \A s \in r.own : maker'[s] = EntryOf[r.anchor]
      /\ \A s \in r.own \cup r.other : host'[s] # "unborn"
  BY <1>1, <1>2 DEF HistoryGrows
<1>4. r.at \in {"resolved", "prompting"} =>
        /\ host'[r.session] # "unborn"
        /\ EntryOf[r.anchor] \notin Natives =>
             maker'[r.session] = EntryOf[r.anchor]
  BY <1>2 DEF Knows, HistoryGrows, HasSession
<1>5. r.at = "binding" =>
        /\ host'[r.session] # "unborn"
        /\ maker'[r.session] = EntryOf[r.anchor]
  BY <1>2 DEF Knows, HistoryGrows, HasSession
<1>6. r.at = "closing" => host'[r.session] = "gone"
  BY <1>2 DEF Knows, HistoryGrows, HasSession
<1> QED
  BY <1>2, <1>3, <1>4, <1>5, <1>6 DEF Knows

TasksKept ==
  /\ task' \in [Tasks -> TaskRecords] /\ TasksKnow'
  /\ \A u \in Tasks : (task'[u].at = "idle") = (task'[u].anchor = None)

\* One command moves, the world moves on, and all of them know what they did.
LEMMA OneTaskMoves ==
  ASSUME TypeInv, TasksKnow, HistoryGrows,
         NEW t \in Tasks, NEW r \in TaskRecords, Becomes(t, r),
         Knows(r, host', maker'), r.at = "idle" <=> r.anchor = None
  PROVE  TasksKept
<1>1. \A u \in Tasks : task'[u] = IF u = t THEN r ELSE task[u]
  BY DEF Becomes, TypeInv
<1>2. task' \in [Tasks -> TaskRecords]
  BY DEF Becomes, TypeInv
<1>3. \A u \in Tasks : Knows(task'[u], host', maker')
  BY <1>1, KnowledgeLasts DEF TypeInv, TasksKnow
<1> QED
  BY <1>1, <1>2, <1>3 DEF TasksKept, TasksKnow, TypeInv, TypeOK

\* The same when no command moves.
LEMMA NoTaskMoves ==
  ASSUME TypeInv, TasksKnow, HistoryGrows, UNCHANGED task
  PROVE  TasksKept
<1>1. \A u \in Tasks : Knows(task'[u], host', maker')
  BY KnowledgeLasts DEF TypeInv, TasksKnow
<1> QED
  BY <1>1 DEF TasksKept, TasksKnow, TypeInv, TypeOK

-----------------------------------------------------------------------------
(* The world moves on. *)

LEMMA NextGrows ==
  ASSUME TypeInv, RecordsAreTrue, Next
  PROVE  HistoryGrows
<1> USE DEF HistoryGrows, TypeInv, TypeOK
<1>1. CASE UNCHANGED <<host, maker>>
  BY <1>1
<1>2. ASSUME NEW s \in Sessions, HostDeletes(s), UNCHANGED maker
      PROVE  HistoryGrows
  BY <1>2 DEF HostDeletes
<1>3. ASSUME NEW s \in Sessions, host[s] = "unborn",
             host' = [host EXCEPT ![s] = "alive"],
             \A x \in Sessions \ {s} : maker'[x] = maker[x]
      PROVE  HistoryGrows
  BY <1>3
<1>4. ASSUME NEW t \in Tasks, Work(t)
      PROVE  HistoryGrows
  <2>1. ASSUME NEW s \in Sessions, HostCreates(t, s) PROVE HistoryGrows
    BY <2>1, <1>3 DEF HostCreates
  <2>2. CASE Undo(t)
    BY <2>2, <1>1 DEF Undo, HostDeletes
  <2>3. CASE Delete(t)
    BY <2>3, <1>1 DEF Delete, HostDeletes
  <2>4. CASE Read(t) \/ Resolve(t) \/ Pick(t) \/ Prompt(t) \/ SlashNew(t)
             \/ SlashSession(t) \/ PromptEnds(t) \/ HostCreateFails(t)
             \/ Recorded(t) \/ RecordFails(t) \/ CheckFails(t)
             \/ CheckPasses(t) \/ Closed(t)
    BY <2>4, <1>1 DEF Read, Resolve, Pick, Prompt, SlashNew, SlashSession,
       PromptEnds, HostCreateFails, Recorded, RecordFails, CheckFails,
       CheckPasses, Closed
  <2> QED
    BY <1>4, <2>1, <2>2, <2>3, <2>4 DEF Work
<1>5. ASSUME NEW t \in Tasks, NEW a \in Anchors,
             CreateSession(t, a) \/ Chat(t, a) \/ Close(t, a)
      PROVE  HistoryGrows
  BY <1>5, <1>1 DEF CreateSession, Chat, Close
<1>6. ASSUME NEW s \in Sessions,
             DeletedEvent(s) \/ Erase(s) \/ UserCreates(s) \/ UserDeletes(s)
      PROVE  HistoryGrows
  BY <1>6, <1>1, <1>2, <1>3 DEF DeletedEvent, Erase, UserCreates, UserDeletes
<1>7. CASE Restart \/ Corrupt \/ \E a \in Anchors : CreateAnchorOnly(a)
  BY <1>7, <1>1 DEF Restart, Corrupt, CreateAnchorOnly
<1> QED
  BY <1>4, <1>5, <1>6, <1>7 DEF Next

\* What a step may do to the bindings and the owners.
MemoryMoves ==
  \/ UNCHANGED <<binding, owner>>
  \/ \E a \in Anchors, s \in Sessions, left \in Sessions \cup {None} :
       Attach(a, s, left)
  \/ \E a \in Anchors, s \in Sessions \cup {None} :
       Invalidate(a) /\ owner' \in {owner, Detached(owner, s)}
  \/ \E s \in Sessions : Cleanup(s)
  \/ /\ binding' = [a \in Anchors |-> Unbound]
     /\ owner' = [s \in Sessions |-> None]

LEMMA MemoryKeeps ==
  ASSUME TypeInv, OwnerIsBoundHere, MemoryMoves
  PROVE  /\ binding' \in [Anchors -> [session : Sessions \cup {None}, active : BOOLEAN]]
         /\ owner' \in [Sessions -> Anchors \cup {None}]
         /\ OwnerIsBoundHere'
<1> DEFINE Bindings == [session : Sessions \cup {None}, active : BOOLEAN]
           Kept == /\ binding' \in [Anchors -> Bindings]
                   /\ owner' \in [Sessions -> Anchors \cup {None}]
                   /\ OwnerIsBoundHere'
<1>0. /\ binding \in [Anchors -> Bindings]
      /\ owner \in [Sessions -> Anchors \cup {None}]
      /\ Unbound \in Bindings
      /\ None \notin Anchors \cup Sessions
  BY ChatAssumption DEF ChatAssumption, TypeInv, TypeOK, Unbound
<1>1. CASE UNCHANGED <<binding, owner>>
  BY <1>0, <1>1 DEF OwnerIsBoundHere
<1>2. ASSUME NEW a \in Anchors, NEW s \in Sessions,
             NEW left \in Sessions \cup {None}, Attach(a, s, left)
      PROVE  Kept
  <2>1. [session |-> s, active |-> TRUE] \in Bindings
    OBVIOUS
  <2>2. binding' \in [Anchors -> Bindings]
    BY <1>0, <1>2, <2>1 DEF Attach
  <2>3. /\ owner' \in [Sessions -> Anchors \cup {None}]
        /\ \A x \in Sessions : owner'[x] \in
             {IF x = s THEN a ELSE IF owner[x] = a THEN None ELSE owner[x], None}
    BY <1>0, <1>2 DEF Attach, OwnerAfter, Detached
  <2>4. /\ \A b \in Anchors \ {a} : binding'[b] = binding[b]
        /\ binding'[a].session = s
    BY <1>0, <1>2 DEF Attach
  <2>5. OwnerIsBoundHere'
    BY <1>0, <2>3, <2>4 DEF OwnerIsBoundHere
  <2> QED
    BY <2>2, <2>3, <2>5
<1>3. ASSUME NEW a \in Anchors, NEW s \in Sessions \cup {None}, Invalidate(a),
             owner' \in {owner, Detached(owner, s)}
      PROVE  Kept
  <2>1. /\ binding' \in [Anchors -> Bindings]
        /\ \A b \in Anchors : binding'[b].session = binding[b].session
    BY <1>0, <1>3 DEF Invalidate
  <2>2. /\ owner' \in [Sessions -> Anchors \cup {None}]
        /\ \A x \in Sessions : owner'[x] \in {owner[x], None}
    BY <1>0, <1>3 DEF Detached
  <2> QED
    BY <1>0, <2>1, <2>2 DEF OwnerIsBoundHere
<1>4. ASSUME NEW s \in Sessions, Cleanup(s)
      PROVE  Kept
  <2>1. /\ binding' \in [Anchors -> Bindings]
        /\ \A b \in Anchors : binding[b].session # s => binding'[b] = binding[b]
    BY <1>0, <1>4 DEF Cleanup
  <2>2. /\ owner' \in [Sessions -> Anchors \cup {None}]
        /\ owner'[s] = None
        /\ \A x \in Sessions \ {s} : owner'[x] = owner[x]
    BY <1>0, <1>4 DEF Cleanup, Detached
  <2> QED
    BY <1>0, <2>1, <2>2 DEF OwnerIsBoundHere
<1>5. CASE /\ binding' = [a \in Anchors |-> Unbound]
           /\ owner' = [s \in Sessions |-> None]
  BY <1>0, <1>5 DEF OwnerIsBoundHere
<1> QED
  BY <1>1, <1>2, <1>3, <1>4, <1>5 DEF MemoryMoves

-----------------------------------------------------------------------------
(* One step of one command. *)

\* What a step may assume of the state before it.
StepFacts == TypeInv /\ TasksKnow /\ RecordsAreTrue

LEMMA BusyTask ==
  ASSUME StepFacts, NEW t \in Tasks, task[t].at # "idle"
  PROVE  /\ task[t] \in TaskRecords
         /\ task[t].anchor \in Anchors /\ task[t].anchor # None
         /\ Entry(t) \in Entries /\ Entry(t) # None
         /\ Visible(t) \subseteq Sessions
         /\ binding[task[t].anchor].session \in Sessions \cup {None}
         /\ \A s \in Visible(t) :
              /\ host[s] # "unborn"
              /\ Entry(t) \notin Natives => maker[s] = Entry(t)
<1>1. task[t] \in TaskRecords /\ task[t].anchor # None
  BY DEF StepFacts, TypeInv, TypeOK
<1>2. task[t].anchor \in Anchors
  BY <1>1 DEF TaskRecords
<1>3. Entry(t) \in Entries /\ Entry(t) # None
  BY <1>2, ChatAssumption DEF ChatAssumption, Entry
<1>4. Visible(t) \subseteq Sessions
  BY <1>1 DEF Visible, TaskRecords
<1>5. binding[task[t].anchor].session \in Sessions \cup {None}
  BY <1>2 DEF StepFacts, TypeInv, TypeOK
<1>6. Knows(task[t], host, maker)
  BY DEF StepFacts, TasksKnow
<1>7. \A s \in Visible(t) :
        /\ host[s] # "unborn"
        /\ Entry(t) \notin Natives => maker[s] = Entry(t)
  BY <1>6 DEF Knows, Visible, Entry
<1> QED
  BY <1>1, <1>2, <1>3, <1>4, <1>5, <1>7

LEMMA EndKept ==
  ASSUME StepFacts, HistoryGrows, NEW t \in Tasks, End(t)
  PROVE  TasksKept
<1>1. Becomes(t, NoTask)
  BY TaskMoves DEF StepFacts, TypeInv
<1>2. NoTask.at = "idle" /\ NoTask.anchor = None
  BY DEF NoTask
<1> QED
  BY <1>1, <1>2, NoTaskKnows, OneTaskMoves DEF StepFacts

LEMMA BeginKept ==
  ASSUME StepFacts, HistoryGrows, NEW t \in Tasks,
         NEW kind \in {"chat", "new", "pick", "create", "close"},
         NEW a \in Anchors, NEW at \in {"reading", "creating", "checking"},
         NEW s \in Sessions \cup {None}, Begin(t, kind, a, at, s)
  PROVE  TasksKept
<1> DEFINE r == NewRecord(at, kind, a, s)
<1>1. Becomes(t, r)
  BY TaskMoves DEF StepFacts, TypeInv
<1>2. r \in TaskRecords /\ r.at # "idle" /\ r.anchor # None
  BY ChatAssumption DEF ChatAssumption, NewRecord, TaskRecords
<1>3. Knows(r, host', maker')
  BY DEF Knows, NewRecord, HasSession
<1> HIDE DEF r
<1> QED
  BY <1>1, <1>2, <1>3, OneTaskMoves DEF StepFacts

LEMMA GotoKept ==
  ASSUME StepFacts, HistoryGrows, NEW t \in Tasks, task[t].at # "idle",
         NEW at \in {"creating", "resolved", "prompting", "undoing",
                     "deleting", "closing"},
         NEW s \in Sessions \cup {None}, Goto(t, at, s),
         at # "creating" => s \in Sessions,
         at \in {"resolved", "prompting"} =>
           /\ host'[s] # "unborn"
           /\ Entry(t) \notin Natives => maker'[s] = Entry(t),
         at = "closing" => host'[s] = "gone"
  PROVE  TasksKept
<1> DEFINE r == Gone(task[t], at, s)
<1>0. task[t] \in TaskRecords /\ task[t].anchor # None
  BY BusyTask
<1>1. Becomes(t, r)
  BY TaskMoves DEF StepFacts, TypeInv
<1>2. /\ r \in TaskRecords
      /\ r.at = at /\ r.session = s /\ r.anchor = task[t].anchor
      /\ r.own = {} /\ r.other = {}
  BY <1>0 DEF Gone, TaskRecords
<1> HIDE DEF r
<1>3. Knows(r, host', maker')
  BY <1>2 DEF Knows, HasSession, Entry
<1> QED
  BY <1>0, <1>1, <1>2, <1>3, OneTaskMoves DEF StepFacts

\* A session that may be chosen, or was just made, is one to chat with.
LEMMA OnwardKept ==
  ASSUME StepFacts, HistoryGrows, NEW t \in Tasks, task[t].at # "idle",
         NEW s \in Sessions, Onward(t, s), host[s] # "unborn",
         Entry(t) \notin Natives => maker[s] = Entry(t)
  PROVE  TasksKept
<1>1. CASE Goto(t, "resolved", s)
  BY <1>1, GotoKept DEF HistoryGrows
<1>2. CASE End(t)
  BY <1>2, EndKept
<1> QED
  BY <1>1, <1>2 DEF Onward

LEMMA WorkKeepsTasks ==
  ASSUME StepFacts, HistoryGrows, NEW t \in Tasks, Work(t)
  PROVE  TasksKept
<1>0. Knows(task[t], host, maker) /\ task[t] \in TaskRecords
  BY DEF StepFacts, TasksKnow, TypeInv
<1>1. CASE Read(t)
  <2> DEFINE listed == {s \in Sessions : host[s] = "alive"}
             mine == {s \in listed : owned[s] = Entry(t)}
             others == IF Entry(t) \in Natives THEN listed \ mine ELSE {}
             r == [task[t] EXCEPT !.at = "choosing", !.own = mine,
                                  !.other = others]
  <2>1. task[t].at = "reading"
    BY <1>1 DEF Read
  <2>2. Becomes(t, r)
    BY <1>1 DEF Read, Becomes, StepFacts, TypeInv
  <2>3. /\ mine \subseteq Sessions /\ others \subseteq Sessions
        /\ \A s \in mine \cup others : host[s] = "alive"
        /\ \A s \in mine : owned[s] = Entry(t)
        /\ Entry(t) \notin Natives => others = {}
    OBVIOUS
  <2> HIDE DEF mine, others
  <2>4. /\ r \in TaskRecords /\ r.at = "choosing" /\ r.own = mine
        /\ r.other = others /\ r.anchor = task[t].anchor
    BY <1>0, <2>3 DEF TaskRecords
  <2> HIDE DEF r
  <2>5. \A s \in mine : maker[s] = Entry(t)
    BY <2>1, <2>3, BusyTask DEF StepFacts, RecordsAreTrue
  <2>6. Knows(r, host', maker')
    BY <2>3, <2>4, <2>5 DEF Knows, HistoryGrows, HasSession, Entry
  <2> QED
    BY <2>1, <2>2, <2>4, <2>6, BusyTask, OneTaskMoves DEF StepFacts
<1>2. CASE Resolve(t)
  <2>1. task[t].at = "choosing"
    BY <1>2 DEF Resolve
  <2>2. CASE Goto(t, "creating", None)
    BY <2>1, <2>2, GotoKept
  <2>3. ASSUME NEW s \in Visible(t), Switch(t, s) PROVE TasksKept
    BY <2>1, <2>3, BusyTask, OnwardKept DEF Switch
  <2> QED
    BY <1>2, <2>2, <2>3 DEF Resolve
<1>3. CASE Pick(t)
  <2>1. task[t].at = "choosing"
    BY <1>3 DEF Pick
  <2>2. ASSUME NEW s \in Visible(t), Switch(t, s) PROVE TasksKept
    BY <2>1, <2>2, BusyTask, OnwardKept DEF Switch
  <2> QED
    BY <1>3, <2>2, EndKept DEF Pick
<1>4. CASE Prompt(t)
  <2>1. /\ task[t].at = "resolved" /\ task[t].session \in Sessions
        /\ Goto(t, "prompting", task[t].session)
        /\ host[task[t].session] # "unborn"
        /\ Entry(t) \notin Natives => maker[task[t].session] = Entry(t)
    BY <1>0, <1>4 DEF Prompt, Knows, HasSession, Entry
  <2> QED
    BY <2>1, GotoKept DEF HistoryGrows
<1>5. CASE SlashNew(t)
  BY <1>5, BusyTask, BeginKept DEF SlashNew
<1>6. CASE SlashSession(t)
  BY <1>6, BusyTask, BeginKept DEF SlashSession
<1>7. ASSUME NEW s \in Sessions, HostCreates(t, s) PROVE TasksKept
  <2> DEFINE l == binding[task[t].anchor].session
             r == [task[t] EXCEPT !.at = "binding", !.session = s, !.left = l]
  <2>1. task[t].at = "creating"
    BY <1>7 DEF HostCreates
  <2>2. Becomes(t, r)
    BY <1>7 DEF HostCreates, Becomes, StepFacts, TypeInv
  <2>3. l \in Sessions \cup {None}
    BY <2>1, BusyTask
  <2> HIDE DEF l
  <2>4. /\ r \in TaskRecords /\ r.at = "binding" /\ r.session = s
        /\ r.own = task[t].own /\ r.other = task[t].other
        /\ r.anchor = task[t].anchor
    BY <1>0, <2>3 DEF TaskRecords
  <2> HIDE DEF r
  <2>5. host'[s] # "unborn" /\ maker'[s] = Entry(t)
    BY <1>7 DEF HostCreates, StepFacts, TypeInv, TypeOK
  <2>6. /\ \A x \in r.own : maker'[x] = Entry(t)
        /\ \A x \in r.own \cup r.other : host'[x] # "unborn"
        /\ Entry(t) \notin Natives => r.other = {}
    BY <1>0, <2>1, <2>4 DEF Knows, HistoryGrows, Entry, TaskRecords
  <2>7. Knows(r, host', maker')
    BY <2>4, <2>5, <2>6 DEF Knows, HasSession, Entry
  <2> QED
    BY <2>1, <2>2, <2>4, <2>7, BusyTask, OneTaskMoves DEF StepFacts
<1>8. CASE Recorded(t)
  <2>1. /\ task[t].at = "binding" /\ task[t].session \in Sessions
        /\ host[task[t].session] # "unborn"
        /\ maker[task[t].session] = Entry(t)
        /\ Onward(t, task[t].session)
    BY <1>0, <1>8 DEF Recorded, Knows, HasSession, Entry
  <2> QED
    BY <2>1, OnwardKept
<1>9. CASE RecordFails(t)
  <2>1. /\ task[t].at = "binding" /\ task[t].session \in Sessions
        /\ Goto(t, "undoing", task[t].session)
    BY <1>0, <1>9 DEF RecordFails, Knows, HasSession
  <2> QED
    BY <2>1, GotoKept
<1>10. CASE CheckPasses(t)
  <2>1. task[t].at = "checking"
    BY <1>10 DEF CheckPasses
  <2>2. CASE /\ binding[task[t].anchor].session # None
             /\ Goto(t, "deleting", binding[task[t].anchor].session)
    BY <2>1, <2>2, BusyTask, GotoKept
  <2> QED
    BY <1>10, <2>2, EndKept DEF CheckPasses
<1>11. CASE Delete(t)
  <2>1. task[t].at = "deleting" /\ task[t].session \in Sessions
    BY <1>0, <1>11 DEF Delete, Knows, HasSession
  <2>2. CASE HostDeletes(task[t].session) /\ Goto(t, "closing", task[t].session)
    <3>1. host'[task[t].session] = "gone"
      BY <2>1, <2>2 DEF HostDeletes, StepFacts, TypeInv, TypeOK
    <3> QED
      BY <2>1, <2>2, <3>1, GotoKept
  <2> QED
    BY <1>11, <2>2, EndKept DEF Delete
<1>12. CASE PromptEnds(t) \/ HostCreateFails(t) \/ Undo(t) \/ CheckFails(t)
            \/ Closed(t)
  BY <1>12, EndKept DEF PromptEnds, HostCreateFails, Undo, CheckFails, Closed
<1> QED
  BY <1>1, <1>2, <1>3, <1>4, <1>5, <1>6, <1>7, <1>8, <1>9, <1>10, <1>11,
     <1>12 DEF Work

LEMMA NextKeepsTasks ==
  ASSUME StepFacts, HistoryGrows, Next
  PROVE  TasksKept
<1>1. CASE UNCHANGED task
  BY <1>1, NoTaskMoves DEF StepFacts
<1>2. ASSUME NEW t \in Tasks, NEW a \in Anchors,
             CreateSession(t, a) \/ Chat(t, a) \/ Close(t, a)
      PROVE  TasksKept
  <2>1. binding[a].session \in Sessions \cup {None}
    BY DEF StepFacts, TypeInv, TypeOK
  <2>2. CASE CreateSession(t, a)
    BY <2>2, BeginKept DEF CreateSession
  <2>3. CASE Chat(t, a)
    BY <2>1, <2>3, BeginKept DEF Chat
  <2>4. CASE Close(t, a)
    BY <2>1, <2>4, BeginKept DEF Close
  <2> QED
    BY <1>2, <2>2, <2>3, <2>4
<1>3. ASSUME NEW t \in Tasks, Work(t) PROVE TasksKept
  BY <1>3, WorkKeepsTasks
<1>4. ASSUME NEW s \in Sessions,
             DeletedEvent(s) \/ Erase(s) \/ UserCreates(s) \/ UserDeletes(s)
      PROVE  TasksKept
  BY <1>1, <1>4 DEF DeletedEvent, Erase, UserCreates, UserDeletes
<1>5. CASE Restart
  <2>1. task' = [t \in Tasks |-> NoTask]
    BY <1>5 DEF Restart
  <2>2. NoTask.at = "idle" /\ NoTask.anchor = None
    BY DEF NoTask
  <2> QED
    BY <2>1, <2>2, NoTaskKnows DEF TasksKept, TasksKnow
<1>6. CASE Corrupt \/ \E a \in Anchors : CreateAnchorOnly(a)
  BY <1>1, <1>6 DEF Corrupt, CreateAnchorOnly
<1> QED
  BY <1>2, <1>3, <1>4, <1>5, <1>6 DEF Next

-----------------------------------------------------------------------------
(* One step of what all commands share. *)

LEMMA NextMemory ==
  ASSUME StepFacts, Next
  PROVE  /\ MemoryMoves
         /\ anchorOnly' \subseteq known' /\ known' \subseteq Anchors
<1> DEFINE Moves == /\ MemoryMoves
                    /\ anchorOnly' \subseteq known' /\ known' \subseteq Anchors
<1>0. anchorOnly \subseteq known /\ known \subseteq Anchors
  BY DEF StepFacts, TypeInv, TypeOK
<1>1. ASSUME NEW t \in Tasks, NEW a \in Anchors,
             CreateSession(t, a) \/ Chat(t, a) \/ Close(t, a)
      PROVE  Moves
  BY <1>0, <1>1 DEF CreateSession, Chat, Close, MemoryMoves
<1>2. ASSUME NEW t \in Tasks, Work(t) PROVE Moves
  <2>0. /\ Knows(task[t], host, maker)
        /\ task[t] \in TaskRecords /\ task[t].left \in Sessions \cup {None}
        /\ task[t].session \in Sessions \cup {None}
    BY DEF StepFacts, TasksKnow, TypeInv, TaskRecords
  <2>1. CASE Read(t) \/ Prompt(t) \/ SlashNew(t) \/ SlashSession(t)
             \/ HostCreateFails(t) \/ RecordFails(t) \/ Undo(t) \/ Delete(t)
             \/ \E s \in Sessions : HostCreates(t, s)
    BY <1>0, <2>1 DEF Read, Prompt, SlashNew, SlashSession, HostCreateFails,
       RecordFails, Undo, Delete, HostCreates, MemoryMoves
  <2>2. ASSUME task[t].at = "choosing", UNCHANGED known,
               NEW s \in Visible(t), Switch(t, s)
        PROVE  Moves
    BY <1>0, <2>2, BusyTask DEF Switch, MemoryMoves
  <2>3. CASE Resolve(t)
    <3>1. CASE UNCHANGED memory
      BY <1>0, <2>3, <3>1 DEF Resolve, memory, MemoryMoves
    <3> QED
      BY <2>2, <2>3, <3>1 DEF Resolve
  <2>4. CASE Pick(t)
    <3>1. CASE UNCHANGED memory
      BY <1>0, <2>4, <3>1 DEF Pick, memory, MemoryMoves
    <3> QED
      BY <2>2, <2>4, <3>1 DEF Pick
  <2>5. CASE PromptEnds(t)
    <3>1. task[t].anchor \in Anchors
      BY <2>5, BusyTask DEF PromptEnds
    <3> QED
      BY <1>0, <2>0, <2>5, <3>1 DEF PromptEnds, MemoryMoves
  <2>6. CASE Recorded(t)
    <3>1. task[t].anchor \in Anchors /\ task[t].session \in Sessions
      BY <2>0, <2>6, BusyTask DEF Recorded, Knows, HasSession
    <3>2. MemoryMoves
      BY <2>0, <2>6, <3>1 DEF Recorded, MemoryMoves
    <3> QED
      BY <1>0, <2>6, <3>1, <3>2 DEF Recorded
  <2>7. CASE CheckFails(t)
    <3>1. task[t].anchor \in Anchors
      BY <2>7, BusyTask DEF CheckFails
    <3> QED
      BY <1>0, <2>0, <2>7, <3>1 DEF CheckFails, MemoryMoves
  <2>8. CASE CheckPasses(t)
    BY <1>0, <2>8 DEF CheckPasses, MemoryMoves
  <2>9. CASE Closed(t)
    BY <1>0, <2>9, BusyTask DEF Closed, MemoryMoves
  <2> QED
    BY <1>2, <2>1, <2>3, <2>4, <2>5, <2>6, <2>7, <2>8, <2>9 DEF Work
<1>3. ASSUME NEW s \in Sessions,
             DeletedEvent(s) \/ Erase(s) \/ UserCreates(s) \/ UserDeletes(s)
      PROVE  Moves
  BY <1>0, <1>3 DEF DeletedEvent, Erase, UserCreates, UserDeletes, MemoryMoves
<1>4. CASE Restart
  BY <1>0, <1>4 DEF Restart, MemoryMoves
<1>5. CASE Corrupt
  BY <1>0, <1>5 DEF Corrupt, MemoryMoves
<1>6. ASSUME NEW a \in Anchors, CreateAnchorOnly(a) PROVE Moves
  BY <1>0, <1>6 DEF CreateAnchorOnly, MemoryMoves
<1> QED
  BY <1>1, <1>2, <1>3, <1>4, <1>5, <1>6 DEF Next

\* What a step may do to the host, the file and what waits to be done to them.
HostMoves ==
  \/ UNCHANGED <<host, deleted, maker>>
  \/ \E s \in Sessions : HostDeletes(s) /\ UNCHANGED maker
  \/ \E s \in Sessions, e \in Entries \cup {None} :
       /\ host[s] = "unborn" /\ host' = [host EXCEPT ![s] = "alive"]
       /\ maker' \in {maker, [maker EXCEPT ![s] = e]}
       /\ UNCHANGED deleted
  \/ deleted' \subseteq deleted /\ UNCHANGED <<host, maker>>
FileMoves ==
  \/ UNCHANGED owned
  \/ \E t \in Tasks :
       /\ task[t].at = "binding"
       /\ owned' = [owned EXCEPT ![task[t].session] = Entry(t)]
  \/ \E s \in erasing : owned' = [owned EXCEPT ![s] = None]
  \/ owned' = [s \in Sessions |-> None] /\ faults' > faults
QueueMoves ==
  /\ erasing' \subseteq Sessions /\ strayed' \subseteq Sessions
  /\ strayed \subseteq strayed'
  /\ \A s \in erasing' : s \in erasing \/ host[s] = "gone" \/ s \in strayed'
FaultsMove == faults' \in faults .. MaxFaults

LEMMA NextStores ==
  ASSUME StepFacts, Next
  PROVE  HostMoves /\ FileMoves /\ QueueMoves /\ FaultsMove
<1> DEFINE Moves == HostMoves /\ FileMoves /\ QueueMoves /\ FaultsMove
<1>0. /\ erasing \subseteq Sessions /\ strayed \subseteq Sessions
      /\ deleted \subseteq Sessions
      /\ faults \in 0 .. MaxFaults /\ MaxFaults \in Nat
  BY ChatAssumption DEF ChatAssumption, StepFacts, TypeInv, TypeOK
<1>1. ASSUME UNCHANGED <<host, owned, deleted, erasing, faults, maker, strayed>>
      PROVE  Moves
  BY <1>0, <1>1 DEF HostMoves, FileMoves, QueueMoves, FaultsMove
<1>2. ASSUME NEW t \in Tasks, Work(t) PROVE Moves
  <2>0. Knows(task[t], host, maker)
    BY DEF StepFacts, TasksKnow
  <2>1. CASE Read(t) \/ Resolve(t) \/ Pick(t) \/ Prompt(t) \/ SlashNew(t)
             \/ SlashSession(t) \/ PromptEnds(t) \/ HostCreateFails(t)
             \/ RecordFails(t) \/ CheckFails(t) \/ CheckPasses(t)
    BY <1>1, <2>1 DEF Read, Resolve, Pick, Prompt, SlashNew, SlashSession,
       PromptEnds, HostCreateFails, RecordFails, CheckFails, CheckPasses
  <2>2. ASSUME NEW s \in Sessions, HostCreates(t, s) PROVE Moves
    <3>1. Entry(t) \in Entries \cup {None}
      BY <2>2, BusyTask DEF HostCreates
    <3>2. /\ host[s] = "unborn" /\ host' = [host EXCEPT ![s] = "alive"]
          /\ maker' = [maker EXCEPT ![s] = Entry(t)] /\ UNCHANGED deleted
      BY <2>2 DEF HostCreates
    <3>3. HostMoves
      BY <3>1, <3>2 DEF HostMoves
    <3>4. UNCHANGED <<owned, erasing, faults, strayed>>
      BY <2>2 DEF HostCreates
    <3> QED
      BY <1>0, <3>3, <3>4 DEF FileMoves, QueueMoves, FaultsMove
  <2>3. CASE Recorded(t)
    <3>1. /\ task[t].at = "binding"
          /\ owned' = [owned EXCEPT ![task[t].session] = Entry(t)]
      BY <2>3 DEF Recorded
    <3>2. FileMoves
      BY <3>1 DEF FileMoves
    <3>3. UNCHANGED <<host, deleted, maker, erasing, faults, strayed>>
      BY <2>3 DEF Recorded
    <3> QED
      BY <1>0, <3>2, <3>3 DEF HostMoves, QueueMoves, FaultsMove
  <2>4. CASE Undo(t)
    <3>1. task[t].session \in Sessions
      BY <2>0, <2>4 DEF Undo, Knows, HasSession
    <3> QED
      BY <1>0, <2>4, <3>1 DEF Undo, HostMoves, FileMoves, QueueMoves, FaultsMove
  <2>5. CASE Delete(t)
    <3>1. task[t].session \in Sessions
      BY <2>0, <2>5 DEF Delete, Knows, HasSession
    <3> QED
      BY <1>0, <2>5, <3>1 DEF Delete, HostMoves, FileMoves, QueueMoves,
         FaultsMove
  <2>6. CASE Closed(t)
    <3> DEFINE s == binding[task[t].anchor].session
    <3>1. s \in Sessions \cup {None} /\ host[task[t].session] = "gone"
      BY <2>0, <2>6, BusyTask DEF Closed, Knows
    <3>2. /\ erasing' \subseteq erasing \cup ({s} \ {None})
          /\ strayed' = IF s \in {None, task[t].session} THEN strayed
                                                         ELSE strayed \cup {s}
          /\ UNCHANGED <<host, owned, deleted, faults, maker>>
      BY <2>6 DEF Closed, Cleanup
    <3> HIDE DEF s
    <3> QED
      BY <1>0, <3>1, <3>2 DEF HostMoves, FileMoves, QueueMoves, FaultsMove
  <2> QED
    BY <1>2, <2>1, <2>2, <2>3, <2>4, <2>5, <2>6 DEF Work
<1>3. ASSUME NEW t \in Tasks, NEW a \in Anchors,
             CreateSession(t, a) \/ Chat(t, a) \/ Close(t, a)
      PROVE  Moves
  BY <1>1, <1>3 DEF CreateSession, Chat, Close
<1>4. ASSUME NEW s \in Sessions,
             DeletedEvent(s) \/ Erase(s) \/ UserCreates(s) \/ UserDeletes(s)
      PROVE  Moves
  <2>1. CASE DeletedEvent(s)
    <3>1. host[s] = "gone"
      BY <2>1 DEF DeletedEvent, StepFacts, RecordsAreTrue
    <3> QED
      BY <1>0, <2>1, <3>1 DEF DeletedEvent, Cleanup, HostMoves, FileMoves,
         QueueMoves, FaultsMove
  <2>2. CASE Erase(s)
    <3>1. /\ s \in erasing /\ erasing' \subseteq erasing
          /\ owned' = [owned EXCEPT ![s] = None]
          /\ UNCHANGED <<host, deleted, maker, faults, strayed>>
      BY <2>2 DEF Erase
    <3>2. FileMoves
      BY <3>1 DEF FileMoves
    <3> QED
      BY <1>0, <3>1, <3>2 DEF HostMoves, QueueMoves, FaultsMove
  <2>3. CASE UserCreates(s) \/ UserDeletes(s)
    <3>1. UNCHANGED <<owned, erasing, faults, strayed>>
      BY <2>3 DEF UserCreates, UserDeletes
    <3>2. UserDeletes(s) => HostMoves
      BY DEF UserDeletes, HostMoves
    <3>3. ASSUME UserCreates(s) PROVE HostMoves
      <4>1. /\ host[s] = "unborn" /\ host' = [host EXCEPT ![s] = "alive"]
            /\ maker' \in {maker, [maker EXCEPT ![s] = None]}
            /\ UNCHANGED deleted
        BY <3>3 DEF UserCreates
      <4>2. None \in Entries \cup {None}
        OBVIOUS
      <4> QED
        BY <4>1, <4>2 DEF HostMoves
    <3> QED
      BY <1>0, <2>3, <3>1, <3>2, <3>3 DEF FileMoves, QueueMoves, FaultsMove
  <2> QED
    BY <1>4, <2>1, <2>2, <2>3
<1>5. CASE Restart
  BY <1>0, <1>5 DEF Restart, HostMoves, FileMoves, QueueMoves, FaultsMove
<1>6. CASE Corrupt
  BY <1>0, <1>6 DEF Corrupt, HostMoves, FileMoves, QueueMoves, FaultsMove
<1>7. ASSUME NEW a \in Anchors, CreateAnchorOnly(a) PROVE Moves
  BY <1>1, <1>7 DEF CreateAnchorOnly
<1> QED
  BY <1>2, <1>3, <1>4, <1>5, <1>6, <1>7 DEF Next

LEMMA StoresKeep ==
  ASSUME StepFacts, HistoryGrows, HostMoves, FileMoves, QueueMoves, FaultsMove
  PROVE  /\ host' \in [Sessions -> {"unborn", "alive", "gone"}]
         /\ owned' \in [Sessions -> Entries \cup {None}]
         /\ maker' \in [Sessions -> Entries \cup {None}]
         /\ deleted' \subseteq Sessions /\ erasing' \subseteq Sessions
         /\ strayed' \subseteq Sessions
         /\ faults' \in 0 .. MaxFaults
         /\ RecordsAreTrue'
<1>0. /\ host \in [Sessions -> {"unborn", "alive", "gone"}]
      /\ owned \in [Sessions -> Entries \cup {None}]
      /\ maker \in [Sessions -> Entries \cup {None}]
      /\ deleted \subseteq Sessions /\ erasing \subseteq Sessions
      /\ faults \in 0 .. MaxFaults
  BY DEF StepFacts, TypeInv, TypeOK
<1>1. /\ host' \in [Sessions -> {"unborn", "alive", "gone"}]
      /\ maker' \in [Sessions -> Entries \cup {None}]
      /\ deleted' \subseteq Sessions
      /\ \A s \in Sessions : /\ maker'[s] = maker[s] \/ host'[s] # "unborn"
                             /\ s \in deleted' => s \in deleted \/ host'[s] = "gone"
  BY <1>0 DEF HostMoves, HostDeletes
<1>2. /\ owned' \in [Sessions -> Entries \cup {None}]
      /\ \A s \in Sessions :
           \/ owned'[s] \in {owned[s], None}
           \/ owned'[s] = maker[s] /\ host[s] # "unborn"
  <2>1. ASSUME NEW t \in Tasks, task[t].at = "binding",
               owned' = [owned EXCEPT ![task[t].session] = Entry(t)]
        PROVE  /\ owned' \in [Sessions -> Entries \cup {None}]
               /\ \A s \in Sessions :
                    \/ owned'[s] \in {owned[s], None}
                    \/ owned'[s] = maker[s] /\ host[s] # "unborn"
    <3>1. /\ host[task[t].session] # "unborn"
          /\ maker[task[t].session] = Entry(t)
          /\ Entry(t) \in Entries
      BY <2>1, BusyTask DEF StepFacts, TasksKnow, Knows, Entry
    <3> QED
      BY <1>0, <2>1, <3>1
  <2>2. CASE UNCHANGED owned
    BY <1>0, <2>2
  <2>3. CASE \E s \in erasing : owned' = [owned EXCEPT ![s] = None]
    BY <1>0, <2>3
  <2>4. CASE owned' = [s \in Sessions |-> None]
    BY <1>0, <2>4
  <2> QED
    BY <2>1, <2>2, <2>3, <2>4 DEF FileMoves
<1>3. ASSUME NEW s \in Sessions
      PROVE  /\ owned'[s] # None => maker'[s] = owned'[s]
             /\ maker'[s] # None => host'[s] # "unborn"
             /\ s \in erasing' => host'[s] = "gone" \/ s \in strayed'
             /\ s \in deleted' => host'[s] = "gone"
  <2>0. /\ owned[s] # None => maker[s] = owned[s]
        /\ maker[s] # None => host[s] # "unborn"
        /\ s \in erasing => host[s] = "gone" \/ s \in strayed
        /\ s \in deleted => host[s] = "gone"
    BY DEF StepFacts, RecordsAreTrue
  <2>1. /\ host[s] # "unborn" => host'[s] # "unborn" /\ maker'[s] = maker[s]
        /\ host[s] = "gone" => host'[s] = "gone"
    BY DEF HistoryGrows
  <2> QED
    BY <1>1, <1>2, <2>0, <2>1 DEF QueueMoves
<1>4. faults' \in 0 .. MaxFaults
  BY <1>0, ChatAssumption DEF ChatAssumption, FaultsMove
<1> QED
  BY <1>1, <1>2, <1>3, <1>4 DEF QueueMoves, RecordsAreTrue

-----------------------------------------------------------------------------
(* No session is left behind. *)

\* Whoever makes a session for an entry has it in hand until it is recorded or
\* deleted again.
InHand(s) == \E t \in Tasks : /\ task[t].session = s
                              /\ task[t].at \in {"binding", "undoing"}

\* A session in hand leaves it with a record, deleted, or by a fault.
LEMMA HandsOver ==
  ASSUME StepFacts, Next, UNCHANGED faults, NEW s \in Sessions, InHand(s)
  PROVE  InHand(s)' \/ host'[s] = "gone" \/ owned'[s] # None
<1>1. PICK t \in Tasks : /\ task[t].session = s
                         /\ task[t].at \in {"binding", "undoing"}
  BY DEF InHand
<1>2. /\ task \in [Tasks -> TaskRecords] /\ task[t] \in TaskRecords
      /\ faults \in Nat
      /\ host \in [Sessions -> {"unborn", "alive", "gone"}]
      /\ owned \in [Sessions -> Entries \cup {None}]
  BY ChatAssumption DEF ChatAssumption, StepFacts, TypeInv, TypeOK
<1>3. CASE task'[t] = task[t]
  BY <1>1, <1>3 DEF InHand
<1>4. CASE Recorded(t)
  <2>1. Entry(t) # None
    BY <1>4, BusyTask DEF Recorded
  <2> QED
    BY <1>1, <1>2, <1>4, <2>1 DEF Recorded
<1>5. CASE RecordFails(t)
  <2>1. task'[t].at = "undoing" /\ task'[t].session = s
    BY <1>1, <1>2, <1>5 DEF RecordFails, Goto, TaskRecords
  <2> QED
    BY <2>1 DEF InHand
<1>6. CASE Undo(t)
  BY <1>1, <1>2, <1>6 DEF Undo, HostDeletes
<1>7. ASSUME NEW u \in Tasks, Work(u)
      PROVE  task'[t] = task[t] \/ Recorded(t) \/ RecordFails(t) \/ Undo(t)
  <2>1. CASE u # t
    <3>1. \A at, kind, a, x :
            /\ Begin(u, kind, a, at, x) => task'[t] = task[t]
            /\ Goto(u, at, x) => task'[t] = task[t]
            /\ End(u) => task'[t] = task[t]
      BY <1>2, <2>1 DEF Begin, Goto, End
    <3>2. ASSUME NEW x, Onward(u, x) PROVE task'[t] = task[t]
      BY <3>1, <3>2 DEF Onward
    <3>3. Read(u) => task'[t] = task[t]
      BY <1>2, <2>1 DEF Read
    <3>4. Resolve(u) \/ Pick(u) => task'[t] = task[t]
      BY <3>1, <3>2 DEF Resolve, Pick, Switch
    <3>5. (\E x \in Sessions : HostCreates(u, x)) => task'[t] = task[t]
      BY <1>2, <2>1 DEF HostCreates
    <3>6. Prompt(u) \/ SlashNew(u) \/ SlashSession(u) \/ PromptEnds(u)
          \/ HostCreateFails(u) \/ RecordFails(u) \/ Undo(u)
            => task'[t] = task[t]
      BY <3>1 DEF Prompt, SlashNew, SlashSession, PromptEnds, HostCreateFails,
         RecordFails, Undo
    <3>7. Recorded(u) \/ CheckFails(u) \/ CheckPasses(u) \/ Delete(u)
          \/ Closed(u) => task'[t] = task[t]
      BY <3>1, <3>2 DEF Recorded, CheckFails, CheckPasses, Delete, Closed
    <3> QED
      BY <1>7, <3>3, <3>4, <3>5, <3>6, <3>7 DEF Work
  <2>2. CASE u = t
    BY <1>1, <1>7, <2>2 DEF Work, Read, Resolve, Pick, Prompt, SlashNew,
       SlashSession, PromptEnds, HostCreates, HostCreateFails, CheckFails,
       CheckPasses, Delete, Closed
  <2> QED
    BY <2>1, <2>2
<1>8. ASSUME NEW u \in Tasks, NEW a \in Anchors,
             CreateSession(u, a) \/ Chat(u, a) \/ Close(u, a)
      PROVE  task'[t] = task[t]
  BY <1>1, <1>2, <1>8 DEF CreateSession, Chat, Close, Begin
<1>9. ASSUME NEW x \in Sessions,
             DeletedEvent(x) \/ Erase(x) \/ UserCreates(x) \/ UserDeletes(x)
      PROVE  task'[t] = task[t]
  BY <1>9 DEF DeletedEvent, Erase, UserCreates, UserDeletes
<1>10. ~Restart /\ ~Corrupt
  BY <1>2 DEF Restart, Corrupt
<1>11. ASSUME NEW a \in Anchors, CreateAnchorOnly(a) PROVE task'[t] = task[t]
  BY <1>11 DEF CreateAnchorOnly
<1> QED
  BY <1>3, <1>4, <1>5, <1>6, <1>7, <1>8, <1>9, <1>10, <1>11 DEF Next

\* A session an entry gets is in hand.
LEMMA NewIsInHand ==
  ASSUME StepFacts, Next, NEW s \in Sessions, maker[s] = None, maker'[s] # None
  PROVE  InHand(s)'
<1>1. PICK t \in Tasks, x \in Sessions : HostCreates(t, x)
  BY DEF Next, CreateAnchorOnly, CreateSession, Chat, Close, Work, Read,
     Resolve, Pick, Prompt, SlashNew, SlashSession, PromptEnds,
     HostCreateFails, Recorded, RecordFails, Undo, CheckFails, CheckPasses,
     Delete, Closed, DeletedEvent, Erase, UserCreates, UserDeletes, Restart,
     Corrupt
<1>2. x = s
  BY <1>1 DEF HostCreates, StepFacts, TypeInv
<1>3. task'[t].at = "binding" /\ task'[t].session = s
  BY <1>1, <1>2 DEF HostCreates, StepFacts, TypeInv, TaskRecords
<1> QED
  BY <1>3 DEF InHand

LEMMA NoOrphansKept ==
  ASSUME StepFacts, HistoryGrows, NoOrphans, Next
  PROVE  NoOrphans'
<1>1. HostMoves /\ FileMoves /\ QueueMoves /\ FaultsMove
  BY NextStores
<1>2. faults \in Nat /\ MaxFaults \in Nat
  BY ChatAssumption DEF ChatAssumption, StepFacts, TypeInv, TypeOK
<1> SUFFICES ASSUME NEW s \in Sessions, host'[s] = "alive", maker'[s] # None,
                    owned'[s] = None, s \notin strayed', ~(faults' > 0)
             PROVE  InHand(s)'
  BY DEF NoOrphans, InHand
<1>3. UNCHANGED faults /\ faults = 0 /\ s \notin strayed
  BY <1>1, <1>2 DEF FaultsMove, QueueMoves
<1>4. CASE maker[s] = None
  BY <1>4, NewIsInHand
<1>5. CASE maker[s] # None
  <2>1. host[s] = "alive"
    BY <1>5 DEF StepFacts, TypeInv, TypeOK, RecordsAreTrue, HistoryGrows
  <2>2. CASE owned[s] = None
    <3>1. InHand(s)
      BY <1>3, <1>5, <2>1, <2>2 DEF NoOrphans, InHand
    <3> QED
      BY <1>3, <3>1, HandsOver
  <2>3. CASE owned[s] # None
    <3>1. s \notin erasing
      BY <1>3, <2>1 DEF StepFacts, RecordsAreTrue
    <3>2. ASSUME NEW t \in Tasks, task[t].at = "binding",
                 owned' = [owned EXCEPT ![task[t].session] = Entry(t)]
          PROVE  owned'[s] # None
      BY <2>3, <3>2, BusyTask DEF StepFacts, TypeInv, TypeOK
    <3>3. owned'[s] # None
      BY <1>1, <1>2, <1>3, <2>3, <3>1, <3>2
      DEF FileMoves, StepFacts, TypeInv, TypeOK
    <3> QED
      BY <3>3
  <2> QED
    BY <2>2, <2>3
<1> QED
  BY <1>4, <1>5

-----------------------------------------------------------------------------
(* The invariant, and what it gives. *)

LEMMA NextChatInv == ChatInv /\ [Next]_vars => ChatInv'
<1> SUFFICES ASSUME ChatInv, [Next]_vars PROVE ChatInv'
  OBVIOUS
<1>0. StepFacts
  BY DEF ChatInv, StepFacts
<1>1. CASE UNCHANGED vars
  <2>1. TypeInv'
    BY <1>1 DEF vars, ChatInv, TypeInv, TypeOK
  <2>2. TasksKnow' /\ RecordsAreTrue' /\ OwnerIsBoundHere' /\ NoOrphans'
    BY <1>1 DEF vars, ChatInv, TasksKnow, RecordsAreTrue, OwnerIsBoundHere,
       NoOrphans
  <2> QED
    BY <2>1, <2>2 DEF ChatInv
<1>2. CASE Next
  <2>1. HistoryGrows
    BY <1>0, <1>2, NextGrows DEF StepFacts
  <2>2. TasksKept
    BY <1>0, <1>2, <2>1, NextKeepsTasks
  <2>3. /\ MemoryMoves
        /\ anchorOnly' \subseteq known' /\ known' \subseteq Anchors
    BY <1>0, <1>2, NextMemory
  <2>4. /\ binding' \in [Anchors -> [session : Sessions \cup {None}, active : BOOLEAN]]
        /\ owner' \in [Sessions -> Anchors \cup {None}]
        /\ OwnerIsBoundHere'
    BY <2>3, MemoryKeeps DEF ChatInv
  <2>5. /\ host' \in [Sessions -> {"unborn", "alive", "gone"}]
        /\ owned' \in [Sessions -> Entries \cup {None}]
        /\ maker' \in [Sessions -> Entries \cup {None}]
        /\ deleted' \subseteq Sessions /\ erasing' \subseteq Sessions
        /\ strayed' \subseteq Sessions
        /\ faults' \in 0 .. MaxFaults
        /\ RecordsAreTrue'
    BY <1>0, <1>2, <2>1, NextStores, StoresKeep
  <2>6. NoOrphans'
    BY <1>0, <1>2, <2>1, NoOrphansKept DEF ChatInv
  <2>7. \A t \in Tasks : task'[t] \in TaskRecords
    BY <2>2 DEF TasksKept
  <2>8. TypeOK'
    BY <2>2, <2>3, <2>4, <2>5, <2>7 DEF TypeOK, TasksKept, TaskRecords
  <2> QED
    BY <2>2, <2>4, <2>5, <2>6, <2>8 DEF ChatInv, TypeInv, TasksKept
<1> QED
  BY <1>1, <1>2

LEMMA InitChatInv == Init => ChatInv
<1> SUFFICES ASSUME Init PROVE ChatInv
  OBVIOUS
<1>1. NoTask.at = "idle" /\ NoTask.anchor = None /\ NoTask.kind = "chat"
  BY DEF NoTask
<1>2. task \in [Tasks -> TaskRecords] /\ TasksKnow
  BY NoTaskKnows DEF Init, TasksKnow
<1>3. Unbound \in [session : Sessions \cup {None}, active : BOOLEAN]
  BY DEF Unbound
<1>4. TypeOK
  BY <1>1, <1>3, ChatAssumption DEF ChatAssumption, Init, TypeOK
<1>5. RecordsAreTrue /\ OwnerIsBoundHere /\ NoOrphans
  BY DEF Init, RecordsAreTrue, OwnerIsBoundHere, NoOrphans
<1> QED
  BY <1>2, <1>4, <1>5 DEF Init, ChatInv, TypeInv

LEMMA ChatInvariant == Spec => []ChatInv
  BY InitChatInv, NextChatInv, PTL DEF Spec

\* The events of a session go to an anchor bound to that session, however
\* creations, switches, deletions and closings overtake one another.
THEOREM OwnersAreBound == Spec => []OwnerIsBoundHere
<1>1. ChatInv => OwnerIsBoundHere
  BY DEF ChatInv
<1> QED
  BY <1>1, ChatInvariant, PTL

\* A chat of an entry that may not see native sessions lands in a session made
\* for that entry, whatever happened since the sessions were listed.
THEOREM ChatsStayHome == Spec => []ControlledStaysHome
<1>1. ASSUME ChatInv, NEW t \in Tasks,
             task[t].at \in {"resolved", "prompting"}, Entry(t) \notin Natives
      PROVE  maker[task[t].session] = Entry(t)
  BY <1>1 DEF ChatInv, TasksKnow, Knows, Entry
<1>2. ChatInv => ControlledStaysHome
  BY <1>1 DEF ControlledStaysHome
<1> QED
  BY <1>2, ChatInvariant, PTL

\* Without a fault no session made for an entry is left without a record, but
\* the one that close_session forgot in another one's place.
THEOREM SessionsAreNotOrphaned == Spec => []NoOrphans
<1>1. ChatInv => NoOrphans
  BY DEF ChatInv
<1> QED
  BY <1>1, ChatInvariant, PTL

\* A record goes only with its session, with the file, or in the one race.
LEMMA RecordGoesWithSession ==
  ASSUME ChatInv, Next, NEW s \in Sessions, owned[s] # None, owned'[s] = None
  PROVE  host[s] = "gone" \/ s \in strayed \/ faults' > faults
<1>0. StepFacts
  BY DEF ChatInv, StepFacts
<1>1. FileMoves
  BY <1>0, NextStores
<1>2. s \in erasing => host[s] = "gone" \/ s \in strayed
  BY <1>0 DEF StepFacts, RecordsAreTrue
<1>3. ASSUME NEW t \in Tasks, task[t].at = "binding",
             owned' = [owned EXCEPT ![task[t].session] = Entry(t)]
      PROVE  FALSE
  BY <1>0, <1>3, BusyTask DEF StepFacts, TypeInv, TypeOK
<1> QED
  BY <1>0, <1>1, <1>2, <1>3 DEF FileMoves, StepFacts, TypeInv, TypeOK

\* The record of a session outlives every race but one.
THEOREM RecordsLast == Spec => RecordsOutlive
<1> DEFINE Outlives ==
      \A s \in Sessions :
        owned[s] # None /\ owned'[s] = None
          => host[s] = "gone" \/ s \in strayed \/ faults' > faults
<1>1. ChatInv /\ [Next]_vars => [Outlives]_vars
  BY RecordGoesWithSession
<1> QED
  BY <1>1, ChatInvariant, PTL DEF Spec, RecordsOutlive
=============================================================================
