---------------------------- MODULE ChatSessions ----------------------------
(***************************************************************************)
(* The chat control plane of message-bridge and the sessions it owns.      *)
(*                                                                         *)
(* A chat comes from an anchor (a toolSessionId of the gateway) on behalf  *)
(* of a business entry.  The plugin decides which OpenCode session it goes *)
(* to: it keeps, in memory, which session each anchor is bound to and      *)
(* which anchor owns the events of each session; and, in a file, which     *)
(* entry each session was created for.  Chats, create_session,             *)
(* close_session and the host's own events run interleaved: what is read   *)
(* from the file or asked of the host may be stale when it is used.        *)
(*                                                                         *)
(* Awaits on memory alone run to completion before anything else does, so  *)
(* a switch of binding and owner is one step; the host's answers and the   *)
(* file's are steps of their own.                                          *)
(***************************************************************************)
EXTENDS Naturals, FiniteSets

CONSTANTS Anchors,      \* toolSessionIds
          Entries,      \* business entries
          EntryOf,      \* the entry on whose behalf an anchor chats
          Natives,      \* the entries that may see sessions nobody owns
          Sessions,     \* OpenCode sessions, born at most once each
          Tasks,        \* commands in progress at the same time
          MaxFaults,    \* crashes, corrupted files and failed deletions
          None

ASSUME ChatAssumption ==
  /\ EntryOf \in [Anchors -> Entries]
  /\ Natives \subseteq Entries
  /\ MaxFaults \in Nat
  /\ None \notin Anchors \cup Entries \cup Sessions

VARIABLES
  host,        \* session -> "unborn", "alive" or "gone" at the host
  owned,       \* the file: session -> the entry that owns it, or None
  binding,     \* anchor -> the session it is bound to and whether it still is
  owner,       \* session -> the anchor that receives its events, or None
  anchorOnly,  \* anchors created without a session
  known,       \* anchors the gateway has been told of
  task,        \* the commands in progress
  deleted,     \* deletions the host has not reported yet
  erasing,     \* records waiting in the file's queue to be erased
  faults,      \* faults so far
  maker,       \* history: the entry a session was created for
  strayed      \* history: sessions forgotten in another one's place

vars == <<host, owned, binding, owner, anchorOnly, known, task, deleted,
          erasing, faults, maker, strayed>>
memory == <<binding, owner, anchorOnly>>

NoTask == [at |-> "idle", kind |-> "chat", anchor |-> None, session |-> None,
           own |-> {}, other |-> {}, left |-> None]
Unbound == [session |-> None, active |-> FALSE]

TypeOK ==
  /\ host \in [Sessions -> {"unborn", "alive", "gone"}]
  /\ owned \in [Sessions -> Entries \cup {None}]
  /\ binding \in [Anchors -> [session : Sessions \cup {None}, active : BOOLEAN]]
  /\ owner \in [Sessions -> Anchors \cup {None}]
  /\ anchorOnly \subseteq known /\ known \subseteq Anchors
  /\ \A t \in Tasks :
       /\ task[t].at \in {"idle", "reading", "choosing", "creating", "binding",
                          "undoing", "resolved", "prompting", "checking",
                          "deleting", "closing"}
       /\ task[t].kind \in {"chat", "new", "pick", "create", "close"}
       /\ (task[t].at = "idle") = (task[t].anchor = None)
  /\ deleted \subseteq Sessions /\ erasing \subseteq Sessions
  /\ faults \in 0..MaxFaults

Init ==
  /\ host = [s \in Sessions |-> "unborn"]
  /\ owned = [s \in Sessions |-> None]
  /\ binding = [a \in Anchors |-> Unbound]
  /\ owner = [s \in Sessions |-> None]
  /\ anchorOnly = {} /\ known = {}
  /\ task = [t \in Tasks |-> NoTask]
  /\ deleted = {} /\ erasing = {} /\ faults = 0
  /\ maker = [s \in Sessions |-> None]
  /\ strayed = {}

-----------------------------------------------------------------------------
(* The two stores in memory.                                               *)

Entry(t) == EntryOf[task[t].anchor]
Begin(t, kind, a, at, s) ==
  task' = [task EXCEPT ![t] = [NoTask EXCEPT !.at = at, !.kind = kind,
                                             !.anchor = a, !.session = s]]
Goto(t, at, s) ==
  task' = [task EXCEPT ![t].at = at, ![t].session = s,
                       ![t].own = {}, ![t].other = {}]
End(t) == task' = [task EXCEPT ![t] = NoTask]

(* An anchor owns the events of one session: attaching it to s detaches it *)
(* from any other.                                                         *)
OwnerAfter(a, s) ==
  [x \in Sessions |-> IF x = s THEN a ELSE IF owner[x] = a THEN None
                                                            ELSE owner[x]]
Detached(own, s) == [x \in Sessions |-> IF x = s THEN None ELSE own[x]]

(* A slip: only the session last read is detached.                         *)
AttachWithoutSweep(a, s, left) ==
  /\ binding' = [binding EXCEPT ![a] = [session |-> s, active |-> TRUE]]
  /\ owner' = [x \in Sessions |-> IF x = s THEN a
                                 ELSE IF x = left THEN None ELSE owner[x]]

(* Bind the anchor to s and make it the owner of its events; the session   *)
(* `left`, the one it was seen bound to, loses its owner, whoever that is. *)
Attach(a, s, left) ==
  /\ binding' = [binding EXCEPT ![a] = [session |-> s, active |-> TRUE]]
  /\ owner' = IF left \in {None, s} THEN OwnerAfter(a, s)
                                    ELSE Detached(OwnerAfter(a, s), left)

Invalidate(a) == binding' = [binding EXCEPT ![a].active = FALSE]

(* Forget a session: every binding to it and its owner at once, its record *)
(* when the file's queue comes to it.                                      *)
Cleanup(s) ==
  /\ binding' = [a \in Anchors |-> IF binding[a].session = s THEN Unbound
                                                              ELSE binding[a]]
  /\ owner' = Detached(owner, s)
  /\ erasing' = erasing \cup {s}

-----------------------------------------------------------------------------
(* create_session.                                                         *)

(* Without a business entry only the anchor is made.                       *)
CreateAnchorOnly(a) ==
  /\ a \notin known /\ \A t \in Tasks : task[t].anchor # a
  /\ known' = known \cup {a}
  /\ anchorOnly' = anchorOnly \cup {a}
  /\ UNCHANGED <<host, owned, binding, owner, task, deleted, erasing, faults,
                 maker, strayed>>

CreateSession(t, a) ==
  /\ task[t].at = "idle"
  /\ a \notin known /\ \A u \in Tasks : task[u].anchor # a
  /\ Begin(t, "create", a, "creating", None)
  /\ UNCHANGED <<host, owned, binding, owner, anchorOnly, known, deleted,
                 erasing, faults, maker, strayed>>

-----------------------------------------------------------------------------
(* A chat: which sessions may it see, and which one does it take?          *)

Chat(t, a) ==
  /\ task[t].at = "idle" /\ a \in known
  /\ Begin(t, "chat", a, "reading",
           IF binding[a].active THEN binding[a].session ELSE None)
  /\ UNCHANGED <<host, owned, binding, owner, anchorOnly, known, deleted,
                 erasing, faults, maker, strayed>>

(* A slip: the policy of the entry is not asked.                           *)
ReadWithoutPolicy(t) ==
  LET listed == {s \in Sessions : host[s] = "alive"}
      own == {s \in listed : owned[s] = Entry(t)}
  IN  /\ task[t].at = "reading"
      /\ task' = [task EXCEPT ![t].at = "choosing", ![t].own = own,
                              ![t].other = listed \ own]
      /\ UNCHANGED <<host, owned, binding, owner, anchorOnly, known, deleted,
                     erasing, faults, maker, strayed>>

(* The file and the host's list: the sessions of this entry, and those     *)
(* that may turn out to be nobody's.                                       *)
Read(t) ==
  LET listed == {s \in Sessions : host[s] = "alive"}
      own == {s \in listed : owned[s] = Entry(t)}
  IN  /\ task[t].at = "reading"
      /\ task' = [task EXCEPT ![t].at = "choosing", ![t].own = own,
                    ![t].other = IF Entry(t) \in Natives THEN listed \ own
                                                         ELSE {}]
      /\ UNCHANGED <<host, owned, binding, owner, anchorOnly, known, deleted,
                     erasing, faults, maker, strayed>>

(* The entry's own sessions and, where its policy allows, those the file,  *)
(* looked at once more, knows no owner of.                                 *)
Visible(t) == task[t].own \cup {s \in task[t].other : owned[s] = None}

(* A chat goes on to be classified; /new and /session end here.            *)
Onward(t, s) == IF task[t].kind = "chat" THEN Goto(t, "resolved", s) ELSE End(t)

Switch(t, s) ==
  LET a == task[t].anchor
  IN  /\ Attach(a, s, binding[a].session)
      /\ anchorOnly' = anchorOnly \ {a}
      /\ Onward(t, s)

(* The session the anchor was bound to, if still visible; else one of the  *)
(* visible ones, in the host's order; else a new one.                      *)
Resolve(t) ==
  /\ task[t].at = "choosing" /\ task[t].kind = "chat"
  /\ LET a == task[t].anchor
         s == task[t].session
     IN  \/ /\ s \in Visible(t)
            /\ Switch(t, s)
         \/ /\ s \notin Visible(t) /\ a \notin anchorOnly
            /\ \E x \in Visible(t) : Switch(t, x)
         \/ /\ s \notin Visible(t)
            /\ a \in anchorOnly \/ Visible(t) = {}
            /\ Goto(t, "creating", None)
            /\ UNCHANGED memory
  /\ UNCHANGED <<host, owned, known, deleted, erasing, faults, maker, strayed>>

(* The message, classified: a prompt is queued on the session; /new makes  *)
(* another; /session looks again at what is visible.                       *)
Prompt(t) ==
  /\ task[t].at = "resolved"
  /\ Goto(t, "prompting", task[t].session)
  /\ UNCHANGED <<host, owned, binding, owner, anchorOnly, known, deleted,
                 erasing, faults, maker, strayed>>

SlashNew(t) ==
  /\ task[t].at = "resolved"
  /\ Begin(t, "new", task[t].anchor, "creating", None)
  /\ UNCHANGED <<host, owned, binding, owner, anchorOnly, known, deleted,
                 erasing, faults, maker, strayed>>

SlashSession(t) ==
  /\ task[t].at = "resolved" /\ Entry(t) \in Natives
  /\ Begin(t, "pick", task[t].anchor, "reading", None)
  /\ UNCHANGED <<host, owned, binding, owner, anchorOnly, known, deleted,
                 erasing, faults, maker, strayed>>

(* The session asked for must be visible; otherwise it is out of scope.    *)
Pick(t) ==
  /\ task[t].at = "choosing" /\ task[t].kind = "pick"
  /\ \/ \E s \in Visible(t) : Switch(t, s)
     \/ End(t) /\ UNCHANGED memory
  /\ UNCHANGED <<host, owned, known, deleted, erasing, faults, maker, strayed>>

(* The prompt's answer; the binding is given up when the lookup before the *)
(* prompt found the session gone and the anchor has not moved on.  A       *)
(* session that goes after the lookup keeps its binding.                   *)
PromptEnds(t) ==
  LET a == task[t].anchor
      s == task[t].session
  IN  /\ task[t].at = "prompting"
      /\ \/ /\ host[s] = "gone" /\ binding[a].session = s
            /\ Invalidate(a) /\ owner' = Detached(owner, s)
         \/ UNCHANGED <<binding, owner>>
      /\ End(t)
      /\ UNCHANGED <<host, owned, anchorOnly, known, deleted, erasing, faults,
                     maker, strayed>>

-----------------------------------------------------------------------------
(* Creating a session: the host, then the file, then the binding.          *)

HostCreates(t, s) ==
  /\ task[t].at = "creating" /\ host[s] = "unborn"
  /\ host' = [host EXCEPT ![s] = "alive"]
  /\ maker' = [maker EXCEPT ![s] = Entry(t)]
  /\ task' = [task EXCEPT ![t].at = "binding", ![t].session = s,
                           ![t].left = binding[task[t].anchor].session]
  /\ UNCHANGED <<owned, binding, owner, anchorOnly, known, deleted, erasing,
                 faults, strayed>>

HostCreateFails(t) ==
  /\ task[t].at = "creating"
  /\ End(t)
  /\ UNCHANGED <<host, owned, binding, owner, anchorOnly, known, deleted,
                 erasing, faults, maker, strayed>>

Recorded(t) ==
  LET a == task[t].anchor
      s == task[t].session
  IN  /\ task[t].at = "binding"
      /\ owned' = [owned EXCEPT ![s] = Entry(t)]
      /\ Attach(a, s, task[t].left)
      /\ anchorOnly' = anchorOnly \ {a}
      /\ known' = known \cup {a}
      /\ Onward(t, s)
      /\ UNCHANGED <<host, deleted, erasing, faults, maker, strayed>>

(* A slip: the error is passed on and the session left where it is.        *)
RecordFailsQuietly(t) ==
  /\ task[t].at = "binding"
  /\ End(t)
  /\ UNCHANGED <<host, owned, binding, owner, anchorOnly, known, deleted,
                 erasing, faults, maker, strayed>>

(* The file cannot be written: the session is deleted again, if possible.  *)
RecordFails(t) ==
  /\ task[t].at = "binding"
  /\ Goto(t, "undoing", task[t].session)
  /\ UNCHANGED <<host, owned, binding, owner, anchorOnly, known, deleted,
                 erasing, faults, maker, strayed>>

HostDeletes(s) ==
  /\ host' = [host EXCEPT ![s] = "gone"]
  /\ deleted' = IF host[s] = "alive" THEN deleted \cup {s} ELSE deleted

Undo(t) ==
  /\ task[t].at = "undoing"
  /\ \/ HostDeletes(task[t].session) /\ UNCHANGED faults
     \/ faults < MaxFaults /\ faults' = faults + 1 /\ UNCHANGED <<host, deleted>>
  /\ End(t)
  /\ UNCHANGED <<owned, binding, owner, anchorOnly, known, erasing, maker,
                 strayed>>

-----------------------------------------------------------------------------
(* close_session: the host is asked whether the session exists, then to    *)
(* delete it; what the anchor is bound to is read again after each answer. *)

Close(t, a) ==
  /\ task[t].at = "idle" /\ a \in known /\ binding[a].active
  /\ Begin(t, "close", a, "checking", binding[a].session)
  /\ UNCHANGED <<host, owned, binding, owner, anchorOnly, known, deleted,
                 erasing, faults, maker, strayed>>

(* The session could not be read.  The binding is given up only when it is *)
(* gone and the error of the host says so by the code session_not_found.   *)
CheckFails(t) ==
  LET a == task[t].anchor
  IN  /\ task[t].at = "checking"
      /\ \/ /\ host[task[t].session] = "gone"
            /\ Invalidate(a) /\ owner' = Detached(owner, task[t].session)
         \/ UNCHANGED <<binding, owner>>
      /\ End(t)
      /\ UNCHANGED <<host, owned, anchorOnly, known, deleted, erasing, faults,
                     maker, strayed>>

CheckPasses(t) ==
  LET a == task[t].anchor
  IN  /\ task[t].at = "checking" /\ host[task[t].session] = "alive"
      /\ IF a \in anchorOnly \/ binding[a].session = None
         THEN End(t) /\ anchorOnly' = anchorOnly \ {a}
         ELSE Goto(t, "deleting", binding[a].session) /\ UNCHANGED anchorOnly
      /\ UNCHANGED <<host, owned, binding, owner, known, deleted, erasing,
                     faults, maker, strayed>>

(* A slip: the local cleanup goes ahead whatever the host answered.        *)
DeleteUnanswered(t) ==
  LET s == task[t].session
  IN  /\ task[t].at = "deleting"
      /\ \/ host[s] = "alive" /\ HostDeletes(s) /\ UNCHANGED faults
         \/ host[s] = "gone" /\ UNCHANGED <<host, deleted, faults>>
         \/ /\ faults < MaxFaults /\ faults' = faults + 1
            /\ UNCHANGED <<host, deleted>>
      /\ Goto(t, "closing", s)
      /\ UNCHANGED <<owned, binding, owner, anchorOnly, known, erasing, maker,
                     strayed>>

Delete(t) ==
  LET s == task[t].session
  IN  /\ task[t].at = "deleting"
      /\ \/ /\ host[s] = "alive"
            /\ HostDeletes(s)
            /\ Goto(t, "closing", s)
            /\ UNCHANGED faults
         \/ /\ host[s] = "gone"
            /\ End(t)
            /\ UNCHANGED <<host, deleted, faults>>
         \/ /\ faults < MaxFaults
            /\ faults' = faults + 1
            /\ End(t)
            /\ UNCHANGED <<host, deleted>>
      /\ UNCHANGED <<owned, binding, owner, anchorOnly, known, erasing, maker,
                     strayed>>

Closed(t) ==
  LET s == binding[task[t].anchor].session
  IN  /\ task[t].at = "closing"
      /\ IF s = None THEN UNCHANGED <<binding, owner, erasing>> ELSE Cleanup(s)
      /\ strayed' = IF s \in {None, task[t].session} THEN strayed
                                                     ELSE strayed \cup {s}
      /\ End(t)
      /\ UNCHANGED <<host, owned, anchorOnly, known, deleted, faults, maker>>

-----------------------------------------------------------------------------
(* The host, its events, the file's queue and what goes wrong.             *)

DeletedEvent(s) ==
  /\ s \in deleted
  /\ deleted' = deleted \ {s}
  /\ Cleanup(s)
  /\ UNCHANGED <<host, owned, anchorOnly, known, task, faults, maker, strayed>>

(* Behind a record that is still to be written for the same session.       *)
Erase(s) ==
  /\ s \in erasing
  /\ \A t \in Tasks : ~(task[t].at = "binding" /\ task[t].session = s)
  /\ erasing' = erasing \ {s}
  /\ owned' = [owned EXCEPT ![s] = None]
  /\ UNCHANGED <<host, binding, owner, anchorOnly, known, task, deleted,
                 faults, maker, strayed>>

UserCreates(s) ==
  /\ host[s] = "unborn"
  /\ host' = [host EXCEPT ![s] = "alive"]
  /\ UNCHANGED <<owned, binding, owner, anchorOnly, known, task, deleted,
                 erasing, faults, maker, strayed>>

UserDeletes(s) ==
  /\ host[s] = "alive"
  /\ HostDeletes(s)
  /\ UNCHANGED <<owned, binding, owner, anchorOnly, known, task, erasing,
                 faults, maker, strayed>>

(* The plugin dies and starts again: the file and the host's sessions are  *)
(* all that is left.                                                       *)
Restart ==
  /\ faults < MaxFaults /\ faults' = faults + 1
  /\ binding' = [a \in Anchors |-> Unbound]
  /\ owner' = [s \in Sessions |-> None]
  /\ anchorOnly' = {}
  /\ task' = [t \in Tasks |-> NoTask]
  /\ deleted' = {} /\ erasing' = {}
  /\ UNCHANGED <<host, owned, known, maker, strayed>>

(* A file that cannot be parsed counts as empty, and is overwritten next.  *)
Corrupt ==
  /\ faults < MaxFaults /\ faults' = faults + 1
  /\ owned' = [s \in Sessions |-> None]
  /\ UNCHANGED <<host, binding, owner, anchorOnly, known, task, deleted,
                 erasing, maker, strayed>>

-----------------------------------------------------------------------------
Work(t) ==
  \/ Read(t) \/ Resolve(t) \/ Pick(t)
  \/ Prompt(t) \/ SlashNew(t) \/ SlashSession(t) \/ PromptEnds(t)
  \/ (\E s \in Sessions : HostCreates(t, s)) \/ HostCreateFails(t)
  \/ Recorded(t) \/ RecordFails(t) \/ Undo(t)
  \/ CheckFails(t) \/ CheckPasses(t) \/ Delete(t) \/ Closed(t)

Next ==
  \/ \E a \in Anchors : CreateAnchorOnly(a)
  \/ \E t \in Tasks, a \in Anchors :
       CreateSession(t, a) \/ Chat(t, a) \/ Close(t, a)
  \/ \E t \in Tasks : Work(t)
  \/ \E s \in Sessions : \/ DeletedEvent(s) \/ Erase(s)
                         \/ UserCreates(s) \/ UserDeletes(s)
  \/ Restart \/ Corrupt

Spec == Init /\ [][Next]_vars

-----------------------------------------------------------------------------
(* Properties.                                                             *)

(* The events of a session go to an anchor that is bound to that session:  *)
(* a stale binding read by a creation in flight, an invalidation or a      *)
(* cleanup never leaves an anchor receiving what another session says.     *)
OwnerIsBoundHere ==
  \A s \in Sessions : owner[s] # None => binding[owner[s]].session = s

(* A chat of an entry that may not see native sessions only ever lands in  *)
(* a session made for that entry: across restarts, a lost file, sessions   *)
(* deleted and created while the chat was choosing.                        *)
ControlledStaysHome ==
  \A t \in Tasks :
    task[t].at \in {"resolved", "prompting"} /\ Entry(t) \notin Natives
      => maker[task[t].session] = Entry(t)

(* The record of a session outlives every race but one: it goes when the   *)
(* host has deleted the session, when the file was lost, or when the       *)
(* anchor moved there while close_session waited for another deletion.     *)
RecordsOutlive ==
  [][\A s \in Sessions :
       owned[s] # None /\ owned'[s] = None
         => host[s] = "gone" \/ s \in strayed \/ faults' > faults]_vars

(* A session made for an entry that lives without a record is about to get *)
(* one or to be deleted again: nothing but a fault, or the race above,     *)
(* leaves one that nobody owns and every direct entry sees.                *)
NoOrphans ==
  \A s \in Sessions :
    host[s] = "alive" /\ maker[s] # None /\ owned[s] = None
      => \/ \E t \in Tasks : /\ task[t].session = s
                             /\ task[t].at \in {"binding", "undoing"}
         \/ s \in strayed \/ faults > 0

(* The solution document on visible sessions: "never show the sessions     *)
(* another business entry created".  The code tells a native session by    *)
(* the absence of a record, and a session just made has none yet.          *)
EntriesAreApart ==
  \A t \in Tasks :
    task[t].at \in {"resolved", "prompting"}
      => maker[task[t].session] \in {None, Entry(t)}

(* The same document on a switch: the old session's owner is deleted if it *)
(* is this anchor.  The code deletes it whoever it is.                     *)
SwitchTakesOnlyItsOwn ==
  [][\A t \in Tasks, s \in Sessions :
       task[t].at = "choosing" /\ task'[t] # task[t] /\ faults' = faults
         /\ owner[s] # None /\ owner'[s] = None
         => owner[s] = task[t].anchor]_vars
=============================================================================
