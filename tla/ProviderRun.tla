---------------------------- MODULE ProviderRun ----------------------------
(***************************************************************************)
(* What the SDK relies on when a provider accepts a chat: the ProviderRun  *)
(* that runMessage() returns has a stream of facts, each in its order, and *)
(* a result() that settles once, after the stream has ended.  The adapters *)
(* of OpenClaw (OpenClawRuns) and of OpenCode (HostSessionRuns) implement  *)
(* it for all the runs of a session: an abort may end one while another    *)
(* goes on.                                                                *)
(***************************************************************************)
CONSTANTS Runs, Outcomes, None

VARIABLES facts, outcome

vars == <<facts, outcome>>

Init ==
  /\ facts = [r \in Runs |-> "unused"]
  /\ outcome = [r \in Runs |-> None]

Moves(r, from, to) == facts[r] = from /\ facts'[r] = to
Settles(r) == outcome[r] = None /\ outcome'[r] \in Outcomes
Stays(r) == outcome'[r] = outcome[r]

\* runMessage() returns, or fails before the adapter has awaited anything.
Accept(r) == Moves(r, "unused", "open") /\ Stays(r)
FailAtOnce(r) == Moves(r, "unused", "over") /\ Settles(r)

\* The stream ends.  A fact out of order would leave it "broken", for good.
End(r) == Moves(r, "open", "over") /\ (Settles(r) \/ Stays(r))

Settle(r) == Moves(r, "over", "over") /\ Settles(r)

Idle(r) == facts'[r] = facts[r] /\ Stays(r)

Next == \A r \in Runs :
          Accept(r) \/ FailAtOnce(r) \/ End(r) \/ Settle(r) \/ Idle(r)

Spec == Init /\ [][Next]_vars
=============================================================================
