-------------------------- MODULE MCSessionRuntime --------------------------
(* Small instances of SessionRuntime.                                      *)
EXTENDS SessionRuntime

CONSTANTS s1, s2, r1, r2, b1, o1, q1, p1

\* The default policy: two sessions, two runs, a question they share.
Rejecting ==
  [policy |-> "reject", sessions |-> {s1, s2}, flows |-> {r1, r2},
   tokens |-> {q1}]

\* A run, an emitted message and an emitted run compete for a session.
Forwarding ==
  [policy |-> "forwardToProvider", sessions |-> {s1},
   flows |-> {r1, b1, o1}, tokens |-> {p1}]

BothSettings == {Rejecting, Forwarding}
=============================================================================
