--------------------------- MODULE MCOpenClawRuns ---------------------------
(* Small instances of OpenClawRuns. *)
EXTENDS OpenClawRuns, TLC
CONSTANTS r1, r2, s1, s2, k1, k2, k3

\* A session is routed to a key of its own, or not at all.
OwnKey == s1 :> k1
RoutedKey == s1 :> {k1, k2}

\* Two sessions, each with a provisional key, that a host with one main
\* session per agent routes to the same key.
OwnKeyOfEach == s1 :> k1 @@ s2 :> k2
SharedRoute == s1 :> {k3} @@ s2 :> {k3}
=============================================================================
