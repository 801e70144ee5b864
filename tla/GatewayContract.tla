-------------------------- MODULE GatewayContract --------------------------
(***************************************************************************)
(* What a gateway client promises its host about the status it reports:    *)
(* the kind of GatewayClientStatus and the cause of a closed one.  The     *)
(* host is one that calls connect() on a closed client only, which is what *)
(* bridge-runtime-sdk does.  GatewayClient implements this contract, and   *)
(* RuntimeLifecycle relies on it.                                          *)
(***************************************************************************)
VARIABLES status, reason

vars == <<status, reason>>

Report(s, why) == status' = s /\ reason' = why
Closes(whys) == \E why \in whys : Report("closed", why)

Init == status = "closed" /\ reason = "none"

\* connect(): the attempt starts, or is refused on the spot.
Connect == status = "closed" /\ Report("connecting", "none")
Refuse == status = "closed" /\ Closes({"cancelled", "startup_failure"})

\* register_ok arrived.
Establish ==
  status \in {"connecting", "reconnecting"} /\ Report("ready", "none")

\* A first connection attempt that fails is never retried.
FailConnect ==
  status = "connecting" /\ Closes({"cancelled", "startup_failure"})

\* Only an established session opens a reconnect window.
Lose == status = "ready" /\ Report("reconnecting", "none")

\* A frame that breaks the handshake ends READY as a startup failure.
Drop ==
  /\ status = "ready"
  /\ Closes({"cancelled", "startup_failure", "runtime_failure"})

GiveUp ==
  /\ status = "reconnecting"
  /\ Closes({"exhausted", "cancelled", "startup_failure"})

Disconnect == Report("closed", "manual")

Next ==
  \/ Connect \/ Refuse \/ Establish \/ FailConnect
  \/ Lose \/ Drop \/ GiveUp \/ Disconnect

\* Neither a first attempt nor a reconnect window lasts for ever.
Spec ==
  /\ Init /\ [][Next]_vars
  /\ WF_vars(status = "connecting" /\ (Establish \/ FailConnect))
  /\ WF_vars(status = "reconnecting" /\ (Establish \/ GiveUp))
=============================================================================
