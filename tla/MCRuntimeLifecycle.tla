------------------------- MODULE MCRuntimeLifecycle -------------------------
(* The surroundings in which the lifecycle of a runtime is checked. *)
EXTENDS RuntimeLifecycle

\* A host that does not start a reconnecting runtime.
CarefulHost ==
  [startFrom |-> RuntimeStates \ {"reconnecting"}, providerFails |-> TRUE,
   disconnectFails |-> FALSE, clientCancels |-> FALSE,
   queuedConnect |-> FALSE]

\* A host that calls start() whenever it likes.
HastyHost == [CarefulHost EXCEPT !.startFrom = RuntimeStates]

\* Any host; connections that fail to close, clients that cancel.
AnyHost ==
  [startFrom |-> RuntimeStates, providerFails |-> TRUE,
   disconnectFails |-> TRUE, clientCancels |-> TRUE, queuedConnect |-> TRUE]

AllHosts == {CarefulHost, AnyHost}
OnlyCareful == {CarefulHost}
OnlyHasty == {HastyHost}
=============================================================================
