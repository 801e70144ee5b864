------------------------- MODULE MCHostSessionRuns -------------------------
EXTENDS HostSessionRuns, FactChecks
CONSTANTS m1, m2, q1, p1

\* With two messages, the subagent asks q1 and the run itself p1.
AboutThese ==
  [t \in Tokens |-> IF Messages = {m1, m2} THEN (IF t = q1 THEN m2 ELSE m1)
                                           ELSE CHOOSE m \in Messages : TRUE]
=============================================================================
