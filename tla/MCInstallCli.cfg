\* Two commands with two codes and one refresh, over files of every layout.
SPECIFICATION Spec
SYMMETRY AlikeCodes
CONSTANTS
  Codes = {q1, q2}
  MaxRefreshCount = 1
  RefreshOnExpired = TRUE
  Versions = {v1, v2}
  Registries = {r1}
  MaxCommands = 2
  Layouts = {"absent", "other", "block", "hollow", "inline"}
  r1 = r1
  v1 = v1
  v2 = v2
  q1 = q1
  q2 = q2
INVARIANTS
  OneEnding
  ListedIsThere
  SuccessIsComplete
\* The commands are bounded, so a run of the model ends.
CHECK_DEADLOCK FALSE
