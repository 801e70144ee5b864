\* The plugin is loaded again after a restart that came while it was starting.
SPECIFICATION PluginSpec
CONSTANTS
  MaxStarts = 3
PROPERTIES
  NoSecondRuntime
\* Initializations are bounded, so a run of the model ends.
CHECK_DEADLOCK FALSE
