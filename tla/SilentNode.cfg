\* Two devices through several silences, each of which triggers twice; the engine may die.
SPECIFICATION Spec
CONSTANTS
  Devices = {d1, d2}
  Window = 1
  MayDie = TRUE
  MaxVerdicts = 3
  MaxRepeats = 2
INVARIANT NoIncidentLost
PROPERTY SilenceAfterOverflowReported
