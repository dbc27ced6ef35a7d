\* A stealthy device and one of any program, every class of event, a message delivered twice or the clock set back.
SPECIFICATION MCSpec
CONSTANTS
  Devices = {d1, d2}
  Sources = {"stealth", "pulsing", "fuzzer", "timespoof", "trace"}
  Trace <- MCTrace
  SPOOF_S = 3
  TS_SKEW_S = 2
  OVERFLOW_WINDOW = 2
  OVERFLOW_THRESHOLD = 2
  SPAM_WINDOW = 2
  SPAM_THRESHOLD = 3
  PULSING_WINDOW = 1
  PULSING_THRESHOLD = 2
  Steps = {0, 1}
  MaxEvents = 5
  MaxUpsets = 1
INVARIANTS TypeOK AlertsJustified CountedOnce NoBurstMissed
SYMMETRY Symmetry
