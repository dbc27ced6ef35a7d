\* A restarted gateway reuses event ids.
SPECIFICATION RelaySpec
CONSTANTS
  MaxVerdicts = 3
  MaxStops = 1
  Faults = {"kill"}
  Devices = {d1}
  MaxEvents = 2
  MaxAlerts = 1
  MaxBackendStops = 0
INVARIANT NoneSwallowed
