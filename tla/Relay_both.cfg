\* The gateway stops twice, the backend once.
SPECIFICATION RelaySpec
CONSTANTS
  MaxVerdicts = 3
  MaxStops = 2
  Faults = {"kill", "fail"}
  Devices = {d1, d2}
  MaxEvents = 2
  MaxAlerts = 2
  MaxBackendStops = 1
INVARIANTS RelayTypeOK FedOncePerRun FedInOrder AckedWasHandled NoneSwallowedUntilRestart
PROPERTIES EventuallyHandled ImplementsRelayLog
