\* Every engine and both hosts; skewed clocks, late relays, MonPoly may die.
SPECIFICATION Spec
CONSTANTS
  Devices = {d1, d2}
  Gateways = {g1, g2}
  NoDevice = NoDevice
  Engines = {"P3.1", "P3.2", "P3.3", "P3.4", "P3.6"}
  Kinds <- MCKinds
  Window <- MCWindow
  Settled = 1
  Recent = 2
  MinDevices = 2
  MinOverflows = 2
  MinGateways = 2
  Skew = 1
  MaxLate = 1
  MayDie = TRUE
  MaxSeconds = 4
  MaxAlerts = 3
INVARIANTS TypeOK IncidentIsReal OncePerWindow NoIncidentMissed MonoReportsRejections
SYMMETRY Symmetry
