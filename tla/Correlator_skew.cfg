\* A skew below the window hides a campaign.
SPECIFICATION Spec
CONSTANTS
  Devices = {d1, d2}
  Gateways = {g1, g2}
  NoDevice = NoDevice
  Engines = {"P3.6"}
  Kinds <- MCKinds
  Window <- MCWindow
  Settled = 1
  Recent = 2
  MinDevices = 2
  MinOverflows = 2
  MinGateways = 2
  Skew = 1
  MaxLate = 0
  MayDie = FALSE
  MaxSeconds = 4
  MaxAlerts = 2
INVARIANT SkewTolerated
