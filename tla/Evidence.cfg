\* Two devices, both discard policies, with and without high-water marks, a fetch that times out early.
SPECIFICATION Spec
CONSTANTS
  Devices = {d1, d2}
  Capacity = 4
  WatermarkTenths = 10
  T = 2
  Batch = 2
  MaxEvents = 5
  MaxTicks = 2
INVARIANTS GapIsReal NoHoleUnflagged OnlyPrefixUnflagged EvictionNotSound
