\* Captures of four rows in half seconds, two hosts, every script, with and
\* without --max in the report of the TON_IoT capture.
SPECIFICATION Spec
CONSTANTS
  Hosts = {1, 2}
  Dsts = {x, y}
  Scripts = {"ton_iot", "wustl_water", "iot23", "ctu13"}
  RowsOf <- MCRowsOf
  Limits = {0, 3}
  Second = 2
  Fanout = 2
  ScanW = 1
  Flood = 3
  FloodW = 1
  Beacon = 2
  Bucket = 2
  Window = 3
  MinScanners = 2
  Day = 6
  MaxRows = 4
INVARIANTS WindowsExact SampledLogKeepsCampaign FormalImpliesReported EpisodesAreDistinct
SYMMETRY Symmetry
