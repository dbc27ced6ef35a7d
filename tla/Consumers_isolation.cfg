\* P3.6 stops to read, nothing else goes wrong.
SPECIFICATION Spec
CONSTANTS
  MayStall = {"crossgw"}
  Streams <- MCSound
  MaxUpsets = 0
CHECK_DEADLOCK FALSE
PROPERTY NoHeadOfLineBlocking
