\* Messages of every kind, one of which may not decode; P3.6 may stall; a second delivery or a kill.
SPECIFICATION Spec
CONSTANTS
  MayStall = {"crossgw"}
  Streams <- MCStreams
  MaxUpsets = 1
\* An engine that stalls may stop the whole backend.
CHECK_DEADLOCK FALSE
INVARIANTS AckedWasFed OncePerRun EnginesAgree
PROPERTY EventuallyFed
