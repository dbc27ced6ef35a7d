\* The process dies, a publish raises, the machine loses power, a line is cut.
SPECIFICATION Spec
CONSTANTS
  MaxVerdicts = 4
  MaxStops = 4
  Faults = {"kill", "fail", "power", "torn"}
INVARIANTS TypeOK Recoverable ReadyMeansRelayed LossesAreTorn FirstCopiesInOrder RecoveryCost
