SPECIFICATION FairSpec
CONSTANTS
  Entries = 2
  MaxOpens = 2
INVARIANTS HeldWhileConfigured ConfiguredHolds
PROPERTY RemovedIsReleased
