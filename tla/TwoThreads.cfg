CONSTANTS
  Threads = {"main", "worker"}
  MainThread = "main"
  Addresses = {8, 16, 24}
  MaxInstructions = 2
  Codes <- SmallCodes
SPECIFICATION Spec
INVARIANTS
  SingleThreadAccessesAreExact
  OnlyStoresAreMixedUp
  TraceIsFramed
