CONSTANTS
  Files = {"x.txt"}
  Probabilities = {0, 50, 100}
  AddressModulus = 15
  Recordings <- SmallRecordings
  MaxRecords = 1
  Places = {3}
  AddressLimit = 16
  Numbers = {0, 49, 50, 199}
  MemFactor = 2
  MemUnit = 4
SPECIFICATION Spec
INVARIANT
  BothFlowsLoadWhole
