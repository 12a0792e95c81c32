CONSTANTS
  Files = {"x.txt"}
  Probabilities = {100}
  AddressModulus = 15
  Recordings <- SmallRecordings
  MaxRecords = 0
  Places = {}
  AddressLimit = 16
  Numbers = {0, 1, 2, 3, 4, 5, 6, 7, 8, 9, 10, 11, 12, 13, 14, 15}
  MemFactor = 2
  MemUnit = 4
SPECIFICATION Spec
INVARIANT
  RandomAccessIsTotal
