CONSTANTS
  Pointers = {1, 2, 3, 4}
  CPUs = {cpu}
  MEM = mem
  Programs <- SmallPrograms
  MaxRequests = 5
  OpCounterAtStart = {0}
  MODE_TYPE = "FAST"
  CL = 2
  RCD = 1
  RP = 1
  REFRESHING_INTERVAL = 4
  REFRESHING_TIME = 6
  AddressRange <- TwoRows
  InitialWords = {0}
SPECIFICATION HeapSpec
INVARIANTS
  ReportsReferenceTime
PROPERTIES
  Terminates
