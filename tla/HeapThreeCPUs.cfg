CONSTANTS
  Pointers = {1, 2, 3, 4, 5, 6}
  CPUs = {cpu1, cpu2, cpu3}
  MEM = mem
  Programs <- SmallPrograms
  MaxRequests = 2
  OpCounterAtStart = {0}
  MODE_TYPE = "DEFAULT"
  CL = 2
  RCD = 1
  RP = 1
  REFRESHING_INTERVAL = 4
  REFRESHING_TIME = 6
  AddressRange <- TwoRows
  InitialWords = {0}
SPECIFICATION HeapSpec
INVARIANTS
  BusProtocol
  NoFailureExit
  HeapIsTheQueue
  PopIgnoresFreedEvent
PROPERTIES
  ImplementsSharedRAM
  ReaderKeepsTheBus
  Terminates
