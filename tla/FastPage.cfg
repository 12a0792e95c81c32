CONSTANTS
  Pointers = {1, 2, 3, 4}
  CPUs = {cpu}
  MEM = mem
  Programs <- SmallPrograms
  MaxRequests = 3
  OpCounterAtStart = {0, 1, 9}
  MODE_TYPE = "FAST"
  CL = 2
  RCD = 1
  RP = 1
  REFRESHING_INTERVAL = 4
  REFRESHING_TIME = 6
  AddressRange <- SmallAddressRange
  InitialWords = {0}
SPECIFICATION Spec
INVARIANTS
  TypeOK
  RefreshSchedule
  NoRequestOutlivesRefresh
  OneContinuation
  OpenRowTracksProgram
  ExitAbandonsOnlyAWrite
PROPERTIES
  ServedOnceInOrder
  ImplementsSharedRAM
