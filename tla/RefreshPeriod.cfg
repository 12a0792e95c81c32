CONSTANTS
  Pointers = {1, 2, 3, 4}
  CPUs = {cpu}
  MEM = mem
  Programs <- LongProgram
  MaxRequests = 300
  OpCounterAtStart = {0}
  MODE_TYPE = "DEFAULT"
  CL = 7
  RCD = 8
  RP = 8
  REFRESHING_INTERVAL = 1024
  REFRESHING_TIME = 1536
  AddressRange = {0, 1024}
  InitialWords = {0}
SPECIFICATION Spec
PROPERTY
  RefreshedEvery64ms
