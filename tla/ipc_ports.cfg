SPECIFICATION IpcSpec
CHECK_DEADLOCK FALSE
CONSTANTS
  null = null
  m = m
  n = n
  NobodyHere = null
  PROCESS_MAX = 3
  QUANTUM = 2
  MaxPid = 4
  Calls <- MCAllCalls
  KmainSchedules = TRUE
  Port <- MCPort
  IPC_QUEUE_MAX = 2
  Msg <- MCMsg
  Notice = n
INVARIANTS TypeOK ReadyListExact OneRunning PidsUnique MemoryMatchesState PortsTypeOK WaiterSeesEmpty
PROPERTIES PortsAreFifo
