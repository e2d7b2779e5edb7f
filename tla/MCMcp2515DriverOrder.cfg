\* Receive order across the RXB0/RXB1 rollover.
CONSTANTS
  MaxFrames = 3
  MaxChipEvents = 0
  RestartMs = 0
  CtrlModes = {"normal"}
  WorkqueueBuilt = TRUE
  StopFreesIrq = TRUE
  BufferOpsSelectChip = TRUE
  ModeTimeout = FALSE
  MaxAllocFail = 1
  MaxOpens = 1
  MaxRestarts = 0
  PmWired = FALSE
  MaxSuspends = 0
  MaxTx = 0
  Dlcs = {1, 9}
  NULL = NULL
  Garbage = Garbage
  Gpios <- DefaultGpios
  Faults = {}
  Unload = FALSE
INIT SysInit
NEXT SysNext
CHECK_DEADLOCK FALSE
INVARIANTS
  RxInOrder
