\* A frame transmitted in listen-only mode.
CONSTANTS
  MaxFrames = 0
  MaxChipEvents = 0
  RestartMs = 0
  CtrlModes = {"listen"}
  WorkqueueBuilt = TRUE
  StopFreesIrq = TRUE
  BufferOpsSelectChip = TRUE
  ModeTimeout = FALSE
  MaxAllocFail = 1
  MaxOpens = 1
  MaxRestarts = 0
  PmWired = FALSE
  MaxSuspends = 0
  MaxTx = 1
  Dlcs = {1}
  NULL = NULL
  Garbage = Garbage
  Gpios <- DefaultGpios
  Faults = {}
  Unload = FALSE
SPECIFICATION SysSpec
CHECK_DEADLOCK FALSE
PROPERTIES
  TxRetired
