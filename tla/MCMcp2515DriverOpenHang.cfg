\* The normal-mode wait times out while a frame wakes the handler thread.
CONSTANTS
  MaxFrames = 1
  MaxChipEvents = 0
  RestartMs = 0
  CtrlModes = {"normal"}
  WorkqueueBuilt = TRUE
  StopFreesIrq = TRUE
  BufferOpsSelectChip = TRUE
  ModeTimeout = TRUE
  MaxAllocFail = 1
  MaxOpens = 1
  MaxRestarts = 0
  PmWired = FALSE
  MaxSuspends = 0
  MaxTx = 0
  Dlcs = {1, 9}
  NULL = NULL
  Garbage = Garbage
  Gpios <- DefaultGpios
  Faults = {}
  Unload = FALSE
SPECIFICATION SysSpec
CHECK_DEADLOCK FALSE
PROPERTIES
  OpenReturns
