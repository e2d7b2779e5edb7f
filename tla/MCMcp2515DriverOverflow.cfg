\* Overflow counting when RX1OVR is set after the handler read an ERRIF
\* raised by an error-counter change.
CONSTANTS
  MaxFrames = 4
  MaxChipEvents = 1
  RestartMs = 0
  CtrlModes = {"normal"}
  WorkqueueBuilt = TRUE
  StopFreesIrq = TRUE
  BufferOpsSelectChip = TRUE
  ModeTimeout = FALSE
  MaxAllocFail = 1
  MaxOpens = 1
  MaxRestarts = 0
  PmWired = FALSE
  MaxSuspends = 0
  MaxTx = 0
  Dlcs = {1, 9}
  NULL = NULL
  Garbage = Garbage
  Gpios <- DefaultGpios
  Faults = {}
  Unload = FALSE
INIT SysInit
NEXT SysNext
CHECK_DEADLOCK FALSE
INVARIANTS
  OverflowCounted
