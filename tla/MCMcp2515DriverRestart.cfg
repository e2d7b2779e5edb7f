\* A manual restart (restart_ms = 0) racing the handler that is taking the
\* chip to bus-off, with the disabled lines enabled and CS asserted.
CONSTANTS
  MaxFrames = 3
  MaxChipEvents = 1
  RestartMs = 0
  CtrlModes = {"normal"}
  WorkqueueBuilt = TRUE
  StopFreesIrq = TRUE
  BufferOpsSelectChip = TRUE
  ModeTimeout = FALSE
  MaxAllocFail = 1
  MaxOpens = 1
  MaxRestarts = 1
  PmWired = FALSE
  MaxSuspends = 0
  MaxTx = 1
  Dlcs = {1}
  NULL = NULL
  Garbage = Garbage
  Gpios <- DefaultGpios
  Faults = {}
  Unload = FALSE
INIT SysInit
NEXT SysNext
CHECK_DEADLOCK FALSE
INVARIANT
  CarrierTracksState
