\* Liveness of receive, transmit and open with the disabled lines enabled
\* and the mode wait not timing out.
CONSTANTS
  MaxFrames = 1
  MaxChipEvents = 1
  RestartMs = 0
  CtrlModes = {"normal", "loopback"}
  WorkqueueBuilt = TRUE
  StopFreesIrq = TRUE
  BufferOpsSelectChip = TRUE
  ModeTimeout = FALSE
  MaxAllocFail = 0
  MaxOpens = 1
  MaxRestarts = 1
  PmWired = TRUE
  MaxSuspends = 1
  MaxTx = 1
  Dlcs = {1}
  NULL = NULL
  Garbage = Garbage
  Gpios <- DefaultGpios
  Faults = {}
  Unload = FALSE
SPECIFICATION SysSpec
CHECK_DEADLOCK FALSE
INVARIANT
  TxConservation
PROPERTIES
  RxDelivered
  TxRetired
  OpenReturns
  RestartCompletes
  ResumeRestores
