\* READ RX BUFFER shifted without CS, as in mcp2515_hw_rx_frame.
CONSTANTS
  MaxFrames = 3
  MaxChipEvents = 2
  RestartMs = 0
  CtrlModes = {"normal", "loopback", "listen"}
  WorkqueueBuilt = TRUE
  StopFreesIrq = TRUE
  BufferOpsSelectChip = FALSE
  ModeTimeout = FALSE
  MaxAllocFail = 1
  MaxOpens = 1
  MaxRestarts = 0
  PmWired = FALSE
  MaxSuspends = 0
  MaxTx = 0
  Dlcs = {1, 9}
  NULL = NULL
  Garbage = Garbage
  Gpios <- DefaultGpios
  Faults = {}
  Unload = FALSE
INIT SysInit
NEXT SysNext
CHECK_DEADLOCK FALSE
INVARIANTS
  RxNoPhantomNoDup
