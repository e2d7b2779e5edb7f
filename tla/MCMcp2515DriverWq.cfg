\* The source as shipped: no workqueue is created, so the first frame
\* given to mcp2515_hard_start_xmit queues work on a NULL workqueue.
CONSTANTS
  MaxFrames = 3
  MaxChipEvents = 2
  RestartMs = 0
  CtrlModes = {"loopback"}
  WorkqueueBuilt = FALSE
  StopFreesIrq = FALSE
  BufferOpsSelectChip = FALSE
  ModeTimeout = FALSE
  MaxAllocFail = 1
  MaxOpens = 1
  MaxRestarts = 0
  PmWired = FALSE
  MaxSuspends = 0
  MaxTx = 2
  Dlcs = {1, 9}
  NULL = NULL
  Garbage = Garbage
  Gpios <- DefaultGpios
  Faults = {}
  Unload = FALSE
INIT SysInit
NEXT SysNext
CHECK_DEADLOCK FALSE
INVARIANTS
  NoOops
