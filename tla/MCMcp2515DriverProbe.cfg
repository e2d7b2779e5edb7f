\* Loading as shipped, with the calls of mcp2515_can_probe failing.
CONSTANTS
  MaxFrames = 1
  MaxChipEvents = 0
  RestartMs = 0
  CtrlModes = {"normal"}
  WorkqueueBuilt = FALSE
  StopFreesIrq = FALSE
  BufferOpsSelectChip = FALSE
  ModeTimeout = FALSE
  MaxAllocFail = 0
  MaxOpens = 1
  MaxRestarts = 0
  PmWired = FALSE
  MaxSuspends = 0
  MaxTx = 0
  Dlcs = {1}
  NULL = NULL
  Garbage = Garbage
  Gpios <- DefaultGpios
  Faults = {"alloc_candev", "gpio_request", "gpio_to_irq", "hw_probe", "register_candev"}
  Unload = TRUE
INIT SysInit
NEXT SysNext
CHECK_DEADLOCK FALSE
INVARIANTS
  LoadOutcome
