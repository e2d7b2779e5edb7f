\* Safety of the handler, transmit, open and stop paths, with the disabled
\* lines of the source enabled and the buffer instructions chip-selected.
CONSTANTS
  MaxFrames = 3
  MaxChipEvents = 1
  RestartMs = 0
  CtrlModes = {"normal", "loopback", "listen"}
  WorkqueueBuilt = TRUE
  StopFreesIrq = TRUE
  BufferOpsSelectChip = TRUE
  ModeTimeout = TRUE
  MaxAllocFail = 1
  MaxOpens = 2
  MaxRestarts = 0
  PmWired = FALSE
  MaxSuspends = 0
  MaxTx = 2
  Dlcs = {1, 9}
  NULL = NULL
  Garbage = Garbage
  Gpios <- DefaultGpios
  Faults = {"device_register", "driver_register", "alloc_candev", "gpio_request", "gpio_to_irq", "hw_probe", "register_candev"}
  Unload = TRUE
INIT SysInit
NEXT SysNext
CHECK_DEADLOCK FALSE
PROPERTY
  RxRefinement
INVARIANTS
  TypeOK
  TxConservation
  EchoTracksMailbox
  StateMatchesChip
