# TLA+ models of the bit-banged MCP2515 CAN driver

The source is `src/mcp2515-banged/src/mcp2515-banged.c`, a Linux SocketCAN
driver for the MCP2515 controller. It talks to the chip over an SPI bus that
is bit-banged on four GPIOs. This directory holds TLA+ models of the driver,
the TLC configurations that check them, and `PROJECT.json`. That file lists
the components, runs, mutants, the source map, findings and hazards.

## The system and its parts

| Part | Source | Modelled in |
|------|--------|-------------|
| Line Transport: `mcp2515_spi_trans`, which shifts bytes on GPIOs and never touches CS | 293-345 | partly: each SPI transaction is one atomic step; CS framing is the constant `BufferOpsSelectChip` |
| Register Access: `read_reg`, `read_2regs`, `write_reg`, `write_bits` | 347-400 | partly: each appears as its effect on chip registers, inside the action that calls it |
| Frame Codec: `mcp2515_hw_tx` (encode) and `mcp2515_hw_rx` (decode) | 402-488 | `Mcp2515Codec` (pure operators); `Mcp2515Driver` (the I/O) |
| Bit timing and filters: `do_set_bittiming`, `setup` | 569-592 | `Mcp2515Codec`, `MCMcp2515Codec` |
| Event Handler: `mcp2515_can_ist` (threaded IRQ) | 769-894 | `Mcp2515Driver` |
| Transmit: `hard_start_xmit`, `tx_work_handler` (`#if 0`) | 495-512, 703-729 | `Mcp2515Driver` |
| Lifecycle: `open`, `hw_reset`, `set_normal_mode`, `open_clean`, `stop` | 535-686, 896-956 | `Mcp2515Driver` |
| Restart: `do_set_mode`, `restart_work_handler` (`#if 0`) | 514-533, 731-767 | `Mcp2515Driver` (with the work enabled, as `WorkqueueBuilt` does) |
| Identification (`hw_probe`), platform glue (`probe`, `remove`, module init and exit), GPIO set-up | 617-634, 987-1136, 1216-1242 | `Mcp2515Module` |
| Suspend and resume: `mcp2515_can_suspend`, `mcp2515_can_resume` | 1138-1188 | `Mcp2515Driver`, with `.pm` and resume's `queue_work` calls enabled (`PmWired`); as shipped nothing calls them |

### How the parts interact

The driver has these actors:

- **The handler thread.** It is woken by a falling edge of INT. Because of `IRQF_ONESHOT` it runs again if another edge came while it ran.
- **The stack.** It calls `hard_start_xmit` without any driver lock.
- **The transmit work.**
- **`open` and `stop`.** The network core serialises these two.
- **A manual restart.** The kernel's `can_restart` calls `do_set_mode` in bus-off when `restart_ms` is 0. `do_set_mode` takes no lock and queues the restart work.
- **The restart work.**
- **The PM core** (with `PmWired`). It freezes user tasks and the freezable workqueue, then calls suspend. It calls resume before it thaws them.
- **Loading and unloading.** Module init registers the platform device and driver, which calls `probe` before anything else runs. Module exit calls `remove` for a bound device.

The handler, the transmit work, the restart work, `open` and the locked part of
`stop` all take `priv->mcp_lock`.

The chip acts on its own between any two SPI transactions. It can:

- store an arriving frame, in RXB0 or rolled over into RXB1, or overflow;
- send the requested frame;
- move its error counters;
- enter the requested mode.

## Modules

- **`Mcp2515Codec`** holds the data transformations, as operators.
  - `EncodeTx` is the mailbox image that `mcp2515_hw_tx` builds.
  - `DecodeRx` is the `can_frame` that `mcp2515_hw_rx` rebuilds. It uses `RxRtr` and `get_can_dlc`.
  - `Cnf1Bits`, `Cnf2Bits` and `Cnf3Bits` are the bytes that `mcp2515_do_set_bittiming` writes. The `__u32` arithmetic is wrapped to the low byte that `write_reg` passes on.
- **`MCMcp2515Codec`** checks the codec against a reference for the chip's side of the mailbox format, taken from the data sheet. `ChipTxFrame` is the frame the chip sends from a TX image. `ChipRxImage` is the image it stores for a received frame.
  It also checks the CNF bytes against the chip's field layout. The timings come from `can_calc_bittiming`, or (`FixedUp`) are user-given ones that pass `can_fixup_bittiming`. Each initial state is one input of kind `"frame"`, `"rximg"` or `"timing"`.
- **`Mcp2515RxAbstract`** is what the receive path promises the stack. Frames arrive numbered. Each is handed up once or lost, and a lost frame is never handed up. The order is not promised.
- **`Mcp2515Chip`** is the MCP2515 as the driver sees it. It is the environment, not code of the repository. Its state is:
  - CANINTF;
  - the latched EFLG overflow bits;
  - TEC and REC as levels;
  - the two receive buffers;
  - TXREQ of mailbox 0;
  - CANSTAT and CANCTRL modes;
  - CANINTE.

  Frames are named by their arrival number.
- **`Mcp2515Driver`** extends the chip module and holds the driver's state:
  - `lock`, the owner of `mcp_lock`;
  - `istPc`, the handler's position;
  - `lIntf` and `lEflag`, the handler's snapshot;
  - `force_quit`, `tx_skb`, `tx_len` and `can.state`;
  - the statistics;
  - the delivered frames;
  - the device's open/stop position `dev`;
  - whether the IRQ is requested, and the latched edge;
  - `oops`, a NULL dereference;
  - `restart_tx`, `after_suspend`, the queued restart work and its position `rstPc`;
  - `pmPc`, the system's sleep state (running, suspend under way, suspended), and the count `suspends`.

  There is one action per stretch of code between two SPI transactions the chip can observe:
  - `IstStart`, `IstLock`, `IstRead` (the CANINTF/EFLG read and the loop's `force_quit` test), `IstRx0` and `IstRx1` (`HwRx`), `IstHandle` (lines 802-864: flags, statistics, `can.state`) and `IstTail` (866-889: the bus-off test, which reads `can.state` again, and the TX completion);
  - `Xmit` and `TxWork`;
  - `OpenStart`, `OpenReset`, `OpenMode`, `OpenWaitOk`, `OpenWaitTimeout` and `OpenClean`;
  - `StopQuit`, `StopIrq`, `StopWq`, `StopRegs` and `StopTail`;
  - `DoSetMode`: `can_restart_now`'s guard (`restart_ms` 0, state BUS_OFF), then all of `do_set_mode` (clean, state ERROR_ACTIVE, `restart_tx`, `after_suspend`, `queue_work`), then `netif_carrier_on`;
  - `RestartLock`, `RestartReset`, `RestartMode`, `RestartWait` and `RestartTail`: the restart work under the mutex. `hw_reset` and `set_normal_mode` results are ignored, as in the code. The text calls `mcp2515_set_normal_mode()` with no argument; the model takes it as `mcp2515_set_normal_mode(net)`;
  - `SuspendQuit` (the freezer, then `force_quit = 1`), `SuspendSleep` (`disable_irq` has waited for the handler; a running interface is detached and the chip put to sleep, and `after_suspend` is UP or DOWN) and `Resume` (UP queues the restart work, otherwise `after_suspend = 0`; then `force_quit = 0` and `enable_irq`). While the system sleeps, `Frozen` blocks `open`, `stop`, restart requests and both works. The restart work's UP branch also cleans the transmit state and wakes the queue;
  - `Env`, the chip acting, with a falling edge of INT latched while the IRQ is requested.

  A NULL dereference ends the behaviour, because `Next` is guarded by `~oops`.
- **`Mcp2515Module`** extends the driver with loading. Its state is:
  - `modPc`, where loading is;
  - `held`, the GPIO numbers requested and not freed;
  - `netState`, the net device (none, live, freed);
  - `pdevReg`, whether the platform device is registered.

  Its actions are:
  - `ModuleInit` (`mcp2515_banged_init`);
  - `ProbeAlloc`, `ProbeGpios`, `ProbeIrq`, `ProbeChip` (`mcp2515_hw_probe`, with the RESET reaching the chip only when `Selected`) and `ProbeRegister`;
  - `ModuleExit` (`mcp2515_banged_exit` with `mcp2515_can_remove`).

  Every call that can fail is a fault point. `Faults` is the set of those allowed to fail. The goto ladder is `Unwound`: it frees the index numbers 0..4 that `gpio_free` is given, as the code does. `ProbeRegister` takes the driver's `dev` from `"absent"` to `"down"`, where `open` can start. `remove` reads a drvdata that probe never sets, so unloading a bound module is an oops. `SysSpec` is the composition: `Next` of the driver, or a loading step.
- **`MCMcp2515Driver`** instantiates the module, driver and chip for TLC. Its constants are given in the `.cfg` files.

### Constants that select the source text

The shipped source leaves several lines disabled. The driver module takes
constants that choose between the shipped text and the disabled lines:

- **`WorkqueueBuilt`**: whether `priv->wq` is created (lines 927-932) and the `#if 0` tx and restart work exist.
- **`StopFreesIrq`**: whether the `free_irq` comment at line 664 is enabled.
- **`BufferOpsSelectChip`**: whether READ RX BUFFER, LOAD TX BUFFER, RTS and RESET are bracketed by CS low/high, as `mcp2515_read_reg` does. The source does not bracket them. The bracketed form is a repair the source does not contain.
- **`ModeTimeout`**: whether the 1 s wait for normal mode may expire.
- **`PmWired`**: whether `.pm` at line 1199 and the two `queue_work` calls of resume (1174, 1178) are enabled. The model needs `WorkqueueBuilt` with it. The shipped `mcp2515_can_resume` is kept as `ResumeNoRestart`.

`Mcp2515Module` adds three constants that are not source text. `Gpios` is the module parameter (the default 20, 19, 18, 7, 6 in every run). `Faults` is the set of failing calls: every fault point in driver_safety, the probe's calls in probe_unwind, and none in driver_live and the other violation runs. `Unload` says whether the user unloads the module. It is TRUE in driver_safety and probe_unwind. It is FALSE in driver_live, to keep its state space small, and in the other violation runs, so that their counterexample is the one about the transmit or receive path.

The passing runs use the enabled lines, so they check the rest of the driver's
logic. A violation run uses the shipped choice for the defect it shows:

- no_workqueue and probe_unwind use the shipped text throughout.
- rx_without_cs leaves the buffer instructions without CS, and enables the
  other lines.
- rx_order, overflow_count, open_hang, listen_tx and restart_race enable all
  of them. Their defects lie in code that these lines do not touch, and a
  shipped defect would otherwise end the behaviour first.

## Runs

| Run (cfg) | Expect | What it shows |
|-----------|--------|---------------|
| codec (`MCMcp2515Codec.cfg`) | pass | `RoundTrip`: encode, then the chip sends and receives, then decode gives the same frame for standard and extended ids, RTR and DLC 0..8. `DecodeWellFormed`: any RX image, including DLC 9..15, decodes to an in-bounds frame. `TypeOK`: the encoded bytes are bytes. `BitTimingProgrammed`: calculated timings land in the right CNF fields, SAM and BTLMODE are set correctly, and the other CNF3 bits are kept. |
| bittiming_fixup (`MCMcp2515CodecFixup.cfg`) | violation | User-given `prop_seg` or `phase_seg1` above 8 spills into the neighbouring field (source line 575). |
| driver_safety (`MCMcp2515DriverSafety.cfg`) | pass | `RxRefinement` and four invariants, over all interleavings of handler, transmit, open and stop, with two opens, all three modes, a failed allocation and the mode timeout. Behaviours start at module load, with every loading call allowed to fail, and may end in an unload. No restart is requested, because of restart_race. |
| driver_live (`MCMcp2515DriverLive.cfg`) | pass | `RxDelivered`, `TxRetired`, `OpenReturns`, `RestartCompletes` and `ResumeRestores` under the fairness below, and `TxConservation`. One manual restart and one system suspend are allowed. The module loads without faults and is not unloaded; driver_safety covers loading. |
| no_workqueue (`MCMcp2515DriverWq.cfg`) | violation | As shipped, the first transmitted frame queues work on the NULL `priv->wq`. |
| rx_without_cs (`MCMcp2515DriverNoCs.cfg`) | violation | As shipped, the RX buffer read is ignored by the chip, and garbage is delivered again and again. The same missing CS makes RESET a no-op; with `StopFreesIrq` set, the model then gives -ENODEV on reopen. No run of its own checks that. |
| rx_order (`MCMcp2515DriverOrder.cfg`) | violation | RXB0 is read before RXB1, so frames are delivered out of order across the rollover. |
| overflow_count (`MCMcp2515DriverOverflow.cfg`) | violation | An overflow latched after the handler read ERRIF is later cleared uncounted. |
| open_hang (`MCMcp2515DriverOpenHang.cfg`) | violation | The mode wait times out, then the chip settles and a frame wakes the handler. `free_irq` under `mcp_lock` then waits forever. |
| listen_tx (`MCMcp2515DriverListen.cfg`) | violation | A frame accepted in listen-only mode is never retired. |
| probe_unwind (`MCMcp2515DriverProbe.cfg`) | violation | Loading as shipped, with the probe's calls allowed to fail. In 4 states, the MOSI request fails and the ladder calls `gpio_free(GPIO_MISO)`, which frees GPIO 0. GPIO 20 stays requested after probe returned the error. |
| restart_race (`MCMcp2515DriverRestart.cfg`) | violation | `CarrierTracksState`, in 34 states, with the mode wait not timing out. The handler stores BUS_OFF (`IstHandle`), and a restart (`DoSetMode`) sets ERROR_ACTIVE and turns the carrier on without the lock. The handler's test at 866 then does not quit. Its next pass stores BUS_OFF again, drops the carrier and sleeps the chip. The restart work resets the chip, sets ERROR_ACTIVE in `set_normal_mode` and clears `force_quit`. The device is left error-active with the carrier off. `can_restart` accepts only BUS_OFF, so no later restart turns the carrier on. |

### Driver properties

- **`RxRefinement`**: the driver implements `Mcp2515RxAbstract`. The instance maps `lost` to `LostFrames`: frames that arrived and are neither delivered nor in an RX buffer with its RXnIF set. Every step of the driver and chip is then a step of the abstract spec. This implies that no frame is invented or duplicated, and that no dropped frame is handed up later.
- **`RxNoPhantomNoDup`** (rx_without_cs only): every delivered frame arrived, and none is delivered twice.
- **`TxConservation`**: every frame given to `hard_start_xmit` is counted exactly once. It is either in flight, in `tx_packets`, in `tx_errors` (`mcp2515_clean`), or dropped as invalid.
- **`EchoTracksMailbox`**: when the driver is quiet, `tx_len` is non-zero exactly when the chip still holds the frame. "Holding" means TXREQ is set, or TX0IF is set and not yet handled.
- **`StateMatchesChip`**: when the driver is quiet, `priv->can.state` is the chip's fault-confinement state.
- **`CarrierTracksState`** (restart_race only): when the driver is quiet, the carrier is on exactly when `can.state` is not BUS_OFF.
- **`LoadOutcome`** (probe_unwind only): what loading holds agrees with what it returned. A failed module init leaves no platform device. A probe that returned 0 owns a live net device and all five lines, among them the lines the transport toggles. A probe that returned an error holds no line and no net device.
- **`RxDelivered`** (liveness): a frame stored in an RX buffer of an open device is delivered, unless the device stops, the handler quit (after bus-off or for a suspend), or the restart work is set to reset the chip (`after_suspend` is not 0).
- **`TxRetired`** (liveness): a frame given to the driver is retired and the queue woken, unless the device stops, the handler quit, or the chip is bus-off.
- **`OpenReturns`** (liveness): `open` returns.
- **`RestartCompletes`** (liveness): a queued restart work runs, and leaves `force_quit` cleared, so the handler serves interrupts again. It is excused while the system is suspended, and once `stop` has set `force_quit`.
- **`ResumeRestores`** (liveness): after a running interface is resumed, the restart work puts the chip back in the configured mode, wakes the queue and clears `force_quit`. It is excused if the device is stopped, or if the chip goes bus-off again.

Each property of a passing run has a mutant in `PROJECT.json`. A mutant is a
plausible bug of the mapped code that TLC must catch:

- a missing RX flag test;
- an RXnIF left set;
- `clean` not counting an echo;
- no RTS;
- the warning flags tested before the passive ones;
- the handler leaving after one pass;
- waiting for normal mode in every mode;
- the restart work leaving `force_quit` set;
- resume without the `queue_work` call, as shipped.

### Bounds

- **`MaxFrames` = 3.** This is enough to fill RXB0, roll over into RXB1 and overflow. The overflow run uses 4 and the live run 1. The live run also has no allocation failure. Suspend multiplies its state space, and with 2 frames it ran over 10 minutes; the handler's loop and the reset after resume need only one frame.
- **`MaxChipEvents` = 1.** Between two reads by the driver, an error counter may cross several levels. So one event reaches warning, passive or bus-off, and one event can also recover.
- **`MaxRestarts`.** It is 1 in the live and restart_race runs and 0 elsewhere.
- **`MaxSuspends`.** It is 1 in the live run, which is enough to suspend once with the device up, down or mid-restart. It is 0 elsewhere: driver_safety with one suspend takes 26 minutes. A one-off run of it, without `StateMatchesChip`, found no violation (see below).
- **`MaxOpens` = 2.** This gives open, stop and open again.
- **`MaxTx` = 2, `Dlcs` = {1, 9}.** These give one valid frame and one that `can_dropped_invalid_skb` rejects.
- **`MaxAllocFail` = 1.**
- **One load.** Loading happens once. Every fault point is a single call, so one load reaches every exit of the ladder.

Every counter in the model is bounded by one of these.

### Fairness

The following steps are weakly fair:

- the handler thread's steps;
- the steps of an `open`, `stop` or restart work that has started;
- the chip sending a requested frame;
- the chip entering a requested mode.

These are code and hardware that keep running once started. `SuspendSleep` is weakly fair too: `disable_irq` returns once the handler thread has finished.

Mutex acquisitions (`IstLock`, `TxWork`, `StopRegs`, `RestartLock`) are strongly fair. The
kernel mutex hands off to a waiter that keeps waiting.

These are not forced: the stack's calls, restart requests, frame arrivals,
error-counter changes, loading and unloading (a user's `insmod` and `rmmod`),
and suspend and resume. A system may stay asleep, so the liveness properties
excuse a suspended system.

Deadlock checking is off (`CHECK_DEADLOCK FALSE`). The bounded model really
stops once the opens and frames are used up. A real hang, such as open_hang, is
checked as a liveness property instead.

## Not modelled

- **The restart work's DOWN branch.** Resume clears `after_suspend` unless it is UP, so the branch is unreachable.
- **`AFTER_SUSPEND_POWER` and the regulator calls.** `priv->power` and `priv->transceiver` are NULL.
- **The kernel's own carrier check in `can_restart`.** Depending on the kernel version it warns or is a `BUG_ON` when the carrier is on. The model lets the restart proceed. A restart inside the handler's window would oops under `BUG_ON`.
- **A split inside `do_set_mode`.** It is one step. The unlocked `mcp2515_clean` is checked against the other actors only at step granularity.
- **Reloading.** With one load, the effects of a leaked GPIO on the next load (its `gpio_request_one` fails) are not shown. Unloading a bound module always oopses in `remove`, so a clean reload never happens.
- **Unloading an interface that is up.** `ModuleExit` requires the device down. Unloading oopses in `remove` before `unregister_candev` could close the device.
- **`remove`'s other steps** (power off, `clk_disable_unprepare` on the uninitialised `priv->clk`, `free_candev`). They come after the NULL dereference.
- **The error frames `mcp2515_error_skb` synthesises.** Their contents and allocation failure are not modelled.
- **`rx_packets` and `rx_bytes`.**
- **`tx_bytes`.** Its underflow on a TX interrupt with `tx_len == 0` would first show as a `TxConservation` violation.
- **Mailboxes 1 and 2.** The driver only uses mailbox 0.
- **The GPIO waveform of a transaction.**

## Defects seen outside the runs

Twelve runs are kept. These defects are in the model but have no violation run of their own:

- **`stop` does not free the IRQ.** `free_irq` is a comment at line 664, so the next `open` fails in `request_threaded_irq`. A configuration like driver_safety with `StopFreesIrq = FALSE` shows `openRet` becoming `"irq_busy"` on the second open. No run checks this: the passing runs enable line 664, which makes the case unreachable.
- **`remove` dereferences NULL.** Probe never calls `platform_set_drvdata` (it is a comment at line 1077), so every unload of a bound module oopses. With `Unload = TRUE`, the no_workqueue configuration reports this oops instead of the transmit one.
- **The transport drives the wrong lines.** `mcp2515_spi_trans` and `read_reg` pass `GPIO_CLK`, `GPIO_MOSI`, `GPIO_MISO` and `GPIO_CS` (the indices 0..3) to `gpio_set_value` and `gpio_get_value`, not `gpios[]`. With the default parameter, the driver toggles lines it never requested. `LoadOutcome`'s `TransportLines` clause fails on the success path, but probe_unwind reports the shorter ladder trace.
- **The ladder's other exits.**
  - After `hw_probe` or `register_candev` fails, all five lines stay requested.
  - After `gpio_to_irq` fails, probe returns 0 with the net device freed.
  - After `platform_driver_register` fails, the platform device stays registered.

  Each of these violates `LoadOutcome` when `Faults` is narrowed to that call.
- **A stale `can.state` after resume.** Take driver_safety with `PmWired = TRUE` and `MaxSuspends = 1`. Suspend with the chip in ERROR_WARNING, then resume. The restart work resets the chip, which clears its error counters. If its mode wait times out, `set_normal_mode` returns before setting ERROR_ACTIVE (line 565). The driver then keeps reporting ERROR_WARNING, and `StateMatchesChip` is violated. A restart from `do_set_mode` does not meet this, because it sets ERROR_ACTIVE first (line 522).

## Plan for further work

1. **An abstract transmit slot.** This would be the spec's "Pending Transmit
   Slot" with at most one frame, cleared on completion or stop. The detailed
   `tx_skb`/`tx_len`/TXREQ state would be mapped onto it as a refinement.
2. **`RestartMs > 0`.** With a non-zero restart interval, a run would check
   the bus-off state without `force_quit`, together with the `TxWork` BUS_OFF
   branch, which is dead when `RestartMs = 0`.
3. **`read_2regs` as two byte reads.** The chip could then change CANINTF
   between the CANINTF and EFLG bytes.
4. **The suspend state space in the safety run.** This needs a smaller
   configuration: one open, no allocation failure and no loading faults.
