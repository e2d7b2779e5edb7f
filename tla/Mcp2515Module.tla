--------------------------- MODULE Mcp2515Module ---------------------------
(***************************************************************************)
(* Loading and unloading the module: mcp2515_banged_init registers the     *)
(* platform device and the platform driver, which binds and calls          *)
(* mcp2515_can_probe; mcp2515_banged_exit unregisters them, calling        *)
(* mcp2515_can_remove when probe had returned 0.  Probe allocates the net  *)
(* device, requests the five GPIO lines gpios[GPIO_MISO .. GPIO_INT], maps *)
(* INT to an IRQ, identifies the chip (mcp2515_hw_probe) and registers the *)
(* CAN device; on a failure it unwinds through the goto ladder.            *)
(*                                                                         *)
(* Every call that may fail is a fault point; a call in Faults may fail or *)
(* succeed where the code makes it, the others succeed.  The driver        *)
(* of Mcp2515Driver starts on a registered device (dev leaves "absent").   *)
(* The user unloads the module only when the interface is down.            *)
(***************************************************************************)
EXTENDS Mcp2515Driver

CONSTANTS Gpios,   \* the module parameter gpios[]: index -> GPIO number
          Faults,  \* the calls that fail
          Unload   \* the user unloads the module

FaultPoints == {"device_register", "driver_register", "alloc_candev",
                "gpio_request", "gpio_to_irq", "hw_probe", "register_candev"}
ASSUME Faults \subseteq FaultPoints

\* GPIO_MISO .. GPIO_INT
GpioIdx == 0 .. 4
\* The lines probe requests.
Lines == {Gpios[i] : i \in GpioIdx}
\* The lines mcp2515_spi_trans drives and samples: it passes the index
\* macros GPIO_CLK, GPIO_MOSI, GPIO_MISO, GPIO_CS to gpio_set/get_value.
TransportLines == 0 .. 3

VARIABLES modPc,    \* where loading is
          held,     \* GPIO numbers requested and not freed
          netState, \* the net device: "none", "live" or "freed"
          pdevReg   \* mcp2515_can_device is registered

modVars == <<modPc, held, netState, pdevReg>>
allVars == <<vars, modVars>>

\* The driver state probe and exit leave alone.
drvRest == <<lock, istPc, lIntf, lEflag, forceQuit, txSkb, txLen, txWorkQueued,
             wq, canState, statWarn, statPassive, delivered, rxDropped,
             rxOverErrors, ovrCleared, txPackets, txErrors, txDropped,
             ctrlmode, carrier, queueStopped, irqReq, irqPending, opens,
             txCount, openRet, restartTx, afterSuspend, rstQueued, rstPc,
             restarts, pmPc, suspends>>

SysInit ==
  /\ Init
  /\ modPc = "unloaded" /\ held = {} /\ netState = "none" /\ pdevReg = FALSE

\* A step of loading: the driver is not running yet, the chip is idle.
Loading == UNCHANGED <<chipVars, drvRest, dev, oops>>

\* mcp2515_banged_init: both error paths jump to exit_free_device, which
\* returns err without unregistering a registered device.
ModuleInit ==
  /\ modPc = "unloaded"
  /\ \/ /\ "device_register" \in Faults
        /\ modPc' = "init_failed" /\ UNCHANGED pdevReg
     \/ /\ pdevReg' = TRUE
        /\ \/ "driver_register" \in Faults /\ modPc' = "init_failed"
           \/ modPc' = "probe"
  /\ UNCHANGED <<held, netState>> /\ Loading

\* The goto ladder from label out_int_irq (k = 5) or the label of the k-th
\* request down to out_mosi: gpio_free is given the index GPIO_x, not the
\* line gpios[GPIO_x] that was requested.  error_probe powers off
\* priv->power, which probe never set (a no-op); out_clock frees the net.
Unwound(h, k) == h \ (0 .. k - 1)
Fail == modPc' = "unbound" /\ netState' = "freed"

\* alloc_candev, the priv set-up, power on (priv->power is NULL) and
\* mutex_init.
ProbeAlloc ==
  /\ modPc = "probe"
  /\ \/ "alloc_candev" \in Faults /\ modPc' = "unbound" /\ UNCHANGED netState
     \/ netState' = "live" /\ modPc' = "gpio"
  /\ UNCHANGED <<held, pdevReg>> /\ Loading

\* The five gpio_request_one calls; request k fails (k = 5: none does).
ProbeGpios ==
  /\ modPc = "gpio"
  /\ \E k \in (IF "gpio_request" \in Faults THEN GpioIdx ELSE {}) \cup {5} :
       LET got == held \cup {Gpios[j] : j \in 0 .. k - 1}
       IN  IF k = 5 THEN held' = got /\ modPc' = "irq" /\ UNCHANGED netState
           ELSE held' = Unwound(got, k) /\ Fail
  /\ UNCHANGED pdevReg /\ Loading

\* gpio_to_irq: on failure the ladder is entered at out_int_irq with ret
\* still 0 from the last gpio_request_one, so probe returns success.
ProbeIrq ==
  /\ modPc = "irq"
  /\ \/ /\ "gpio_to_irq" \in Faults
        /\ held' = Unwound(held, 5) /\ netState' = "freed" /\ modPc' = "bound"
     \/ modPc' = "chip" /\ UNCHANGED <<held, netState>>
  /\ UNCHANGED pdevReg /\ Loading

\* mcp2515_hw_probe: mcp2515_hw_reset shifts RESET (reaching the chip only
\* when the buffer instructions select it), reads CANSTAT and wants
\* configuration mode, then reads CANCTRL and wants its power-up low bits,
\* which the driver has not yet written.  "hw_probe" stands for a board on
\* which the chip does not answer.  A failure jumps to error_probe: no line
\* is freed.
ProbeChip ==
  /\ modPc = "chip"
  /\ IF Selected THEN ChipReset ELSE UnchangedChip
  /\ LET found == opmode' = "conf" /\ reqop' = "conf"
     IN  \/ found /\ modPc' = "register" /\ UNCHANGED netState
         \/ ("hw_probe" \in Faults \/ ~found) /\ Fail
  /\ UNCHANGED <<held, pdevReg, drvRest, dev, oops>>

\* register_candev; on failure to error_probe, no line freed.
ProbeRegister ==
  /\ modPc = "register"
  /\ \/ "register_candev" \in Faults /\ Fail /\ UNCHANGED dev
     \/ modPc' = "bound" /\ dev' = "down" /\ UNCHANGED netState
  /\ UNCHANGED <<held, pdevReg, chipVars, drvRest, oops>>

\* mcp2515_banged_exit with the interface down.  platform_driver_unregister
\* calls mcp2515_can_remove for a bound device; remove takes the net device
\* from platform_get_drvdata, which probe never set (platform_set_drvdata is
\* a comment), and unregister_candev(NULL) dereferences it.  Remove frees
\* no GPIO line.  Then platform_device_unregister.
ModuleExit ==
  /\ Unload /\ modPc \in {"bound", "unbound"}
  /\ dev \in {"down", "absent"}
  /\ IF modPc = "bound"
       THEN oops' = TRUE /\ UNCHANGED <<modPc, pdevReg>>
       ELSE modPc' = "exited" /\ pdevReg' = FALSE /\ UNCHANGED oops
  /\ UNCHANGED <<held, netState, chipVars, drvRest, dev>>

Load == ModuleInit \/ ProbeAlloc \/ ProbeGpios \/ ProbeIrq \/ ProbeChip
        \/ ProbeRegister \/ ModuleExit

SysNext == ~oops /\ ((Next /\ UNCHANGED modVars) \/ Load)

SysSpec == SysInit /\ [][SysNext]_allVars /\ Fairness

----------------------------------------------------------------------------
\* What loading holds agrees with what it returned.  A failed
\* mcp2515_banged_init leaves no platform device registered; a probe that
\* returned 0 owns a live net device and every line it asked for, among
\* them the lines mcp2515_spi_trans toggles; a probe that returned an error
\* (and the module after it is unloaded) holds no line and no net device.
LoadOutcome ==
  /\ modPc = "init_failed" => ~pdevReg
  /\ modPc = "bound" => netState = "live" /\ held = Lines /\ TransportLines \subseteq held
  /\ modPc \in {"unbound", "exited"} => held = {} /\ netState # "live"
============================================================================
