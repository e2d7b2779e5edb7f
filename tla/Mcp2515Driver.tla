--------------------------- MODULE Mcp2515Driver ---------------------------
(***************************************************************************)
(* The driver proper of mcp2515-banged.c composed with the chip:           *)
(*   - the threaded interrupt handler mcp2515_can_ist, one step per SPI    *)
(*     transaction, so that the chip may act between any two of them;      *)
(*   - mcp2515_hard_start_xmit (no lock) and the transmit work;            *)
(*   - mcp2515_open and mcp2515_stop with their failure paths;             *)
(*   - the interrupt line: a falling edge of INT while the IRQ is          *)
(*     requested wakes the handler thread (again, if it is running).       *)
(* All of them serialise on priv->mcp_lock (variable lock).                *)
(*                                                                         *)
(* The source as shipped leaves parts disabled; the constants choose       *)
(* between the shipped text and the disabled lines it carries:             *)
(*   WorkqueueBuilt:      FALSE = priv->wq is never created (lines 927-932 *)
(*                        are a comment, mcp2515_tx_work_handler is #if 0);*)
(*                        TRUE = those lines enabled.                      *)
(*   StopFreesIrq:        FALSE = free_irq in mcp2515_stop is a comment    *)
(*                        (line 664); TRUE = it is enabled.                *)
(*   BufferOpsSelectChip: FALSE = the buffer instructions (READ RX BUFFER, *)
(*                        LOAD TX BUFFER, RTS, RESET) are shifted without  *)
(*                        pulling CS low, as in the source; TRUE = they    *)
(*                        are bracketed like mcp2515_read_reg does.        *)
(*   PmWired:             FALSE = .pm of the platform driver is a comment  *)
(*                        (line 1199), so suspend and resume never run;    *)
(*                        TRUE = it and the queue_work calls of            *)
(*                        mcp2515_can_resume (1174, 1178) are enabled.     *)
(***************************************************************************)
EXTENDS Mcp2515Chip, Sequences, FiniteSets

CONSTANTS RestartMs,           \* priv->can.restart_ms
          CtrlModes,           \* modes the user may configure before open
          WorkqueueBuilt, StopFreesIrq, BufferOpsSelectChip,
          ModeTimeout,         \* the 1 s wait for normal mode may expire
          MaxAllocFail,        \* skb allocations that fail
          MaxOpens,            \* calls of mcp2515_open
          MaxTx,               \* frames the stack hands to the driver
          MaxRestarts,         \* manual restarts the user asks for
          PmWired,
          MaxSuspends,         \* system suspends
          Dlcs,                \* payload lengths of those frames
          NULL,                \* an empty tx_skb
          Garbage              \* a frame decoded from a floating MISO line

ASSUME CtrlModes \subseteq {"normal", "loopback", "listen"}
ASSUME NULL \notin Dlcs /\ Garbage \notin Nat
\* Suspend is modelled on a build with the workqueue, the one the resumed
\* restart work needs.
ASSUME PmWired => WorkqueueBuilt

CAN_MAX_DLEN == 8

States == {"ERROR_ACTIVE", "ERROR_WARNING", "ERROR_PASSIVE", "BUS_OFF", "STOPPED"}
\* The order of enum can_state.
Rank(s) == CASE s = "ERROR_ACTIVE" -> 0 [] s = "ERROR_WARNING" -> 1
             [] s = "ERROR_PASSIVE" -> 2 [] s = "BUS_OFF" -> 3 [] s = "STOPPED" -> 4

IstPcs == {"idle", "wait", "read", "rx0", "rx1", "handle", "tail"}
RstPcs == {"idle", "reset", "mode", "wait", "tail"}
DevStates == {"absent", "down", "open_reset", "open_mode", "open_wait", "open_clean", "up",
              "stop_irq", "stop_wq", "stop_regs", "stop_tail"}

VARIABLES lock,          \* owner of priv->mcp_lock
          istPc,         \* where the handler thread is
          lIntf, lEflag, \* the handler's intf and eflag of this pass
          forceQuit,     \* priv->force_quit
          txSkb,         \* priv->tx_skb: NULL or the DLC of the frame
          txLen,         \* priv->tx_len
          txWorkQueued,  \* priv->tx_work is queued
          wq,            \* priv->wq is a workqueue (not NULL)
          canState,      \* priv->can.state
          statWarn, statPassive, \* can_stats.error_warning / error_passive
          delivered,     \* frames handed to netif_rx_ni, in order
          rxDropped,     \* stats.rx_dropped (failed skb allocations)
          rxOverErrors,  \* stats.rx_over_errors
          ovrCleared,    \* EFLG overflow bits the handler cleared (history)
          txPackets, txErrors, txDropped,
          dev,           \* the net device as open/stop drive it
          ctrlmode,      \* priv->can.ctrlmode chosen for this open
          carrier, queueStopped,
          irqReq,        \* the IRQ is requested
          irqPending,    \* an edge is waiting for the handler thread
          oops,          \* the kernel dereferenced NULL
          opens, txCount, openRet,
          restartTx,     \* priv->restart_tx
          afterSuspend,  \* priv->after_suspend: "none" (0), "up", "down", "restart"
          rstQueued,     \* priv->restart_work is queued
          rstPc,         \* where the restart work is
          restarts,
          pmPc,          \* system sleep: "running", "quit" (in suspend), "suspended"
          suspends

drvVars == <<lock, istPc, lIntf, lEflag, forceQuit, txSkb, txLen, txWorkQueued,
             wq, canState, statWarn, statPassive, delivered, rxDropped,
             rxOverErrors, ovrCleared, txPackets, txErrors, txDropped, dev,
             ctrlmode, carrier, queueStopped, irqReq, irqPending, oops,
             opens, txCount, openRet, restartTx, afterSuspend, rstQueued,
             rstPc, restarts, pmPc, suspends>>
vars == <<chipVars, drvVars>>
drvVarsButPending ==
  <<lock, istPc, lIntf, lEflag, forceQuit, txSkb, txLen, txWorkQueued, wq,
    canState, statWarn, statPassive, delivered, rxDropped, rxOverErrors,
    ovrCleared, txPackets, txErrors, txDropped, dev, ctrlmode, carrier,
    queueStopped, irqReq, oops, opens, txCount, openRet, restartTx,
    afterSuspend, rstQueued, rstPc, restarts, pmPc, suspends>>
\* The restart and system sleep state, left alone by every action but the
\* restart's and suspend's own.
rstVars == <<restartTx, afterSuspend, rstQueued, rstPc, restarts, pmPc, suspends>>

TypeOK ==
  /\ ChipTypeOK
  /\ lock \in {"none", "ist", "txw", "open", "stop", "rst"}
  /\ istPc \in IstPcs
  /\ lIntf \subseteq IntFlags /\ lEflag \subseteq EflgNames
  /\ forceQuit \in BOOLEAN
  /\ txSkb \in Dlcs \cup {NULL}
  /\ txLen \in 0 .. 1 + CAN_MAX_DLEN
  /\ canState \in States /\ ctrlmode \in CtrlModes \cup {"normal"}
  /\ openRet \in {"none", "ok", "irq_busy", "enodev", "ebusy"}
  /\ opens \in 0 .. MaxOpens /\ txCount \in 0 .. MaxTx
  /\ statWarn \in Nat /\ statPassive \in Nat
  /\ delivered \in Seq((1 .. MaxFrames) \cup {Garbage})
  /\ {rxDropped, rxOverErrors, ovrCleared, txPackets, txErrors, txDropped} \subseteq Nat
  /\ dev \in DevStates
  /\ {carrier, queueStopped, irqReq, irqPending, oops, wq, txWorkQueued} \subseteq BOOLEAN
  /\ {restartTx, rstQueued} \subseteq BOOLEAN
  /\ afterSuspend \in {"none", "up", "down", "restart"}
  /\ pmPc \in {"running", "quit", "suspended"} /\ suspends \in 0 .. MaxSuspends
  /\ rstPc \in RstPcs /\ restarts \in 0 .. MaxRestarts

\* Before probe: no device registered yet, the chip powered up.
Init ==
  /\ ChipInit
  /\ lock = "none" /\ istPc = "idle" /\ lIntf = {} /\ lEflag = {}
  /\ forceQuit = FALSE /\ txSkb = NULL /\ txLen = 0
  /\ txWorkQueued = FALSE /\ wq = FALSE
  /\ canState = "STOPPED" /\ statWarn = 0 /\ statPassive = 0
  /\ delivered = <<>> /\ rxDropped = 0 /\ rxOverErrors = 0 /\ ovrCleared = 0
  /\ txPackets = 0 /\ txErrors = 0 /\ txDropped = 0
  /\ dev = "absent" /\ ctrlmode = "normal"
  /\ carrier = FALSE /\ queueStopped = TRUE
  /\ irqReq = FALSE /\ irqPending = FALSE /\ oops = FALSE
  /\ opens = 0 /\ txCount = 0 /\ openRet = "none"
  /\ restartTx = FALSE /\ afterSuspend = "none" /\ rstQueued = FALSE
  /\ rstPc = "idle" /\ restarts = 0 /\ pmPc = "running" /\ suspends = 0

\* A falling edge of INT is latched for the handler while the IRQ is requested.
LatchEdge == irqPending' = (irqPending \/ (irqReq /\ ~IntLine /\ IntLine'))


UnchangedChip == UNCHANGED chipVars

\* The buffer instructions reach the chip only when CS is pulled low.
Selected == BufferOpsSelectChip

----------------------------------------------------------------------------
(* Helpers of the source. *)

\* The freezer has stopped user tasks and the freezable workqueue (created
\* by create_freezable_workqueue, line 929) for a system sleep.
Frozen == pmPc # "running"

\* A clean that counts only a frame not yet loaded (mutant of Clean).
CleanSkbOnly ==
  /\ txErrors' = txErrors + (IF txSkb # NULL THEN 1 ELSE 0)
  /\ txSkb' = NULL
  /\ txLen' = 0

\* mcp2515_clean: a frame still held counts as a tx error; both are dropped.
Clean ==
  /\ txErrors' = txErrors + (IF txSkb # NULL \/ txLen # 0 THEN 1 ELSE 0)
  /\ txSkb' = NULL
  /\ txLen' = 0

\* The warning bits tested before the passive ones (mutant of NewState).
NewStateWarnFirst(ef) ==
  CASE "TXBO" \in ef  -> "BUS_OFF"
    [] "TXWAR" \in ef -> "ERROR_WARNING"
    [] "RXWAR" \in ef -> "ERROR_WARNING"
    [] "TXEP" \in ef  -> "ERROR_PASSIVE"
    [] "RXEP" \in ef  -> "ERROR_PASSIVE"
    [] OTHER          -> "ERROR_ACTIVE"

\* The state the handler derives from EFLG: the most severe condition wins.
NewState(ef) ==
  CASE "TXBO" \in ef  -> "BUS_OFF"
    [] "TXEP" \in ef  -> "ERROR_PASSIVE"
    [] "RXEP" \in ef  -> "ERROR_PASSIVE"
    [] "TXWAR" \in ef -> "ERROR_WARNING"
    [] "RXWAR" \in ef -> "ERROR_WARNING"
    [] OTHER          -> "ERROR_ACTIVE"

\* The statistics switch with its fallthrough from ERROR_ACTIVE.
CountsWarning(old, new) == old = "ERROR_ACTIVE" /\ Rank(new) \in 1 .. 3
CountsPassive(old, new) ==
  old \in {"ERROR_ACTIVE", "ERROR_WARNING"} /\ Rank(new) \in 2 .. 3

\* The mode set_normal_mode requests for the configured ctrlmode.
ReqMode(m) == m

\* Waiting for the mode whatever was requested (mutant of WaitsForNormal).
WaitsForNormalAlways(m) == TRUE

\* Only a request of normal mode is waited for.
WaitsForNormal(m) == m = "normal"

\* free_irq: the IRQ is no longer requested.
ReleaseIrq == irqReq' = FALSE

\* mcp2515_hw_tx loading the mailbox without the RTS (mutant of HwTx).
HwTxNoRts == UnchangedChip

\* mcp2515_hw_tx: LOAD TX BUFFER and RTS; ignored by the chip unselected.
HwTx == IF Selected THEN ChipRequestTx ELSE UnchangedChip

\* The buffer read with RXnIF left set (mutant of HwRx).
HwRxNoClear(n) ==
  \/ /\ rxDropped < MaxAllocFail
     /\ rxDropped' = rxDropped + 1
     /\ UNCHANGED <<delivered>> /\ UnchangedChip
  \/ /\ delivered' = Append(delivered, IF Selected THEN rxb[n] ELSE Garbage)
     /\ UnchangedChip
     /\ UNCHANGED rxDropped

\* mcp2515_hw_rx(n): the skb allocation may fail (rx_dropped++, the buffer
\* is not read, so RXnIF stays set); else the buffer is read and the frame
\* goes to netif_rx_ni.  Unselected, the chip ignores the read and the
\* driver decodes whatever the floating MISO line gave.
HwRx(n) ==
  \/ /\ rxDropped < MaxAllocFail
     /\ rxDropped' = rxDropped + 1
     /\ UNCHANGED <<delivered>> /\ UnchangedChip
  \/ /\ delivered' = Append(delivered, IF Selected THEN rxb[n] ELSE Garbage)
     /\ IF Selected THEN ChipReadRxb(n) ELSE UnchangedChip
     /\ UNCHANGED rxDropped

----------------------------------------------------------------------------
(* mcp2515_can_ist.  The thread is woken by a latched edge (IstStart), takes *)
(* the mutex (IstLock), then loops: read CANINTF and EFLG (IstRead, which   *)
(* also makes the loop's force_quit test), read the receive buffers        *)
(* (IstRx0, IstRx1), and the rest of the pass (IstHandle).                 *)

IstStart ==
  /\ istPc = "idle" /\ irqPending /\ irqReq /\ pmPc # "suspended"
  /\ istPc' = "wait" /\ irqPending' = FALSE
  /\ UNCHANGED <<chipVars, lock, lIntf, lEflag, forceQuit, txSkb, txLen,
                 txWorkQueued, wq, canState, statWarn, statPassive, delivered,
                 rxDropped, rxOverErrors, ovrCleared, txPackets, txErrors,
                 txDropped, dev, ctrlmode, carrier, queueStopped, irqReq, oops,
                 opens, txCount, openRet>>
  /\ UNCHANGED rstVars

IstLock ==
  /\ istPc = "wait" /\ lock = "none"
  /\ lock' = "ist" /\ istPc' = "read"
  /\ UNCHANGED <<chipVars, lIntf, lEflag, forceQuit, txSkb, txLen,
                 txWorkQueued, wq, canState, statWarn, statPassive, delivered,
                 rxDropped, rxOverErrors, ovrCleared, txPackets, txErrors,
                 txDropped, dev, ctrlmode, carrier, queueStopped, irqReq,
                 irqPending, oops, opens, txCount, openRet>>
  /\ UNCHANGED rstVars

\* Leave the loop and drop the mutex.
IstExit == istPc' = "idle" /\ lock' = "none"

IstRead ==
  /\ istPc = "read"
  /\ IF forceQuit
       THEN IstExit /\ UNCHANGED <<lIntf, lEflag>>
       ELSE /\ lIntf' = intf \cap IntFlags /\ lEflag' = EflgBits
            /\ istPc' = "rx0" /\ UNCHANGED lock
  /\ UNCHANGED <<chipVars, forceQuit, txSkb, txLen, txWorkQueued, wq, canState,
                 statWarn, statPassive, delivered, rxDropped, rxOverErrors,
                 ovrCleared, txPackets, txErrors, txDropped, dev, ctrlmode,
                 carrier, queueStopped, irqReq, irqPending, oops, opens,
                 txCount, openRet>>
  /\ UNCHANGED rstVars

\* The buffer read whether or not the pass saw its flag (mutant of IstRxStep).
IstRxStepUnguarded(n, from, to) ==
  /\ istPc = from /\ istPc' = to
  /\ HwRx(n)
  /\ UNCHANGED <<lock, lIntf, lEflag, forceQuit, txSkb, txLen, txWorkQueued,
                 wq, canState, statWarn, statPassive, rxOverErrors, ovrCleared,
                 txPackets, txErrors, txDropped, dev, ctrlmode, carrier,
                 queueStopped, irqReq, irqPending, oops, opens, txCount, openRet>>
  /\ UNCHANGED rstVars

IstRxStep(n, from, to) ==
  /\ istPc = from /\ istPc' = to
  /\ IF (IF n = 0 THEN "RX0" ELSE "RX1") \in lIntf
       THEN HwRx(n)
       ELSE UNCHANGED <<delivered, rxDropped>> /\ UnchangedChip
  /\ UNCHANGED <<lock, lIntf, lEflag, forceQuit, txSkb, txLen, txWorkQueued,
                 wq, canState, statWarn, statPassive, rxOverErrors, ovrCleared,
                 txPackets, txErrors, txDropped, dev, ctrlmode, carrier,
                 queueStopped, irqReq, irqPending, oops, opens, txCount, openRet>>
  /\ UNCHANGED rstVars

IstRx0 == IstRxStep(0, "rx0", "rx1")
IstRx1 == IstRxStep(1, "rx1", "handle")

\* The end of a pass: the loop ends after bus-off with restart_ms == 0 or
\* when the pass saw no flag; else it goes round.
IstContinueOnce(stop) == IstExit
IstContinue(stop) ==
  IF stop THEN IstExit ELSE istPc' = "read" /\ UNCHANGED lock

\* Clear ERRIF/TX0IF and the EFLG bits read, count the state change, set
\* priv->can.state and count the overflows (error skb not modelled).
IstHandle ==
  /\ istPc = "handle" /\ istPc' = "tail"
  /\ LET ns == NewState(lEflag)
     IN /\ intf' = intf \ (lIntf \cap {"ERR", "TX0"})
        /\ ovr' = ovr \ lEflag
        /\ ovrCleared' = ovrCleared + Cardinality(ovr \cap lEflag)
        /\ statWarn' = statWarn + (IF CountsWarning(canState, ns) THEN 1 ELSE 0)
        /\ statPassive' = statPassive + (IF CountsPassive(canState, ns) THEN 1 ELSE 0)
        /\ canState' = ns
        /\ rxOverErrors' =
             IF "ERR" \in lIntf THEN rxOverErrors + Cardinality(lEflag \cap OvrBits)
                                ELSE rxOverErrors
  /\ UNCHANGED <<txLvl, rxLvl, rxb, txreq, opmode, reqop, inte, arrived,
                 chipEvents, lock, lIntf, lEflag, forceQuit, txSkb, txLen,
                 txWorkQueued, wq, delivered, rxDropped, txPackets, txErrors,
                 txDropped, dev, ctrlmode, carrier, queueStopped, irqReq,
                 irqPending, oops, opens, txCount, openRet>>
  /\ UNCHANGED rstVars

\* The rest of the pass.  The bus-off test reads priv->can.state again,
\* which mcp2515_do_set_mode may have changed since IstHandle set it.
IstTail ==
  /\ istPc = "tail"
  /\ LET quit   == canState = "BUS_OFF" /\ RestartMs = 0
         txDone == ~quit /\ lIntf # {} /\ "TX0" \in lIntf
     IN /\ forceQuit' = (forceQuit \/ quit)
        /\ carrier' = (carrier /\ ~quit)
        /\ reqop' = IF quit THEN "sleep" ELSE reqop
        /\ txPackets' = IF txDone THEN txPackets + 1 ELSE txPackets
        /\ txLen' = IF txDone THEN 0 ELSE txLen
        /\ queueStopped' = IF txDone THEN FALSE ELSE queueStopped
        /\ IstContinue(quit \/ lIntf = {})
  /\ UNCHANGED <<intf, ovr, txLvl, rxLvl, rxb, txreq, opmode, inte, arrived,
                 chipEvents, lIntf, lEflag, txSkb, txWorkQueued, wq, canState,
                 statWarn, statPassive, delivered, rxDropped, rxOverErrors,
                 ovrCleared, txErrors, txDropped, dev, ctrlmode, irqReq,
                 irqPending, oops, opens, txCount, openRet>>
  /\ UNCHANGED rstVars

----------------------------------------------------------------------------
(* Transmission: mcp2515_hard_start_xmit, then the tx work under the mutex. *)

\* Called by the stack while the queue is awake.  A busy mailbox returns
\* NETDEV_TX_BUSY and changes nothing, hence the guard.
Xmit ==
  /\ dev = "up" /\ carrier /\ ~queueStopped /\ txCount < MaxTx
  /\ txSkb = NULL /\ txLen = 0
  /\ txCount' = txCount + 1
  /\ \E d \in Dlcs :
       IF d > CAN_MAX_DLEN   \* can_dropped_invalid_skb
       THEN /\ txDropped' = txDropped + 1
            /\ UNCHANGED <<queueStopped, txSkb, txWorkQueued, oops>>
       ELSE /\ queueStopped' = TRUE /\ txSkb' = d
            /\ IF wq THEN txWorkQueued' = TRUE /\ UNCHANGED oops
                     ELSE oops' = TRUE /\ UNCHANGED txWorkQueued
            /\ UNCHANGED txDropped
  /\ UNCHANGED <<chipVars, lock, istPc, lIntf, lEflag, forceQuit, txLen, wq,
                 canState, statWarn, statPassive, delivered, rxDropped,
                 rxOverErrors, ovrCleared, txPackets, txErrors, dev, ctrlmode,
                 carrier, irqReq, irqPending, opens, openRet>>
  /\ UNCHANGED rstVars

\* mcp2515_tx_work_handler, the mutex taken and released in one step.
TxWork ==
  /\ txWorkQueued /\ lock = "none" /\ ~Frozen
  /\ txWorkQueued' = FALSE
  /\ CASE txSkb = NULL ->
            UNCHANGED <<txSkb, txLen, txErrors>> /\ UnchangedChip
       [] canState = "BUS_OFF" ->
            Clean /\ UnchangedChip
       [] OTHER ->
            /\ txLen' = 1 + (IF txSkb > CAN_MAX_DLEN THEN CAN_MAX_DLEN ELSE txSkb)
            /\ txSkb' = NULL
            /\ HwTx
            /\ UNCHANGED txErrors
  /\ UNCHANGED <<lock, istPc, lIntf, lEflag, forceQuit, wq, canState, statWarn,
                 statPassive, delivered, rxDropped, rxOverErrors, ovrCleared,
                 txPackets, txDropped, dev, ctrlmode, carrier, queueStopped,
                 irqReq, irqPending, oops, opens, txCount, openRet>>
  /\ UNCHANGED rstVars

----------------------------------------------------------------------------
(* mcp2515_open, one step per stretch of code between SPI transactions the *)
(* chip can observe.  The mutex is held from OpenStart to the return.      *)

OpenVarsRest == <<istPc, lIntf, lEflag, txWorkQueued, statWarn, statPassive,
                  delivered, rxDropped, rxOverErrors, ovrCleared, txPackets,
                  txErrors, txDropped, oops, txCount>>

\* open_candev, lock, clear the tx state, request_threaded_irq (and, built,
\* create the workqueue).  An IRQ still held gives -EBUSY: unlock, return.
OpenStart ==
  /\ dev = "down" /\ lock = "none" /\ opens < MaxOpens /\ ~Frozen
  /\ opens' = opens + 1
  /\ forceQuit' = FALSE /\ txSkb' = NULL /\ txLen' = 0
  /\ carrier' = TRUE
  /\ IF irqReq
       THEN /\ openRet' = "irq_busy"
            /\ UNCHANGED <<lock, dev, wq, ctrlmode, irqReq, irqPending>>
       ELSE /\ irqReq' = TRUE /\ irqPending' = FALSE
            /\ wq' = WorkqueueBuilt
            /\ \E m \in CtrlModes : ctrlmode' = m
            /\ lock' = "open" /\ dev' = "open_reset"
            /\ UNCHANGED openRet
  /\ UNCHANGED <<chipVars, canState, queueStopped>>
  /\ UNCHANGED OpenVarsRest
  /\ UNCHANGED rstVars

\* mcp2515_hw_reset (RESET, then CANSTAT must read configuration mode) and
\* mcp2515_setup (bit timing and RXBCTRL: rollover on, filters off).
OpenReset ==
  /\ dev = "open_reset"
  /\ IF Selected THEN ChipReset ELSE UnchangedChip
  /\ IF Selected \/ opmode = "conf"
       THEN dev' = "open_mode" /\ UNCHANGED openRet
       ELSE dev' = "open_clean" /\ openRet' = "enodev"
  /\ UNCHANGED <<lock, forceQuit, txSkb, txLen, wq, canState, ctrlmode, carrier,
                 queueStopped, irqReq, irqPending, opens>>
  /\ UNCHANGED OpenVarsRest
  /\ UNCHANGED rstVars

\* The successful end of mcp2515_set_normal_mode and mcp2515_open.
OpenDone ==
  /\ canState' = "ERROR_ACTIVE" /\ queueStopped' = FALSE
  /\ dev' = "up" /\ lock' = "none" /\ openRet' = "ok"

\* mcp2515_set_normal_mode: enable the interrupts, request the mode; only
\* normal mode is waited for.
OpenMode ==
  /\ dev = "open_mode"
  /\ inte' = IntFlags /\ reqop' = ReqMode(ctrlmode)
  /\ irqPending' = (irqPending \/ (irqReq /\ ~IntLine /\ intf \cap IntFlags # {}))
  /\ IF WaitsForNormal(ctrlmode)
       THEN dev' = "open_wait" /\ UNCHANGED <<canState, queueStopped, lock, openRet>>
       ELSE OpenDone
  /\ UNCHANGED <<intf, ovr, txLvl, rxLvl, rxb, txreq, opmode, arrived, chipEvents>>
  /\ UNCHANGED <<forceQuit, txSkb, txLen, wq, ctrlmode, carrier, irqReq, opens>>
  /\ UNCHANGED OpenVarsRest
  /\ UNCHANGED rstVars

\* CANSTAT reads normal mode within the second.
OpenWaitOk ==
  /\ dev = "open_wait" /\ opmode = "normal"
  /\ OpenDone
  /\ UNCHANGED <<chipVars, forceQuit, txSkb, txLen, wq, ctrlmode, carrier,
                 irqReq, irqPending, opens>>
  /\ UNCHANGED OpenVarsRest
  /\ UNCHANGED rstVars

\* The second runs out with CANSTAT not in normal mode: -EBUSY.
OpenWaitTimeout ==
  /\ ModeTimeout /\ dev = "open_wait" /\ opmode # "normal"
  /\ dev' = "open_clean" /\ openRet' = "ebusy"
  /\ UNCHANGED <<chipVars, lock, forceQuit, txSkb, txLen, wq, canState, ctrlmode,
                 carrier, queueStopped, irqReq, irqPending, opens>>
  /\ UNCHANGED OpenVarsRest
  /\ UNCHANGED rstVars

\* mcp2515_open_clean, still under the mutex: free_irq waits until the
\* handler thread, running or woken, has returned; then sleep the chip.
OpenClean ==
  /\ dev = "open_clean" /\ istPc = "idle" /\ ~irqPending
  /\ ReleaseIrq
  /\ reqop' = "sleep"
  /\ dev' = "down" /\ lock' = "none"
  /\ UNCHANGED <<intf, ovr, txLvl, rxLvl, rxb, txreq, opmode, inte, arrived, chipEvents>>
  /\ UNCHANGED <<forceQuit, txSkb, txLen, wq, canState, ctrlmode, carrier,
                 queueStopped, irqPending, opens, openRet>>
  /\ UNCHANGED OpenVarsRest
  /\ UNCHANGED rstVars

----------------------------------------------------------------------------
(* mcp2515_stop.  force_quit, free_irq and destroy_workqueue run without  *)
(* the mutex; the register writes and mcp2515_clean run under it.          *)

StopVarsRest == <<istPc, lIntf, lEflag, delivered, rxDropped, rxOverErrors,
                  ovrCleared, txPackets, txDropped, statWarn, statPassive,
                  ctrlmode, carrier, opens, txCount, openRet>>

\* The core has stopped the queue; close_candev; force_quit = 1.
StopQuit ==
  /\ dev = "up" /\ ~Frozen
  /\ forceQuit' = TRUE /\ queueStopped' = TRUE
  /\ dev' = IF StopFreesIrq THEN "stop_irq" ELSE "stop_wq"
  /\ UNCHANGED <<chipVars, lock, txSkb, txLen, txWorkQueued, wq, canState,
                 irqReq, irqPending, oops, txErrors>>
  /\ UNCHANGED StopVarsRest
  /\ UNCHANGED rstVars

\* free_irq (line 664 enabled): waits for a running or woken handler.
StopIrq ==
  /\ dev = "stop_irq" /\ istPc = "idle" /\ ~irqPending
  /\ ReleaseIrq /\ dev' = "stop_wq"
  /\ UNCHANGED <<chipVars, lock, forceQuit, txSkb, txLen, txWorkQueued, wq,
                 canState, queueStopped, irqPending, oops, txErrors>>
  /\ UNCHANGED StopVarsRest
  /\ UNCHANGED rstVars

\* destroy_workqueue: NULL is dereferenced; a real one is drained first.
StopWq ==
  /\ dev = "stop_wq"
  /\ IF wq
       THEN ~txWorkQueued /\ ~rstQueued /\ rstPc = "idle" /\ wq' = FALSE /\ dev' = "stop_regs" /\ UNCHANGED oops
       ELSE oops' = TRUE /\ UNCHANGED <<wq, dev>>
  /\ UNCHANGED <<chipVars, lock, forceQuit, txSkb, txLen, txWorkQueued, canState,
                 queueStopped, irqReq, irqPending, txErrors>>
  /\ UNCHANGED StopVarsRest
  /\ UNCHANGED rstVars

\* Under the mutex: CANINTE = 0, CANINTF = 0.
StopRegs ==
  /\ dev = "stop_regs" /\ lock = "none"
  /\ lock' = "stop"
  /\ inte' = {} /\ intf' = {}
  /\ dev' = "stop_tail"
  /\ UNCHANGED <<ovr, txLvl, rxLvl, rxb, txreq, opmode, reqop, arrived, chipEvents>>
  /\ UNCHANGED <<forceQuit, txSkb, txLen, txWorkQueued, wq, canState,
                 queueStopped, irqReq, irqPending, oops, txErrors>>
  /\ UNCHANGED StopVarsRest
  /\ UNCHANGED rstVars

\* TXBCTRL(0) = 0 (TXREQ cleared), mcp2515_clean, state STOPPED, unlock.
StopTail ==
  /\ dev = "stop_tail"
  /\ txreq' = FALSE
  /\ Clean
  /\ canState' = "STOPPED"
  /\ lock' = "none" /\ dev' = "down"
  /\ UNCHANGED <<intf, ovr, txLvl, rxLvl, rxb, opmode, reqop, inte, arrived, chipEvents>>
  /\ UNCHANGED <<forceQuit, txWorkQueued, wq, queueStopped, irqReq, irqPending, oops>>
  /\ UNCHANGED StopVarsRest
  /\ UNCHANGED rstVars

----------------------------------------------------------------------------
(* Manual restart.  With restart_ms == 0 the kernel's can_restart_now      *)
(* allows a restart in bus-off only; can_restart calls mcp2515_do_set_mode *)
(* (CAN_MODE_START), then netif_carrier_on.  do_set_mode runs without the  *)
(* mutex and leaves the chip to mcp2515_restart_work_handler (#if 0 in the *)
(* source; enabled with the workqueue, WorkqueueBuilt, and called as       *)
(* mcp2515_set_normal_mode(net)), one step per SPI stretch under the mutex.*)

RstVarsRest == <<istPc, lIntf, lEflag, txWorkQueued, wq, statWarn, statPassive,
                 delivered, rxDropped, rxOverErrors, ovrCleared, txPackets,
                 txDropped, dev, ctrlmode, irqReq, opens, txCount, openRet,
                 pmPc, suspends>>

DoSetMode ==
  /\ dev = "up" /\ RestartMs = 0 /\ canState = "BUS_OFF" /\ ~Frozen
  /\ restarts < MaxRestarts /\ restarts' = restarts + 1
  /\ Clean
  /\ canState' = "ERROR_ACTIVE"
  /\ restartTx' = TRUE
  /\ afterSuspend' = IF RestartMs = 0 THEN "restart" ELSE afterSuspend
  /\ IF wq THEN rstQueued' = TRUE /\ UNCHANGED oops
           ELSE oops' = TRUE /\ UNCHANGED rstQueued
  /\ carrier' = TRUE
  /\ UNCHANGED <<chipVars, lock, forceQuit, queueStopped, irqPending, rstPc>>
  /\ UNCHANGED RstVarsRest

\* The work is run by the workqueue's thread and takes the mutex.
RestartLock ==
  /\ rstQueued /\ rstPc = "idle" /\ lock = "none" /\ ~Frozen
  /\ rstQueued' = FALSE /\ lock' = "rst"
  /\ rstPc' = IF afterSuspend # "none" THEN "reset" ELSE "tail"
  /\ UNCHANGED <<chipVars, forceQuit, txSkb, txLen, canState, txErrors, carrier,
                 queueStopped, irqPending, oops, restartTx, afterSuspend, restarts>>
  /\ UNCHANGED RstVarsRest

\* mcp2515_hw_reset (its -ENODEV is ignored) and mcp2515_setup.
RestartReset ==
  /\ rstPc = "reset" /\ rstPc' = "mode"
  /\ IF Selected THEN ChipReset ELSE UnchangedChip
  /\ UNCHANGED <<lock, forceQuit, txSkb, txLen, canState, txErrors, carrier,
                 queueStopped, irqPending, oops, restartTx, afterSuspend,
                 rstQueued, restarts>>
  /\ UNCHANGED RstVarsRest

\* After a resume of an open device, netif_device_attach (which wakes the
\* queue) and mcp2515_clean; then mcp2515_set_normal_mode: as in open,
\* ERROR_ACTIVE once the mode is requested (not waited for) or entered;
\* its -EBUSY is ignored.  The hw_sleep branch (neither RESTART nor UP) is
\* never taken: resume clears AFTER_SUSPEND_DOWN without queueing the work.
RestartMode ==
  /\ rstPc = "mode"
  /\ IF afterSuspend = "up"
       THEN Clean /\ queueStopped' = FALSE
       ELSE UNCHANGED <<txSkb, txLen, txErrors, queueStopped>>
  /\ inte' = IntFlags /\ reqop' = ReqMode(ctrlmode)
  /\ irqPending' = (irqPending \/ (irqReq /\ ~IntLine /\ intf \cap IntFlags # {}))
  /\ IF WaitsForNormal(ctrlmode)
       THEN rstPc' = "wait" /\ UNCHANGED canState
       ELSE rstPc' = "tail" /\ canState' = "ERROR_ACTIVE"
  /\ UNCHANGED <<intf, ovr, txLvl, rxLvl, rxb, txreq, opmode, arrived, chipEvents>>
  /\ UNCHANGED <<lock, forceQuit, carrier, oops, restartTx, afterSuspend,
                 rstQueued, restarts>>
  /\ UNCHANGED RstVarsRest

\* CANSTAT reads normal mode (ERROR_ACTIVE), or the second runs out first.
RestartWait ==
  /\ rstPc = "wait"
  /\ \/ opmode = "normal" /\ canState' = "ERROR_ACTIVE"
     \/ ModeTimeout /\ opmode # "normal" /\ UNCHANGED canState
  /\ rstPc' = "tail"
  /\ UNCHANGED <<chipVars, lock, forceQuit, txSkb, txLen, txErrors,
                 carrier, queueStopped, irqPending, oops, restartTx, afterSuspend,
                 rstQueued, restarts>>
  /\ UNCHANGED RstVarsRest

\* The restart work leaving force_quit set (mutant of RestartTail).
RestartTailKeepsQuit ==
  /\ rstPc = "tail"
  /\ afterSuspend' = "none" /\ restartTx' = FALSE
  /\ IF restartTx
       THEN /\ txreq' = FALSE /\ Clean /\ queueStopped' = FALSE
       ELSE UNCHANGED <<txreq, txSkb, txLen, txErrors, queueStopped>>
  /\ rstPc' = "idle" /\ lock' = "none"
  /\ UNCHANGED <<intf, ovr, txLvl, rxLvl, rxb, opmode, reqop, inte, arrived, chipEvents>>
  /\ UNCHANGED <<forceQuit, canState, carrier, irqPending, oops, rstQueued, restarts>>
  /\ UNCHANGED RstVarsRest

\* after_suspend = force_quit = 0; with restart_tx: TXBCTRL(0) = 0,
\* mcp2515_clean, netif_wake_queue (error skb not modelled); unlock.
RestartTail ==
  /\ rstPc = "tail"
  /\ afterSuspend' = "none"
  /\ forceQuit' = (forceQuit /\ afterSuspend = "none")
  /\ restartTx' = FALSE
  /\ IF restartTx
       THEN /\ txreq' = FALSE /\ Clean /\ queueStopped' = FALSE
       ELSE UNCHANGED <<txreq, txSkb, txLen, txErrors, queueStopped>>
  /\ rstPc' = "idle" /\ lock' = "none"
  /\ UNCHANGED <<intf, ovr, txLvl, rxLvl, rxb, opmode, reqop, inte, arrived, chipEvents>>
  /\ UNCHANGED <<canState, carrier, irqPending, oops, rstQueued, restarts>>
  /\ UNCHANGED RstVarsRest

Restart == DoSetMode \/ RestartLock \/ RestartReset \/ RestartMode \/ RestartWait
           \/ RestartTail

----------------------------------------------------------------------------
(* mcp2515_can_suspend and mcp2515_can_resume, called by the PM core once  *)
(* .pm is wired (PmWired).  Before suspend the freezer has stopped user    *)
(* tasks between their calls (open, stop, a restart request) and the      *)
(* freezable workqueue between its works; the handler thread is not        *)
(* frozen.  Resume runs before the tasks and the workqueue are thawed.     *)
(* priv->power and priv->transceiver are NULL, so AFTER_SUSPEND_POWER is   *)
(* never set and the regulator calls do nothing.                           *)

PmVarsRest == <<lIntf, lEflag, txSkb, txLen, txWorkQueued, wq, canState,
                statWarn, statPassive, delivered, rxDropped, rxOverErrors,
                ovrCleared, txPackets, txErrors, txDropped, dev, ctrlmode,
                carrier, irqReq, irqPending, opens, txCount, openRet, restartTx,
                rstPc, restarts, lock, istPc>>

\* The freezer, then force_quit = 1; disable_irq stops new handler runs.
SuspendQuit ==
  /\ PmWired /\ pmPc = "running" /\ suspends < MaxSuspends
  /\ dev \in {"down", "up"} /\ lock \in {"none", "ist"} /\ rstPc = "idle"
  /\ pmPc' = "quit" /\ suspends' = suspends + 1 /\ forceQuit' = TRUE
  /\ UNCHANGED <<chipVars, queueStopped, oops, afterSuspend, rstQueued>>
  /\ UNCHANGED PmVarsRest

\* disable_irq returns once the woken handler thread has finished; a
\* running interface is detached (queue stopped) and the chip put to sleep.
SuspendSleep ==
  /\ pmPc = "quit" /\ istPc = "idle" /\ ~irqPending
  /\ IF dev = "up"
       THEN /\ queueStopped' = TRUE /\ reqop' = "sleep" /\ afterSuspend' = "up"
       ELSE /\ afterSuspend' = "down" /\ UNCHANGED <<queueStopped, reqop>>
  /\ pmPc' = "suspended"
  /\ UNCHANGED <<intf, ovr, txLvl, rxLvl, rxb, txreq, opmode, inte, arrived, chipEvents>>
  /\ UNCHANGED <<forceQuit, oops, rstQueued, suspends>>
  /\ UNCHANGED PmVarsRest

\* Resume as shipped, without the queue_work calls (mutant of Resume).
ResumeNoRestart ==
  /\ pmPc = "suspended"
  /\ afterSuspend' = IF afterSuspend = "up" THEN "up" ELSE "none"
  /\ forceQuit' = FALSE /\ pmPc' = "running"
  /\ UNCHANGED <<chipVars, queueStopped, oops, rstQueued, suspends>>
  /\ UNCHANGED PmVarsRest

\* AFTER_SUSPEND_UP: queue the restart work (on the workqueue open
\* created: the device was up and stop is frozen); otherwise
\* after_suspend = 0.  force_quit = 0, enable_irq (an edge latched
\* meanwhile is replayed).
Resume ==
  /\ pmPc = "suspended"
  /\ IF afterSuspend = "up"
       THEN rstQueued' = TRUE /\ UNCHANGED afterSuspend
       ELSE afterSuspend' = "none" /\ UNCHANGED rstQueued
  /\ forceQuit' = FALSE /\ pmPc' = "running"
  /\ UNCHANGED <<chipVars, queueStopped, oops, suspends>>
  /\ UNCHANGED PmVarsRest

Pm == SuspendQuit \/ SuspendSleep \/ Resume

----------------------------------------------------------------------------
(* The chip acts by itself; a falling edge of INT is latched. *)
Env ==
  /\ ChipNext /\ LatchEdge
  /\ UNCHANGED drvVarsButPending

Ist == IstStart \/ IstLock \/ IstRead \/ IstRx0 \/ IstRx1 \/ IstHandle \/ IstTail
Open == OpenStart \/ OpenReset \/ OpenMode \/ OpenWaitOk \/ OpenWaitTimeout \/ OpenClean
Stop == StopQuit \/ StopIrq \/ StopWq \/ StopRegs \/ StopTail

\* After a NULL dereference the kernel has oopsed: nothing more happens.
Next == ~oops /\ (Ist \/ Xmit \/ TxWork \/ Open \/ Stop \/ Restart \/ Pm \/ Env)

(***************************************************************************)
(* Fairness.  The handler thread and the code after a started open or stop *)
(* keep running (weak fairness); the mutex is handed to a waiter that      *)
(* keeps asking (strong fairness, the mutex's handoff); a requested frame  *)
(* is sent and a requested mode is entered by the chip (weak fairness).    *)
(* The stack's calls, frame arrivals and error events are not forced.      *)
(***************************************************************************)
Fairness ==
  /\ WF_vars(~oops /\ (IstStart \/ IstRead \/ IstRx0 \/ IstRx1 \/ IstHandle \/ IstTail))
  /\ SF_vars(~oops /\ IstLock) /\ SF_vars(~oops /\ TxWork)
  /\ WF_vars(~oops /\ (OpenReset \/ OpenMode \/ OpenWaitOk \/ OpenWaitTimeout \/ OpenClean))
  /\ WF_vars(~oops /\ (StopIrq \/ StopWq \/ StopTail))
  /\ SF_vars(~oops /\ StopRegs)
  /\ SF_vars(~oops /\ RestartLock)
  /\ WF_vars(~oops /\ SuspendSleep)
  /\ WF_vars(~oops /\ (RestartReset \/ RestartMode \/ RestartWait \/ RestartTail))
  /\ WF_vars(~oops /\ ChipTxDone /\ LatchEdge /\ UNCHANGED drvVarsButPending)
  /\ WF_vars(~oops /\ ChipModeSettle /\ LatchEdge /\ UNCHANGED drvVarsButPending)

Spec == Init /\ [][Next]_vars /\ Fairness

----------------------------------------------------------------------------
(* Properties. *)

Positions(q, x) == {i \in 1 .. Len(q) : q[i] = x}

\* Every frame mcp2515_hw_rx hands to netif_rx_ni is a frame the chip
\* received, and none twice: reading an RX buffer clears its RXnIF, so the
\* handler's next pass cannot deliver the same buffer again.
RxNoPhantomNoDup ==
  \A i \in 1 .. Len(delivered) :
    /\ delivered[i] \in 1 .. arrived
    /\ Positions(delivered, delivered[i]) = {i}

\* Frames are delivered in the order they arrived on the bus, although the
\* handler reads RXB0 before RXB1 in a pass and the chip rolls over.
RxInOrder ==
  \A i, j \in 1 .. Len(delivered) :
    i < j /\ delivered[i] \in Nat /\ delivered[j] \in Nat => delivered[i] < delivered[j]

\* Every frame the stack handed to mcp2515_hard_start_xmit is accounted for
\* exactly once: in flight (tx_skb or tx_len), sent (tx_packets, counted by
\* the handler's TX interrupt), failed (tx_errors, by mcp2515_clean) or
\* dropped as invalid.
InFlight == (IF txSkb # NULL THEN 1 ELSE 0) + (IF txLen # 0 THEN 1 ELSE 0)
TxConservation ==
  txCount = txPackets + txErrors + txDropped + InFlight

\* Whenever nothing is running in the driver on an open device, tx_len
\* (the echo skb held) is set exactly when the chip still has the frame:
\* requested, or sent with TX0IF not yet handled.
Quiet ==
  /\ dev = "up" /\ lock = "none" /\ istPc = "idle" /\ ~irqPending
  /\ ~txWorkQueued /\ ~forceQuit /\ ~rstQueued
EchoTracksMailbox ==
  Quiet => (txLen # 0 <=> (txreq \/ "TX0" \in intf))

\* Whenever the handler is idle on an open device, priv->can.state is the
\* fault confinement state the chip is in: every change of the error
\* counters raised ERRIF, and the handler looped until it had seen it and
\* decoded EFLG into the state.
StateMatchesChip ==
  Quiet => canState = ChipErrorState

\* Whenever the driver is quiet on an open device, the carrier is on
\* exactly when priv->can.state is not BUS_OFF: open turns it on in
\* ERROR_ACTIVE, can_bus_off in the handler turns it off with BUS_OFF (and
\* the handler quits), and can_restart turns it on after do_set_mode set
\* ERROR_ACTIVE.  Off in another state, a further restart is refused.
CarrierTracksState == Quiet => (carrier <=> canState # "BUS_OFF")

\* An overflow the handler clears from EFLG has been counted in
\* rx_over_errors (the counting is gated by ERRIF of the same read).
OverflowCounted == rxOverErrors = ovrCleared

\* The kernel never dereferences a NULL workqueue.
NoOops == ~oops

\* A frame held in an RX buffer of an open device is delivered, unless the
\* device is stopped, the handler quit (after bus-off, or for a suspend),
\* or the restart work is set to reset the chip (after a resume or a
\* restart request: after_suspend is not 0).
Stored(k) == \E n \in 0 .. 1 : rxb[n] = k /\ (IF n = 0 THEN "RX0" ELSE "RX1") \in intf
RxDelivered ==
  \A k \in 1 .. MaxFrames :
    (Stored(k) /\ dev = "up" /\ ~forceQuit)
      ~> (Positions(delivered, k) # {} \/ dev # "up" \/ forceQuit
          \/ afterSuspend # "none")

\* The receive path implements Mcp2515RxAbstract.  A frame counts as lost
\* once it has arrived and is neither delivered nor held in a receive
\* buffer whose RXnIF is set; every step of the handler, the chip, open,
\* stop and restart is then an abstract step: the handler hands up only
\* frames still owed, each once, and never a frame whose flag was cleared
\* (by mcp2515_stop, a reset, or an overrun) from a buffer that still
\* holds it.
LostFrames == {k \in 1 .. arrived : ~Stored(k) /\ Positions(delivered, k) = {}}
RxA == INSTANCE Mcp2515RxAbstract WITH lost <- LostFrames
RxRefinement == RxA!AbsSpec

\* A frame given to the driver is retired (sent or cleaned) and the queue
\* woken, unless the device stops, the handler quit, or the chip went
\* bus-off.
TxRetired ==
  (InFlight # 0 /\ dev = "up")
    ~> ((InFlight = 0 /\ ~queueStopped) \/ dev # "up" \/ forceQuit \/ txLvl = 3)

\* A manual restart is carried out: the restart work runs, and the handler
\* is let run again (force_quit cleared), whatever the handler and the
\* stack do meanwhile, unless the system is suspended (the freezable
\* workqueue runs nothing until resume, which nothing forces); once
\* mcp2515_can_stop has begun, force_quit stays set by design.
RestartCompletes ==
  rstQueued ~> ((rstPc = "idle" /\ ~rstQueued /\ (~forceQuit \/ dev # "up"))
                \/ pmPc = "suspended")

\* After a resume of an interface that was up, the restart work brings it
\* back: the chip leaves sleep for the configured mode, the queue is awake
\* and the handler serves interrupts, unless the interface is stopped or
\* the chip goes bus-off meanwhile.
ResumeRestores ==
  (pmPc = "running" /\ afterSuspend = "up")
    ~> ((afterSuspend = "none" /\ opmode = ReqMode(ctrlmode) /\ ~queueStopped
         /\ ~forceQuit) \/ dev # "up" \/ txLvl = 3)

\* mcp2515_open returns.
OpenReturns == dev \in {"open_reset", "open_mode", "open_wait", "open_clean"} ~> dev \in {"up", "down"}
====
