---------------------------- MODULE Mcp2515Chip ----------------------------
(***************************************************************************)
(* The MCP2515 as the driver sees it over SPI: the register bits the       *)
(* driver reads and writes, the two receive buffers and the one transmit   *)
(* mailbox it uses, the error counters (as levels) and the operating mode. *)
(* This is the environment of the driver (MCP2515 data sheet; spec.md 4.2, *)
(* 4.5, 6), not code of the repository.                                    *)
(*                                                                         *)
(* A frame on the bus is named by its arrival number 1..MaxFrames.         *)
(* The chip acts on its own between any two SPI transactions: it stores    *)
(* arriving frames (RXB0, rolling over into RXB1 as RXBCTRL(0).BUKT asks,  *)
(* else RX1OVR), sends a requested frame, and moves its error counters.    *)
(***************************************************************************)
EXTENDS Naturals

CONSTANTS MaxFrames,     \* frames that arrive from the bus
          MaxChipEvents  \* error-counter changes of the chip

NoFrame == 0
IntFlags == {"RX0", "RX1", "TX0", "ERR"}   \* CANINTF bits the driver enables
OvrBits == {"RX0OVR", "RX1OVR"}
EflgNames == OvrBits \cup {"TXBO", "TXEP", "RXEP", "TXWAR", "RXWAR", "EWARN"}
Modes == {"conf", "normal", "loopback", "listen", "sleep"}

VARIABLES intf,     \* CANINTF (RX0IF, RX1IF, TX0IF, ERRIF)
          ovr,      \* EFLG.RX0OVR / RX1OVR, the latched EFLG bits
          txLvl,    \* TEC as a level: 0 ok, 1 >= 96, 2 >= 128, 3 bus-off
          rxLvl,    \* REC as a level: 0 ok, 1 >= 96, 2 >= 128
          rxb,      \* the frame each receive buffer holds
          txreq,    \* TXB0CTRL.TXREQ
          opmode,   \* CANSTAT.OPMOD
          reqop,    \* CANCTRL.REQOP
          inte,     \* CANINTE (the flags enabled onto the INT pin)
          arrived,  \* frames that reached the chip so far
          chipEvents

chipVars == <<intf, ovr, txLvl, rxLvl, rxb, txreq, opmode, reqop, inte,
              arrived, chipEvents>>

\* EFLG as read: the error bits follow the counters, the OVR bits latch.
EflgBits ==
  ovr
  \cup (IF txLvl = 3 THEN {"TXBO"} ELSE {})
  \cup (IF txLvl >= 2 THEN {"TXEP"} ELSE {})
  \cup (IF txLvl >= 1 THEN {"TXWAR", "EWARN"} ELSE {})
  \cup (IF rxLvl >= 2 THEN {"RXEP"} ELSE {})
  \cup (IF rxLvl >= 1 THEN {"RXWAR", "EWARN"} ELSE {})

\* The fault confinement state the error counters put the chip in
\* (data sheet, error states): bus-off, error-passive at 128, warning at 96.
ChipErrorState ==
  CASE txLvl = 3                  -> "BUS_OFF"
    [] txLvl = 2 \/ rxLvl = 2     -> "ERROR_PASSIVE"
    [] txLvl = 1 \/ rxLvl = 1     -> "ERROR_WARNING"
    [] OTHER                      -> "ERROR_ACTIVE"

\* The INT pin is low while an enabled flag is set.
IntLine == intf \cap inte # {}

ChipTypeOK ==
  /\ intf \subseteq IntFlags
  /\ ovr \subseteq OvrBits
  /\ txLvl \in 0 .. 3 /\ rxLvl \in 0 .. 2
  /\ rxb \in [0 .. 1 -> 0 .. MaxFrames]
  /\ txreq \in BOOLEAN
  /\ opmode \in Modes /\ reqop \in Modes
  /\ inte \subseteq IntFlags
  /\ arrived \in 0 .. MaxFrames
  /\ chipEvents \in 0 .. MaxChipEvents

\* Power-up: configuration mode, nothing pending, interrupts disabled.
ChipInit ==
  /\ intf = {} /\ ovr = {}
  /\ txLvl = 0 /\ rxLvl = 0
  /\ rxb = [n \in 0 .. 1 |-> NoFrame]
  /\ txreq = FALSE
  /\ opmode = "conf" /\ reqop = "conf"
  /\ inte = {}
  /\ arrived = 0 /\ chipEvents = 0

----------------------------------------------------------------------------
(* Effects of the SPI instructions the driver issues.  Each is applied only *)
(* when the chip is selected (CS low) while the bytes are shifted.          *)

\* RESET: every register back to its reset value (buffer contents stay).
ChipReset ==
  /\ intf' = {} /\ ovr' = {}
  /\ txLvl' = 0 /\ rxLvl' = 0
  /\ txreq' = FALSE
  /\ opmode' = "conf" /\ reqop' = "conf"
  /\ inte' = {}
  /\ UNCHANGED <<rxb, arrived, chipEvents>>

\* READ RX BUFFER n: RXnIF is cleared when CS goes high after the read.
ChipReadRxb(n) ==
  /\ intf' = intf \ {IF n = 0 THEN "RX0" ELSE "RX1"}
  /\ UNCHANGED <<ovr, txLvl, rxLvl, rxb, txreq, opmode, reqop, inte, arrived, chipEvents>>

\* LOAD TX BUFFER then RTS: the mailbox is loaded and TXREQ set.
ChipRequestTx ==
  /\ txreq' = TRUE
  /\ UNCHANGED <<intf, ovr, txLvl, rxLvl, rxb, opmode, reqop, inte, arrived, chipEvents>>

----------------------------------------------------------------------------
(* What the chip does by itself. *)

Receiving == opmode \in {"normal", "listen"}

\* Frame arrived+1 is stored, CANINTF being f0 before it: RXB0 if free,
\* else RXB1 (rollover), else it is lost and RX1OVR and ERRIF are set.
Store(f0) ==
  /\ arrived' = arrived + 1
  /\ CASE "RX0" \notin f0 ->
            rxb' = [rxb EXCEPT ![0] = arrived + 1] /\ intf' = f0 \cup {"RX0"}
            /\ UNCHANGED ovr
       [] "RX1" \notin f0 ->
            rxb' = [rxb EXCEPT ![1] = arrived + 1] /\ intf' = f0 \cup {"RX1"}
            /\ UNCHANGED ovr
       [] OTHER ->
            ovr' = ovr \cup {"RX1OVR"} /\ intf' = f0 \cup {"ERR"}
            /\ UNCHANGED rxb

\* A frame arrives from the bus.
ChipReceive ==
  /\ Receiving /\ arrived < MaxFrames
  /\ Store(intf)
  /\ UNCHANGED <<txLvl, rxLvl, txreq, opmode, reqop, inte, chipEvents>>

\* The requested frame is sent (not in bus-off, not in listen-only).  In
\* loopback mode the chip also receives the frame it sent.
ChipTxDone ==
  /\ txreq /\ opmode \in {"normal", "loopback"} /\ txLvl < 3
  /\ txreq' = FALSE
  /\ IF opmode = "loopback" /\ arrived < MaxFrames
       THEN Store(intf \cup {"TX0"})
       ELSE intf' = intf \cup {"TX0"} /\ UNCHANGED <<ovr, rxb, arrived>>
  /\ UNCHANGED <<txLvl, rxLvl, opmode, reqop, inte, chipEvents>>

\* Error counters move; any change of error state raises ERRIF.  TEC only
\* grows while the chip transmits; bus-off recovery clears TEC.  Between
\* two reads of the driver a counter may cross several levels.
ErrorChange(t, r) ==
  /\ chipEvents < MaxChipEvents
  /\ chipEvents' = chipEvents + 1
  /\ txLvl' = t /\ rxLvl' = r
  /\ intf' = intf \cup {"ERR"}
  /\ UNCHANGED <<ovr, rxb, txreq, opmode, reqop, inte, arrived>>

ChipTxError ==
  txreq /\ opmode = "normal" /\ \E t \in txLvl + 1 .. 3 : ErrorChange(t, rxLvl)
\* In listen-only mode the error counters are off.
ChipRxError ==
  opmode = "normal" /\ \E r \in rxLvl + 1 .. 2 : ErrorChange(txLvl, r)
ChipRecover ==
  /\ opmode = "normal"
  /\ \/ txLvl = 3 /\ ErrorChange(0, rxLvl)
     \/ txLvl \in 1 .. 2 /\ \E t \in 0 .. txLvl - 1 : ErrorChange(t, rxLvl)
     \/ \E r \in 0 .. rxLvl - 1 : ErrorChange(txLvl, r)

\* The mode requested in CANCTRL takes effect (CANSTAT follows).
ChipModeSettle ==
  /\ opmode # reqop
  /\ opmode' = reqop
  /\ UNCHANGED <<intf, ovr, txLvl, rxLvl, rxb, txreq, reqop, inte, arrived, chipEvents>>

ChipNext ==
  \/ ChipReceive \/ ChipTxDone \/ ChipTxError \/ ChipRxError \/ ChipRecover
  \/ ChipModeSettle
=============================================================================
