---------------------------- MODULE Mcp2515Codec ----------------------------
(***************************************************************************)
(* The data transformations of mcp2515-banged.c that do no I/O:            *)
(*   - EncodeTx: the TX mailbox image mcp2515_hw_tx builds from a frame;   *)
(*   - DecodeRx: the frame mcp2515_hw_rx rebuilds from an RX mailbox image;*)
(*   - Cnf1/Cnf2/Cnf3Bits: the bit-timing register values                  *)
(*     mcp2515_do_set_bittiming writes.                                    *)
(* A frame is the struct can_frame with its can_id split into the two      *)
(* flags and the 29 identifier bits (can_id & CAN_EFF_MASK).  A register   *)
(* image is a function from the byte offset (TXBCTRL_OFF = RXBCTRL_OFF = 0 *)
(* ...) to a byte.                                                         *)
(***************************************************************************)
EXTENDS Integers, Bitwise

\* Register layout constants of the source (lines 129-169, 188-189).
SIDH_SHIFT == 3
SIDL_SID_MASK == 7
SIDL_SID_SHIFT == 5
SIDL_EXIDE_SHIFT == 3
SIDL_EID_SHIFT == 16
SIDL_EID_MASK == 3
DLC_RTR_SHIFT == 6
RXBSIDL_IDE == 8
RXBSIDL_SRR == 16
RXBSIDL_EID == 3
RXBSIDL_SHIFT == 5
RXBSIDH_SHIFT == 3
RXBDLC_LEN_MASK == 15
RXBDLC_RTR == 64
CAN_SFF_MASK == 2047
CAN_FRAME_MAX_DATA_LEN == 8
SPI_TRANSFER_BUF_LEN == 6 + CAN_FRAME_MAX_DATA_LEN

\* Offsets of the 6-byte mailbox header, then the data bytes.
CTRL_OFF == 0
SIDH_OFF == 1
SIDL_OFF == 2
EID8_OFF == 3
EID0_OFF == 4
DLC_OFF == 5
DAT_OFF == 6

ShiftL(x, n) == x * 2^n
Bit(b) == IF b THEN 1 ELSE 0
GET_BYTE(val, byte) == shiftR(val, byte * 8) & 255
SET_BYTE(val, byte) == ShiftL(val & 255, byte * 8)

INSTRUCTION_LOAD_TXB(n) == 64 + 2 * n

(***************************************************************************)
(* mcp2515_hw_tx (the buffer it hands to mcp2515_hw_tx_frame): the         *)
(* load-mailbox instruction, SIDH, SIDL, EID8, EID0, DLC with RTR at bit 6,*)
(* then can_dlc data bytes.                                                *)
(***************************************************************************)
\* SIDH written without its shift (mutant of EncodeTx).
EncodeTxSidhUnshifted(f, n) ==
  LET exide == Bit(f.eff)
      sid   == IF f.eff THEN shiftR(f.id, 18) ELSE f.id & CAN_SFF_MASK
      rtr   == Bit(f.rtr)
      hdr   == << INSTRUCTION_LOAD_TXB(n), sid,
                 ShiftL(sid & SIDL_SID_MASK, SIDL_SID_SHIFT)
                   | ShiftL(exide, SIDL_EXIDE_SHIFT)
                   | (shiftR(f.id, SIDL_EID_SHIFT) & SIDL_EID_MASK),
                 GET_BYTE(f.id, 1), GET_BYTE(f.id, 0),
                 ShiftL(rtr, DLC_RTR_SHIFT) | f.dlc >>
  IN [i \in 0 .. DAT_OFF + f.dlc - 1 |->
        IF i < DAT_OFF THEN hdr[i + 1] ELSE f.data[i - DAT_OFF + 1]]

EncodeTx(f, n) ==
  LET exide == Bit(f.eff)
      sid   == IF f.eff THEN shiftR(f.id, 18) ELSE f.id & CAN_SFF_MASK
      eid   == f.id
      rtr   == Bit(f.rtr)
      hdr   == << INSTRUCTION_LOAD_TXB(n),
                 shiftR(sid, SIDH_SHIFT),
                 ShiftL(sid & SIDL_SID_MASK, SIDL_SID_SHIFT)
                   | ShiftL(exide, SIDL_EXIDE_SHIFT)
                   | (shiftR(eid, SIDL_EID_SHIFT) & SIDL_EID_MASK),
                 GET_BYTE(eid, 1),
                 GET_BYTE(eid, 0),
                 ShiftL(rtr, DLC_RTR_SHIFT) | f.dlc >>
  IN [i \in 0 .. DAT_OFF + f.dlc - 1 |->
        IF i < DAT_OFF THEN hdr[i + 1] ELSE f.data[i - DAT_OFF + 1]]

\* A get_can_dlc that forgets the clamp (mutant of get_can_dlc).
get_can_dlc_unclamped(v) == v

\* get_can_dlc: the DLC clamped to the largest payload.
get_can_dlc(v) == IF v > CAN_FRAME_MAX_DATA_LEN THEN CAN_FRAME_MAX_DATA_LEN ELSE v

(***************************************************************************)
(* mcp2515_hw_rx after the buffer is read: extended frames take the RTR    *)
(* flag from RXBnDLC, standard frames from the SRR bit of RXBnSIDL; the    *)
(* copy length is the clamped DLC.                                         *)
(***************************************************************************)
\* Reading the RTR flag from RXBnDLC for both formats (mutant of RxRtr).
RxRtrFromDlc(buf, ide) == (buf[DLC_OFF] & RXBDLC_RTR) # 0

\* The RTR flag: RXBnDLC.RTR for extended frames, RXBnSIDL.SRR for standard.
RxRtr(buf, ide) ==
  IF ide THEN (buf[DLC_OFF] & RXBDLC_RTR) # 0
         ELSE (buf[SIDL_OFF] & RXBSIDL_SRR) # 0

\* A byte the memcpy would read from past the end of buf (not determined).
BeyondBuf == -1

DecodeRx(buf) ==
  LET ide == (buf[SIDL_OFF] & RXBSIDL_IDE) # 0
      sidPart == ShiftL(buf[SIDH_OFF], RXBSIDH_SHIFT) | shiftR(buf[SIDL_OFF], RXBSIDL_SHIFT)
      dlc == get_can_dlc(buf[DLC_OFF] & RXBDLC_LEN_MASK)
  IN [eff  |-> ide,
      rtr  |-> RxRtr(buf, ide),
      id   |-> IF ide
               THEN SET_BYTE(buf[SIDL_OFF] & RXBSIDL_EID, 2)
                      | SET_BYTE(buf[EID8_OFF], 1)
                      | SET_BYTE(buf[EID0_OFF], 0)
                      | ShiftL(sidPart, 18)
               ELSE sidPart,
      dlc  |-> dlc,
      data |-> [i \in 1 .. dlc |-> IF DAT_OFF + i - 1 \in DOMAIN buf
                                     THEN buf[DAT_OFF + i - 1] ELSE BeyondBuf]]

(***************************************************************************)
(* mcp2515_do_set_bittiming: every field is written as (value - 1),      *)
(* computed on the __u32 fields of struct can_bittiming; the u8 parameter  *)
(* of mcp2515_write_reg keeps the low byte.  CNF3 is written with a        *)
(* bit-modify of mask CNF3_PHSEG2_MASK, so only its low 3 bits change.     *)
(***************************************************************************)
CNF1_SJW_SHIFT == 6
CNF2_BTLMODE == 128
CNF2_SAM == 64
CNF2_PS1_SHIFT == 3
CNF3_PHSEG2_MASK == 7

U8(x) == x % 256
\* (field - 1) on a __u32 field wraps at 0.  Only the low byte of the
\* result reaches the chip, and a left shift or an OR never moves higher
\* bits into it, so the wrap is taken modulo 2^8 (it agrees with 2^32 there).
M1(x) == (x - 1) % 256

Cnf1Bits(bt) == U8(ShiftL(M1(bt.sjw), CNF1_SJW_SHIFT) | M1(bt.brp))
\* CNF2 with PRSEG written without the -1 (mutant of Cnf2Bits).
Cnf2BitsPropOffByOne(bt, triple) ==
  U8(CNF2_BTLMODE | (IF triple THEN CNF2_SAM ELSE 0)
     | ShiftL(M1(bt.phase_seg1), CNF2_PS1_SHIFT) | bt.prop_seg)

Cnf2Bits(bt, triple) ==
  U8(CNF2_BTLMODE | (IF triple THEN CNF2_SAM ELSE 0)
     | ShiftL(M1(bt.phase_seg1), CNF2_PS1_SHIFT) | M1(bt.prop_seg))
Cnf3Bits(old, bt) ==
  (old & (255 - CNF3_PHSEG2_MASK)) | (M1(bt.phase_seg2) & CNF3_PHSEG2_MASK)
=============================================================================
