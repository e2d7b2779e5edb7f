--------------------------- MODULE MCMcp2515Codec ---------------------------
(***************************************************************************)
(* Checks the codec of Mcp2515Codec over bounded inputs.  The initial     *)
(* states are the inputs under test (a valid frame or an arbitrary RX      *)
(* mailbox image); the codec has no state, so a step changes nothing.      *)
(*                                                                         *)
(* The chip's side of the mailbox format is the reference: ChipTxFrame is  *)
(* the frame the MCP2515 puts on the bus from a TX mailbox image, and      *)
(* ChipRxImage the RX mailbox image it stores for a frame it receives      *)
(* (MCP2515 data sheet, registers TXBnSIDH..TXBnDLC and RXBnSIDH..RXBnDLC).*)
(* Encoding then decoding through the chip must give the frame back.       *)
(*                                                                         *)
(* It also checks the register values mcp2515_do_set_bittiming writes      *)
(* against the way the MCP2515 reads its bit-timing fields (data sheet,    *)
(* CNF1..CNF3): SJW = CNF1[7:6]+1, BRP = CNF1[5:0]+1, BTLMODE = CNF2[7],   *)
(* SAM = CNF2[6], PHSEG1 = CNF2[5:3]+1, PRSEG = CNF2[2:0]+1,               *)
(* PHSEG2 = CNF3[2:0]+1.  The bit timings come from the CAN core with the  *)
(* limits of mcp2515_bittiming_const (tseg1 3..16, tseg2 2..8, sjw <= 4,   *)
(* brp 1..64).  When the user gives a bitrate, can_calc_bittiming splits   *)
(* tseg1 as prop_seg = tseg1 / 2, phase_seg1 = tseg1 - prop_seg.  When the *)
(* user gives the segments (FixedUp), can_fixup_bittiming only bounds the  *)
(* sum prop_seg + phase_seg1; here both are taken to be at least 1.        *)
(***************************************************************************)
EXTENDS Mcp2515Codec, Sequences

CONSTANTS StdIds,    \* 11-bit identifiers to try
          ExtIds,    \* 29-bit identifiers to try
          DataBytes, \* payload byte values
          SidhVals, SidlVals, EidVals, DlcRegVals, \* RX register contents
          FixedUp,   \* TRUE: segments given by the user, FALSE: calculated
          Brps,      \* prescalers to try, within 1..64
          Cnf3Olds   \* CNF3 contents before the bit-modify

VARIABLES kind,   \* which input this state holds: "frame", "rximg", "timing"
          frame, rximg,
          bt, triple, cnf3 \* a bit timing, triple sampling, the old CNF3
vars == <<kind, frame, rximg, bt, triple, cnf3>>

\* Valid frames as a CAN socket hands them to the driver (DLC <= 8).
Frames ==
  { [eff |-> e, rtr |-> r, id |-> i, dlc |-> d, data |-> [k \in 1 .. d |-> b]] :
      e \in BOOLEAN, r \in BOOLEAN, d \in 0 .. 8, b \in DataBytes,
      i \in StdIds \cup ExtIds }
ValidFrames == { f \in Frames : f.eff \/ f.id \in StdIds }

\* Arbitrary RX mailbox images: the chip or a glitch may produce any byte.
RxImages ==
  { [k \in 0 .. SPI_TRANSFER_BUF_LEN - 1 |->
       CASE k = SIDH_OFF -> h [] k = SIDL_OFF -> l [] k = DLC_OFF -> c
         [] k \in {EID8_OFF, EID0_OFF} -> e [] OTHER -> 165] :
      h \in SidhVals, l \in SidlVals, e \in EidVals, c \in DlcRegVals }

\* Reference: the frame the chip transmits from TX mailbox registers.
ChipTxFrame(img) ==
  LET sid == ShiftL(img[SIDH_OFF], 3) + shiftR(img[SIDL_OFF], 5)
      ext == (img[SIDL_OFF] & 8) # 0
      eid == ShiftL(img[SIDL_OFF] & 3, 16) + ShiftL(img[EID8_OFF], 8) + img[EID0_OFF]
      len == img[DLC_OFF] & 15
  IN [eff |-> ext, rtr |-> (img[DLC_OFF] & 64) # 0,
      id |-> IF ext THEN ShiftL(sid, 18) + eid ELSE sid,
      dlc |-> len, data |-> [k \in 1 .. len |-> img[DAT_OFF + k - 1]]]

\* Reference: the RX mailbox image the chip stores for a received frame.
\* SRR (bit 4 of SIDL) carries RTR of a standard frame and is recessive (1)
\* in an extended frame; bit 6 of DLC carries RTR of an extended frame.
ChipRxImage(g) ==
  LET sid == IF g.eff THEN shiftR(g.id, 18) ELSE g.id
      eid == IF g.eff THEN g.id % 2^18 ELSE 0
      srr == IF g.eff THEN 1 ELSE Bit(g.rtr)
      hdr == << 0, shiftR(sid, 3),
                ShiftL(sid % 8, 5) + ShiftL(srr, 4) + ShiftL(Bit(g.eff), 3) + shiftR(eid, 16),
                shiftR(eid, 8) % 256, eid % 256,
                ShiftL(Bit(g.eff /\ g.rtr), 6) + g.dlc >>
  IN [k \in 0 .. SPI_TRANSFER_BUF_LEN - 1 |->
        IF k < DAT_OFF THEN hdr[k + 1]
        ELSE IF k - DAT_OFF < g.dlc THEN g.data[k - DAT_OFF + 1] ELSE 0]

CalcTimings ==
  { [sjw |-> j, brp |-> b, prop_seg |-> t \div 2, phase_seg1 |-> t - t \div 2,
     phase_seg2 |-> p] : j \in 1 .. 4, b \in Brps, t \in 3 .. 16, p \in 2 .. 8 }

FixedUpTimings ==
  { x \in [sjw : 1 .. 4, brp : Brps, prop_seg : 1 .. 15, phase_seg1 : 1 .. 15,
           phase_seg2 : 2 .. 8] : x.prop_seg + x.phase_seg1 \in 3 .. 16 }

Timings == IF FixedUp THEN FixedUpTimings ELSE CalcTimings

\* The unused variables hold a fixed member of their sets.
Init ==
  \/ /\ kind = "frame" /\ frame \in ValidFrames
     /\ rximg = CHOOSE i \in RxImages : TRUE
     /\ bt = (CHOOSE x \in Timings : TRUE) /\ triple = FALSE /\ cnf3 = 0
  \/ /\ kind = "rximg" /\ rximg \in RxImages
     /\ frame = CHOOSE f \in ValidFrames : TRUE
     /\ bt = (CHOOSE x \in Timings : TRUE) /\ triple = FALSE /\ cnf3 = 0
  \/ /\ kind = "timing" /\ bt \in Timings /\ triple \in BOOLEAN /\ cnf3 \in Cnf3Olds
     /\ frame = CHOOSE f \in ValidFrames : TRUE
     /\ rximg = CHOOSE i \in RxImages : TRUE
Next == UNCHANGED vars
Spec == Init /\ [][Next]_vars

TypeOK ==
  /\ kind \in {"frame", "rximg", "timing"}
  /\ frame \in ValidFrames
  /\ rximg \in RxImages
  /\ \A k \in DOMAIN EncodeTx(frame, 0) : EncodeTx(frame, 0)[k] \in 0 .. 255

(***************************************************************************)
(* Round trip (mcp2515_hw_tx against mcp2515_hw_rx): a frame the driver    *)
(* loads into a TX mailbox, sent by one chip and received by another, is   *)
(* decoded to the same identifier, format, RTR flag, DLC and data, for     *)
(* standard and extended frames alike.                                     *)
(***************************************************************************)
RoundTrip ==
  kind = "frame" =>
  \A n \in 0 .. 2 :
    LET img == EncodeTx(frame, n)
    IN /\ img[CTRL_OFF] = 64 + 2 * n
       /\ ChipTxFrame(img) = frame
       /\ DecodeRx(ChipRxImage(ChipTxFrame(img))) = frame

(***************************************************************************)
(* mcp2515_hw_rx turns any RX mailbox contents, including a DLC nibble of  *)
(* 9..15 and garbage bits, into a well-formed can_frame: the identifier    *)
(* fits its format and the memcpy of can_dlc bytes stays inside the       *)
(* 8-byte payload and the 14-byte transfer buffer.                         *)
(***************************************************************************)
DecodeWellFormed ==
  kind = "rximg" =>
  LET f == DecodeRx(rximg)
  IN /\ f.id < IF f.eff THEN 2^29 ELSE 2^11
     /\ f.dlc <= CAN_FRAME_MAX_DATA_LEN
     /\ DAT_OFF + f.dlc <= SPI_TRANSFER_BUF_LEN

Field(reg, lo, width) == shiftR(reg, lo) % 2^width

(***************************************************************************)
(* The chip runs with the bit timing the CAN core chose: every (value-1)   *)
(* field lands in its own bits of CNF1/CNF2/CNF3 without spilling into its *)
(* neighbour, triple sampling sets SAM alone, and the bit-modify of CNF3   *)
(* leaves its other bits (SOF, WAKFIL) as they were.                       *)
(***************************************************************************)
BitTimingProgrammed ==
  kind = "timing" =>
  LET c1 == Cnf1Bits(bt)
      c2 == Cnf2Bits(bt, triple)
      c3 == Cnf3Bits(cnf3, bt)
  IN /\ Field(c1, 6, 2) + 1 = bt.sjw
     /\ Field(c1, 0, 6) + 1 = bt.brp
     /\ Field(c2, 7, 1) = 1
     /\ Field(c2, 6, 1) = Bit(triple)
     /\ Field(c2, 3, 3) + 1 = bt.phase_seg1
     /\ Field(c2, 0, 3) + 1 = bt.prop_seg
     /\ Field(c3, 0, 3) + 1 = bt.phase_seg2
     /\ shiftR(c3, 3) = shiftR(cnf3, 3)
=============================================================================
