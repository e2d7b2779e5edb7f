------------------------ MODULE Mcp2515RxAbstract ------------------------
(***************************************************************************)
(* What the receive path of the driver promises the CAN stack, without     *)
(* registers, buffers or threads.  Frames arrive from the bus numbered     *)
(* 1, 2, ...; each is either handed to the stack once, or lost (no free    *)
(* receive buffer, or dropped when the device stops or the chip is reset), *)
(* and a lost frame is never handed up later.  The order in which frames   *)
(* are handed up is not promised.                                          *)
(***************************************************************************)
EXTENDS Naturals, Sequences

CONSTANT MaxFrames

VARIABLES arrived,    \* frames that reached the controller
          delivered,  \* frames handed to the stack, in order
          lost        \* frames that will never be handed up

absVars == <<arrived, delivered, lost>>

WasDelivered(k) == \E i \in DOMAIN delivered : delivered[i] = k

\* Frames received and still owed to the stack.
Pending == {k \in 1 .. arrived : k \notin lost /\ ~WasDelivered(k)}

AbsTypeOK ==
  /\ arrived \in 0 .. MaxFrames
  /\ delivered \in Seq(1 .. MaxFrames)
  /\ lost \subseteq 1 .. MaxFrames

AbsInit == arrived = 0 /\ delivered = <<>> /\ lost = {}

\* The next frame arrives, and is kept or lost at once.
Arrive ==
  /\ arrived < MaxFrames
  /\ arrived' = arrived + 1
  /\ lost' \in {lost, lost \cup {arrived + 1}}
  /\ UNCHANGED delivered

\* A frame still owed is handed up.
Deliver ==
  /\ \E k \in Pending : delivered' = Append(delivered, k)
  /\ UNCHANGED <<arrived, lost>>

\* Some frames still owed are dropped.
Lose ==
  /\ \E drop \in SUBSET Pending : drop # {} /\ lost' = lost \cup drop
  /\ UNCHANGED <<arrived, delivered>>

AbsNext == Arrive \/ Deliver \/ Lose

AbsSpec == AbsInit /\ [][AbsNext]_absVars
=============================================================================
