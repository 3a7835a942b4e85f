------------------------------ MODULE UdpFrames ------------------------------
(***************************************************************************)
(* What the UDP worker, the frame logger and the burn test speak of:       *)
(* frames, named by the MESSAGE_NUMBER that rc_settings gave them (1, 2,   *)
(* 3, ...), signals queued for the GUI thread, and Python's None.          *)
(***************************************************************************)
EXTENDS Naturals

CONSTANTS
  MaxSends,   \* bound on the frames built
  MaxPosted,  \* bound on the signals posted, not yet delivered
  None        \* Python's None

ASSUME UdpFramesAssumption ==
  MaxSends \in Nat /\ MaxPosted \in Nat /\ None \notin Nat

Sends == 1 .. MaxSends
=============================================================================
