------------------------- MODULE BitStreamReception -------------------------
(***************************************************************************)
(* What the bootloaders promise the controller about an announced upload:  *)
(* after Announce(q, n) bootloader q acknowledges n chunks, numbered       *)
(* 0 .. n - 1, each once and in this order, and then takes commands again; *)
(* it may give up at any point, which it says with another packet, and     *)
(* then acknowledges nothing more of that upload.  It promises nothing     *)
(* about the bytes a chunk was made of, nor about its other packets.       *)
(***************************************************************************)
EXTENDS Integers, Sequences

CONSTANTS
  Qtrm,      \* the bootloaders
  MaxTotal   \* bound on the chunks of an announce

VARIABLES
  total,   \* chunks announced, 0 while no upload is being received
  next,    \* number of the chunk to be acknowledged next
  acks     \* packets on their way to the controller: numbers of chunks, or other

Other == -1   \* what is no acknowledgement

Init ==
  /\ total = [q \in Qtrm |-> 0]
  /\ next  = [q \in Qtrm |-> 0]
  /\ acks  = [q \in Qtrm |-> <<>>]

Announce(q, n) ==
  /\ total[q] = 0
  /\ total' = [total EXCEPT ![q] = n]
  /\ next'  = [next EXCEPT ![q] = 0]
  /\ UNCHANGED acks

Acknowledge(q) ==
  /\ next[q] < total[q]
  /\ acks' = [acks EXCEPT ![q] = Append(@, next[q])]
  /\ IF next[q] + 1 = total[q]
     THEN /\ total' = [total EXCEPT ![q] = 0]
          /\ next'  = [next EXCEPT ![q] = 0]
     ELSE /\ next'  = [next EXCEPT ![q] = @ + 1]
          /\ UNCHANGED total

Say(q) == acks' = [acks EXCEPT ![q] = Append(@, Other)]

GiveUp(q) ==
  /\ Say(q)
  /\ total' = [total EXCEPT ![q] = 0]
  /\ next'  = [next EXCEPT ![q] = 0]

SayOther(q) == Say(q) /\ UNCHANGED <<total, next>>

Take(q) ==
  /\ acks[q] # <<>>
  /\ acks' = [acks EXCEPT ![q] = Tail(@)]
  /\ UNCHANGED <<total, next>>

Next ==
  \E q \in Qtrm :
    \/ \E n \in 1..MaxTotal : Announce(q, n)
    \/ Acknowledge(q)
    \/ GiveUp(q) \/ SayOther(q)
    \/ Take(q)

Spec == Init /\ [][Next]_<<total, next, acks>>
=============================================================================
