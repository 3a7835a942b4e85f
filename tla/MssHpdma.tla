------------------------------ MODULE MssHpdma ------------------------------
(***************************************************************************)
(* The high performance DMA controller of the MSS and its driver           *)
(* (mss_hpdma.c): a transfer is cut into blocks of 64 KiB, the blocks go   *)
(* through a ring of descriptors, and the completion interrupt of one      *)
(* block hands its descriptor the next one while the others still move.    *)
(*                                                                         *)
(* Indices and counts are those of the code.  The controller (external)    *)
(* serves the descriptors in the order they were made valid, waits at a    *)
(* paused one, and clears every field of one whose DCP_CLR is set.         *)
(***************************************************************************)
EXTENDS Integers, Sequences

CONSTANTS
  Descriptors,   \* NO_OF_HPDMA_DESCRIPTORS
  MaxBlocks,     \* bound on the blocks of a transfer
  MaxTransfers,  \* bound on the transfers started
  MaxPauses      \* bound on the calls of MSS_HPDMA_pause

ASSUME HpdmaAssumption ==
  /\ Descriptors \in Nat \ {0}
  /\ {MaxBlocks, MaxTransfers, MaxPauses} \subseteq Nat

VARIABLES
  dma,      \* g_transfer and the two descriptor indices
  ring,     \* the descriptors
  dmaIrq,   \* descriptors whose completion interrupt is pending; an error?
  dmaAt,    \* where MSS_HPDMA_start is
  copied,   \* history: the blocks moved since the last start
  pauses,   \* calls of MSS_HPDMA_pause
  dmaUpset  \* history: what the driver does not cope with

hpdmaVars == <<dma, ring, dmaIrq, dmaAt, copied, pauses, dmaUpset>>

Slots == 0..(Descriptors - 1)

Cleared == [valid |-> FALSE, pause |-> FALSE, irq |-> FALSE, block |-> 0]

(* start_transfer gives descriptor end_desc the next block.  There is no   *)
(* descriptor Descriptors: what is written there is lost.  With nothing    *)
(* left to move, it moves the last block again.                            *)
start_transfer(d, r) ==
  [dma  |-> IF d.blocks > 1 THEN [d EXCEPT !.blocks = @ - 1, !.next = @ + 1]
                           ELSE [d EXCEPT !.blocks = 0],
   ring |-> IF d.end_desc \in Slots
            THEN [r EXCEPT ![d.end_desc] =
                    [valid |-> TRUE, pause |-> FALSE, irq |-> TRUE, block |-> d.next]]
            ELSE r]

----------------------------------------------------------------------------
(* The thread. *)

MSS_HPDMA_init ==
  /\ dmaAt = "free"
  /\ dma' = [dma EXCEPT !.blocks = 0, !.state = "COMPLETED"]
  /\ ring' = [i \in Slots |-> [Cleared EXCEPT !.pause = TRUE]]
  /\ dmaIrq' = [done |-> {}, error |-> FALSE]
  /\ UNCHANGED <<dmaAt, copied, pauses, dmaUpset>>

(* Each pass of the loop of MSS_HPDMA_start fills a descriptor and then    *)
(* counts it; the interrupts are on already.                               *)
MSS_HPDMA_start(n) ==
  /\ dmaAt = "free" /\ dma.started < MaxTransfers
  /\ dma.state # "IN_PROGRESS" /\ n > 0
  /\ dma' = [dma EXCEPT !.started = @ + 1, !.state = "IN_PROGRESS", !.blocks = n, !.total = n,
                        !.next = 1, !.current_desc = 0, !.end_desc = 0]
  /\ dmaAt' = "fill"
  /\ copied' = <<>>
  /\ dmaUpset' = IF dmaIrq.done # {} \/ \E i \in Slots : ring[i].valid \/ ring[i].irq
                 THEN {"stale"} ELSE IF n > 2 * Descriptors THEN {"beyond"} ELSE {}
  /\ UNCHANGED <<ring, dmaIrq, pauses>>

fill ==
  LET s == start_transfer(dma, ring)
  IN  /\ dmaAt = "fill"
      /\ IF dma.end_desc < dma.total /\ dma.end_desc < Descriptors
         THEN dma' = s.dma /\ ring' = s.ring /\ dmaAt' = "count"
         ELSE UNCHANGED <<dma, ring>> /\ dmaAt' = "free"
      /\ UNCHANGED <<dmaIrq, copied, pauses, dmaUpset>>

count ==
  /\ dmaAt = "count"
  /\ dma' = [dma EXCEPT !.end_desc = @ + 1]
  /\ dmaAt' = "fill"
  /\ UNCHANGED <<ring, dmaIrq, copied, pauses, dmaUpset>>

Pause(on) ==
  /\ dmaAt = "free"
  /\ ring' = [ring EXCEPT ![dma.current_desc].pause = on]
  /\ UNCHANGED <<dma, dmaIrq, dmaAt, copied, dmaUpset>>

MSS_HPDMA_pause == Pause(TRUE) /\ pauses < MaxPauses /\ pauses' = pauses + 1

MSS_HPDMA_resume == ring[dma.current_desc].pause /\ Pause(FALSE) /\ UNCHANGED pauses

(* The rest of the transfer and a pending interrupt stay: the handler goes *)
(* on with the next block.                                                 *)
MSS_HPDMA_abort ==
  /\ dmaAt = "free" /\ dma.state = "IN_PROGRESS"
  /\ dma' = [dma EXCEPT !.state = "COMPLETED"]
  /\ ring' = [i \in Slots |-> Cleared]
  /\ dmaUpset' = dmaUpset \cup {"aborted"}
  /\ UNCHANGED <<dmaAt, dmaIrq, copied, pauses>>

----------------------------------------------------------------------------
(* The interrupt handlers. *)

Bug_Refilled(d) == IF d.end_desc = Descriptors THEN 0 ELSE d.end_desc

(* The descriptor that gets the next block. *)
Refilled(d) == IF d.end_desc = Descriptors THEN 0 ELSE d.end_desc + 1

HPDMA_Complete_IRQHandler ==
  LET cur  == dma.current_desc
      next == IF cur + 1 = Descriptors THEN 0 ELSE cur + 1
      off  == [ring EXCEPT ![cur].irq = FALSE]
      d    == [dma EXCEPT !.current_desc = next]
      s    == start_transfer([d EXCEPT !.end_desc = Refilled(dma)], off)
  IN  /\ dmaIrq.done # {}
      /\ dmaIrq' = [dmaIrq EXCEPT !.done = @ \ {cur}]
      /\ IF dma.blocks > 0
         THEN dma' = s.dma /\ ring' = s.ring
         ELSE /\ ring' = off
              /\ dma' = IF off[next].irq THEN d
                        ELSE [d EXCEPT !.current_desc = 0, !.end_desc = 0, !.state = "COMPLETED"]
      /\ dmaUpset' = dmaUpset
           \cup (IF dmaAt # "free" THEN {"early"} ELSE {})
           \cup (IF dma.state # "IN_PROGRESS" THEN {"aborted"} ELSE {})
      /\ UNCHANGED <<dmaAt, copied, pauses>>

(* Its number is above that of the other handler, which goes first.  Every *)
(* descriptor is cleared.                                                  *)
HPDMA_Error_IRQHandler(kind) ==
  /\ dmaIrq.error /\ dmaIrq.done = {}
  /\ dma' = [dma EXCEPT !.state = kind]
  /\ ring' = [i \in Slots |-> Cleared]
  /\ dmaIrq' = [done |-> {}, error |-> FALSE]
  /\ dmaUpset' = IF dmaAt # "free" THEN dmaUpset \cup {"early"} ELSE dmaUpset
  /\ UNCHANGED <<dmaAt, copied, pauses>>

----------------------------------------------------------------------------
(* The controller (external): it moves a block, at most MaxBlocks of a     *)
(* transfer, or stops with an error.                                       *)

Serves(i) ==
  /\ ~dmaIrq.error
  /\ ring[i].valid /\ ~ring[i].pause
  /\ \A j \in Slots : ring[j].valid => ring[i].block <= ring[j].block

move(i) ==
  /\ Serves(i)
  /\ Len(copied) < MaxBlocks
  /\ copied' = Append(copied, ring[i].block)
  /\ ring' = [ring EXCEPT ![i].valid = FALSE]
  /\ dmaIrq' = [dmaIrq EXCEPT !.done = @ \cup {i}]
  /\ UNCHANGED <<dma, dmaAt, pauses, dmaUpset>>

fail(i) ==
  /\ Serves(i)
  /\ dmaIrq' = [dmaIrq EXCEPT !.error = TRUE]
  /\ UNCHANGED <<dma, ring, dmaAt, copied, pauses, dmaUpset>>

----------------------------------------------------------------------------
HpdmaErrors == {"SOURCE_ERROR", "DESTINATION_ERROR", "WORD_ALIGN_ERROR"}

HpdmaInit ==
  /\ dma = [state |-> "COMPLETED", blocks |-> 0, total |-> 0, next |-> 1, current_desc |-> 0,
            end_desc |-> 0, started |-> 0]
  /\ ring = [i \in Slots |-> [Cleared EXCEPT !.pause = TRUE]]
  /\ dmaIrq = [done |-> {}, error |-> FALSE]
  /\ dmaAt = "free"
  /\ copied = <<>> /\ pauses = 0 /\ dmaUpset = {}

HpdmaCall ==
  \/ MSS_HPDMA_init \/ MSS_HPDMA_pause \/ MSS_HPDMA_resume \/ MSS_HPDMA_abort
  \/ \E n \in 1..MaxBlocks : MSS_HPDMA_start(n)

HpdmaIsr ==
  HPDMA_Complete_IRQHandler \/ \E kind \in HpdmaErrors : HPDMA_Error_IRQHandler(kind)

HpdmaNext == HpdmaCall \/ fill \/ count \/ HpdmaIsr \/ \E i \in Slots : move(i) \/ fail(i)

HpdmaSpec == HpdmaInit /\ [][HpdmaNext]_hpdmaVars

----------------------------------------------------------------------------
(* Properties. *)

HpdmaTypeOK ==
  /\ dma.state \in HpdmaErrors \cup {"IN_PROGRESS", "COMPLETED"}
  /\ dma.current_desc \in Slots /\ dma.end_desc \in Nat
  /\ dmaUpset = {} => dma.end_desc \in 0..Descriptors
  /\ dma.blocks \in 0..MaxBlocks
  /\ dmaIrq.done \subseteq Slots

(* The completion handler reports a transfer as complete when, and only    *)
(* when, it has seen each of its blocks moved, once and in order, although *)
(* descriptors are handed back and refilled while others are under way and *)
(* several interrupts may have become one.  The driver breaks this for a   *)
(* transfer of more than twice as many blocks as there are descriptors     *)
(* (the index of the refill runs past the ring), for one whose first block *)
(* is moved while MSS_HPDMA_start still fills the ring (a short transfer   *)
(* may be over by then, and is started again), and after an abort with an  *)
(* interrupt pending (or one of those before).                             *)
CompletedMeansMoved ==
  [][HPDMA_Complete_IRQHandler /\ dmaUpset' = {} =>
       (dma'.state = "COMPLETED" <=>
          copied = [i \in 1..dma.total |-> i] /\ dmaIrq'.done = {})]_hpdmaVars
=============================================================================
