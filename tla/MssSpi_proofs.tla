---------------------------- MODULE MssSpi_proofs ----------------------------
(***************************************************************************)
(* Machine-checked proofs about the SPI driver, for FIFOs of every size,   *)
(* transfers and transactions of every length, buffers of every size, and  *)
(* a master at the other end that selects, clocks and releases while the   *)
(* interrupt handler runs.                                                 *)
(*                                                                         *)
(* As a master, the frames in flight are those between two indices of the  *)
(* transfer, first the answered, then the unsent; so each answer is read   *)
(* in its turn.  As a slave in block mode, between two transactions the TX *)
(* FIFO holds the beginning of what is owed; while one is open, what was   *)
(* heard and the FIFO are one after the other the beginning of it, and     *)
(* what was read and the RX FIFO are what the master has sent so far.      *)
(***************************************************************************)
EXTENDS MssSpi, SequenceTheorems, TLAPS

(* The positions after a, n of them.                                       *)
Ascending(a, n) == [k \in 1..n |-> a + k]

InTransfer == spiAt \in {"drain", "feed"}

SpiFields ==
  {"role", "on", "nvic", "mode", "count", "ie", "autofill", "slaves", "selected", "overflow",
   "tx_size", "tx_idx", "rx_size", "rx_idx", "rx_buffer", "cmd_handler", "cmd_size", "cmd_done",
   "resp_size", "resp_idx", "setups"}
IsSpi(s) == s = [f \in SpiFields |-> s[f]]

XferRecord ==
  [kind : {"none", "block", "frame"}, cmd : Nat, rd : Nat, tx_idx : Nat, transfer_idx : Nat,
   transit : Nat, rd_buffer : Seq(Nat)]

MasterTypes ==
  /\ IsSpi(spi)
  /\ spiXfer \in XferRecord

(* What is in flight are the frames between the two indices: first those   *)
(* whose answers are in the RX FIFO, then those still in the TX FIFO.      *)
InFlight ==
  InTransfer =>
    /\ spi.role = "master" /\ ~spi.overflow
    /\ spiXfer.transfer_idx + spiXfer.transit = spiXfer.tx_idx
    /\ spiXfer.tx_idx <= spiXfer.cmd + spiXfer.rd
    /\ spiXfer.transit <= RxFrames
    /\ \E n \in 0..spiXfer.transit :
         /\ spiRx = Ascending(spiXfer.transfer_idx, n)
         /\ spiTx = Ascending(spiXfer.transfer_idx + n, spiXfer.transit - n)

(* The answers to the command are dropped, the others kept.                *)
Kept(x) == IF x.transfer_idx <= x.cmd THEN 0 ELSE x.transfer_idx - x.cmd
Reads == InTransfer => spiXfer.rd_buffer = Ascending(spiXfer.cmd, Kept(spiXfer))

OneFrame ==
  spiAt = "frame" =>
    /\ spi.role = "master" /\ spiXfer.cmd = 0 /\ spiXfer.rd = 1
    /\ \/ spiTx = <<1>> /\ spiRx = <<>>
       \/ spiTx = <<>> /\ spiRx = <<1>>

HasRead == ~InTransfer /\ spiAt # "frame" => spiXfer.rd_buffer = Ascending(spiXfer.cmd, spiXfer.rd)

MasterInv == MasterTypes /\ InFlight /\ Reads /\ OneFrame /\ HasRead

----------------------------------------------------------------------------
LEMMA FollowingIs ==
  ASSUME NEW a \in Nat, NEW n \in Nat
  PROVE  /\ Ascending(a, n) \in Seq(Nat) /\ Len(Ascending(a, n)) = n
         /\ \A k \in 1..n : Ascending(a, n)[k] = a + k
BY DEF Ascending

LEMMA NoneFollow == ASSUME NEW a \in Nat PROVE Ascending(a, 0) = <<>>
BY FollowingIs, EmptySeq

LEMMA FirstFollows ==
  ASSUME NEW a \in Nat, NEW n \in Nat \ {0}
  PROVE  /\ Ascending(a, n) # <<>> /\ Head(Ascending(a, n)) = a + 1
         /\ Tail(Ascending(a, n)) = Ascending(a + 1, n - 1)
<1> DEFINE s == Ascending(a, n)
           t == Ascending(a + 1, n - 1)
<1>1. s \in Seq(Nat) /\ Len(s) = n /\ \A k \in 1..n : s[k] = a + k
  BY FollowingIs
<1>2. t \in Seq(Nat) /\ Len(t) = n - 1 /\ \A k \in 1..n - 1 : t[k] = (a + 1) + k
  BY FollowingIs, a + 1 \in Nat, n - 1 \in Nat
<1> HIDE DEF s, t
<1>3. s # <<>>
  BY <1>1, EmptySeq
<1>4. /\ Head(s) = s[1] /\ Tail(s) \in Seq(Nat) /\ Len(Tail(s)) = Len(s) - 1
      /\ \A k \in 1..Len(Tail(s)) : Tail(s)[k] = s[k + 1]
  BY <1>1, <1>3, HeadTailProperties
<1>5. ASSUME NEW k \in 1..n - 1 PROVE Tail(s)[k] = t[k]
  <2>1. k + 1 \in 1..n /\ a + (k + 1) = (a + 1) + k
    OBVIOUS
  <2> QED BY <1>1, <1>2, <1>4, <2>1
<1>6. Tail(s) = t
  BY <1>1, <1>2, <1>4, <1>5, SeqEqual
<1>7. Head(s) = a + 1
  BY <1>1, <1>4
<1> QED BY <1>3, <1>6, <1>7 DEF s, t

LEMMA LastFollows ==
  ASSUME NEW a \in Nat, NEW n \in Nat
  PROVE  Append(Ascending(a, n), a + n + 1) = Ascending(a, n + 1)
<1> DEFINE s == Ascending(a, n)
           t == Ascending(a, n + 1)
           e == a + n + 1
<1>1. s \in Seq(Nat) /\ Len(s) = n /\ \A k \in 1..n : s[k] = a + k
  BY FollowingIs
<1>2. t \in Seq(Nat) /\ Len(t) = n + 1 /\ \A k \in 1..n + 1 : t[k] = a + k
  BY FollowingIs, n + 1 \in Nat
<1>3. e \in Nat
  OBVIOUS
<1> HIDE DEF s, t, e
<1>4. /\ Append(s, e) \in Seq(Nat) /\ Len(Append(s, e)) = Len(s) + 1
      /\ \A k \in 1..Len(s) : Append(s, e)[k] = s[k]
      /\ Append(s, e)[Len(s) + 1] = e
  BY <1>1, <1>3, AppendProperties
<1>5. ASSUME NEW k \in 1..n + 1 PROVE Append(s, e)[k] = t[k]
  <2>1. CASE k \in 1..n
    BY <1>1, <1>2, <1>4, <2>1
  <2>2. CASE k = n + 1
    <3>1. t[n + 1] = a + n + 1
      BY <1>2, <2>2
    <3> QED BY <1>1, <1>4, <2>2, <3>1 DEF e
  <2>3. k \in 1..n \/ k = n + 1
    OBVIOUS
  <2> QED BY <2>1, <2>2, <2>3
<1>6. Append(s, e) = t
  BY <1>1, <1>2, <1>4, <1>5, SeqEqual
<1> QED BY <1>6 DEF s, t, e
----------------------------------------------------------------------------
(* A call of the driver leaves the record of the driver one.               *)

LEMMA Recovers ==
  ASSUME NEW s, IsSpi(s)
  PROVE  /\ IsSpi(recover_from_rx_overflow(s))
         /\ recover_from_rx_overflow(s).role = s.role /\ ~recover_from_rx_overflow(s).overflow
BY DEF recover_from_rx_overflow, IsSpi, SpiFields

LEMMA Fills ==
  ASSUME NEW s, IsSpi(s), NEW fifo
  PROVE  IsSpi(fill_slave_tx_fifo(s, fifo).spi) /\ fill_slave_tx_fifo(s, fifo).spi.role = s.role
BY ZenonT(30) DEF fill_slave_tx_fifo, IsSpi, SpiFields

LEMMA ReadsFifo ==
  ASSUME NEW s, IsSpi(s), NEW fifo
  PROVE  IsSpi(read_slave_rx_fifo(s, fifo)) /\ read_slave_rx_fifo(s, fifo).role = s.role
BY DEF read_slave_rx_fifo, IsSpi, SpiFields

LEMMA Restarts ==
  ASSUME NEW s, IsSpi(s)
  PROVE  IsSpi(Restarted(s)) /\ Restarted(s).role = s.role
BY DEF Restarted, IsSpi, SpiFields

LEMMA SetupsKeepRecord ==
  ASSUME IsSpi(spi), SpiSetups
  PROVE  IsSpi(spi') /\ spiAt = "run" /\ UNCHANGED <<spiAt, spiXfer>>
<1>1. ASSUME NEW s, IsSpi(s), Setup(s) PROVE IsSpi(spi') /\ spiAt = "run" /\ UNCHANGED <<spiAt, spiXfer>>
  BY <1>1 DEF Setup, IsSpi, SpiFields
<1>2. CASE MSS_SPI_init
  <2>1. IsSpi(Unset)
    BY DEF IsSpi, SpiFields, Unset
  <2> QED BY <1>1, <1>2, <2>1 DEF MSS_SPI_init
<1>3. CASE MSS_SPI_configure_slave_mode
  BY <1>3 DEF MSS_SPI_configure_slave_mode, Setup, IsSpi, SpiFields
<1>4. ASSUME NEW sl \in SpiSlaves, MSS_SPI_configure_master_mode(sl)
      PROVE  IsSpi(spi') /\ spiAt = "run" /\ UNCHANGED <<spiAt, spiXfer>>
  BY <1>4 DEF MSS_SPI_configure_master_mode, Setup, IsSpi, SpiFields
<1>5. ASSUME NEW sl \in SpiSlaves, MSS_SPI_set_slave_select(sl)
      PROVE  IsSpi(spi') /\ spiAt = "run" /\ UNCHANGED <<spiAt, spiXfer>>
  BY <1>5, ZenonT(30) DEF MSS_SPI_set_slave_select, recover_from_rx_overflow, IsSpi, SpiFields, line_
<1>6. ASSUME NEW sl \in SpiSlaves, MSS_SPI_clear_slave_select(sl)
      PROVE  IsSpi(spi') /\ spiAt = "run" /\ UNCHANGED <<spiAt, spiXfer>>
  BY <1>6 DEF MSS_SPI_clear_slave_select, recover_from_rx_overflow, IsSpi, SpiFields, line_
<1>7. CASE MSS_SPI_set_frame_rx_handler
  BY <1>7 DEF MSS_SPI_set_frame_rx_handler, Setup, IsSpi, SpiFields
<1>8. CASE MSS_SPI_set_slave_tx_frame
  BY <1>8 DEF MSS_SPI_set_slave_tx_frame, Setup, IsSpi, SpiFields
<1>9. ASSUME NEW tx \in SpiSizes, NEW rx \in SpiSizes \ {0}, MSS_SPI_set_slave_block_buffers(tx, rx)
      PROVE  IsSpi(spi') /\ spiAt = "run" /\ UNCHANGED <<spiAt, spiXfer>>
  BY <1>9, ZenonT(30) DEF MSS_SPI_set_slave_block_buffers, Setup, IsSpi, SpiFields
<1>10. ASSUME NEW size \in 0..1, MSS_SPI_set_cmd_handler(size)
       PROVE  IsSpi(spi') /\ spiAt = "run" /\ UNCHANGED <<spiAt, spiXfer>>
  <2> DEFINE s == [spi EXCEPT !.resp_size = 0, !.resp_idx = 0, !.cmd_size = size]
             t == [s EXCEPT !.cmd_done = FALSE, !.cmd_handler = TRUE, !.tx_idx = 0]
             f == fill_slave_tx_fifo(t, <<>>)
  <2>1. IsSpi(s) /\ IsSpi(t)
    BY DEF IsSpi, SpiFields
  <2>2. IsSpi(f.spi)
    BY <2>1, Fills
  <2>3. CASE size = 0
    <3>1. Setup([s EXCEPT !.cmd_done = TRUE, !.cmd_handler = FALSE, !.ie = @ \ {"cmd"}])
      BY <1>10, <2>3 DEF MSS_SPI_set_cmd_handler
    <3>2. IsSpi([s EXCEPT !.cmd_done = TRUE, !.cmd_handler = FALSE, !.ie = @ \ {"cmd"}])
      BY <2>1 DEF IsSpi, SpiFields
    <3> QED BY <1>1, <3>1, <3>2
  <2>4. CASE size # 0
    <3>1. Setup([f.spi EXCEPT !.ie = @ \cup {"cmd"}])
      BY <1>10, <2>4 DEF MSS_SPI_set_cmd_handler
    <3> HIDE DEF f
    <3>2. IsSpi([f.spi EXCEPT !.ie = @ \cup {"cmd"}])
      BY <2>2 DEF IsSpi, SpiFields
    <3> QED BY <1>1, <3>1, <3>2
  <2> QED BY <2>3, <2>4
<1>11. CASE MSS_SPI_enable
  BY <1>11 DEF MSS_SPI_enable, Setup, IsSpi, SpiFields
<1>12. CASE MSS_SPI_disable
  BY <1>12 DEF MSS_SPI_disable, Setup, IsSpi, SpiFields
<1>13. CASE MSS_SPI_set_transfer_byte_count(MaxFrames)
  BY <1>13 DEF MSS_SPI_set_transfer_byte_count, Setup, IsSpi, SpiFields
<1> QED BY <1>2, <1>3, <1>4, <1>5, <1>6, <1>7, <1>8, <1>9, <1>10, <1>11, <1>12, <1>13 DEF SpiSetups

(* An interrupt is handled by a slave, so in no transfer of a master.      *)
LEMMA IsrKeepsRecord ==
  ASSUME IsSpi(spi), SpiIsr
  PROVE  /\ IsSpi(spi') /\ UNCHANGED spiXfer
         /\ ~InTransfer /\ spiAt # "frame" /\ ~InTransfer' /\ spiAt' # "frame"
<1> DEFINE Out == /\ UNCHANGED spiXfer
                  /\ ~InTransfer /\ spiAt # "frame" /\ ~InTransfer' /\ spiAt' # "frame"
<1>1. CASE isr_enter
  BY <1>1 DEF isr_enter, line_, InTransfer
<1>2. CASE isr_rxdone
  BY <1>2, ReadsFifo DEF isr_rxdone, line_, InTransfer
<1>3. CASE isr_txdone
  BY <1>3, Fills DEF isr_txdone, line_, InTransfer
<1>4. ASSUME NEW size \in 0..1, isr_cmd(size)
      PROVE  IsSpi(spi') /\ Out
  <2> DEFINE s == read_slave_rx_fifo(spi, spiRx)
             t == [s EXCEPT !.resp_size = size, !.resp_idx = 0, !.cmd_done = TRUE]
             r == fill_slave_tx_fifo(t, spiTx)
             f == fill_slave_tx_fifo(r.spi, r.fifo)
  <2>1. IsSpi(s)
    BY ReadsFifo
  <2>2. IsSpi(t)
    <3> HIDE DEF s
    <3> QED BY <2>1 DEF IsSpi, SpiFields
  <2>3. IsSpi(r.spi)
    <3> HIDE DEF t
    <3> QED BY <2>2, Fills
  <2>4. IsSpi(f.spi)
    <3> HIDE DEF r
    <3> QED BY <2>3, Fills
  <2>5. r = MSS_SPI_set_cmd_response(s, spiTx, size)
    BY DEF MSS_SPI_set_cmd_response
  <2>6. spi' = spi \/ spi' = [f.spi EXCEPT !.cmd_done = TRUE, !.ie = @ \ {"cmd"}]
    BY <1>4, <2>5 DEF isr_cmd
  <2>7. IsSpi(spi')
    <3> HIDE DEF f
    <3> QED BY <2>4, <2>6 DEF IsSpi, SpiFields
  <2>8. Out
    BY <1>4 DEF isr_cmd, line_, InTransfer
  <2> QED BY <2>7, <2>8
<1>5. CASE isr_overflow
  BY <1>5, Recovers DEF isr_overflow, line_, InTransfer
<1>6. CASE isr_underrun
  <2> DEFINE t == [spi EXCEPT !.tx_idx = 0]
             f == fill_slave_tx_fifo(t, <<>>)
  <2>1. IsSpi(t) /\ IsSpi([spi EXCEPT !.count = 1])
    BY DEF IsSpi, SpiFields
  <2>2. IsSpi(f.spi)
    <3> HIDE DEF t
    <3> QED BY <2>1, Fills
  <2>3. spi' = spi \/ spi' = f.spi \/ spi' = [spi EXCEPT !.count = 1]
    <3> HIDE DEF f
    <3>1. CASE ~Raised("underrun")
      BY <1>6, <3>1 DEF isr_underrun
    <3>2. CASE Raised("underrun")
      BY <1>6, <3>2 DEF isr_underrun, f
    <3> QED BY <3>1, <3>2
  <2>4. Out
    BY <1>6 DEF isr_underrun, line_, InTransfer
  <2> HIDE DEF f
  <2> QED BY <2>1, <2>2, <2>3, <2>4
<1>7. CASE isr_ssend
  <2> DEFINE s == read_slave_rx_fifo(spi, spiRx)
             t == Restarted(s)
             f == fill_slave_tx_fifo(t, <<>>)
  <2>1. IsSpi(s)
    BY ReadsFifo
  <2>2. IsSpi(t)
    <3> HIDE DEF s
    <3> QED BY <2>1, Restarts
  <2>3. IsSpi(f.spi)
    <3> HIDE DEF t
    <3> QED BY <2>2, Fills
  <2>4. spi' = spi \/ spi' = f.spi
    BY <1>7 DEF isr_ssend
  <2>5. Out
    BY <1>7 DEF isr_ssend, line_, InTransfer
  <2> HIDE DEF f
  <2> QED BY <2>3, <2>4, <2>5
<1>8. CASE isr_handled
  BY <1>8 DEF isr_handled, line_, InTransfer
<1> QED BY <1>1, <1>2, <1>3, <1>4, <1>5, <1>6, <1>7, <1>8 DEF SpiIsr

----------------------------------------------------------------------------
(* The transfers of the master.                                            *)

LEMMA TransferBegins ==
  ASSUME MasterInv, NEW cmd \in Nat, NEW rd \in Nat, MSS_SPI_transfer_block(cmd, rd)
  PROVE  MasterInv'
<1> DEFINE x == [kind |-> "block", cmd |-> cmd, rd |-> rd, tx_idx |-> 0, transfer_idx |-> 0,
                 transit |-> 0, rd_buffer |-> <<>>]
           y == [kind |-> "block", cmd |-> cmd, rd |-> rd, tx_idx |-> 1, transfer_idx |-> 0,
                 transit |-> 1, rd_buffer |-> <<>>]
           s == IF spi.overflow THEN recover_from_rx_overflow(spi) ELSE spi
<1>1. IsSpi(s) /\ s.role = spi.role /\ ~s.overflow
  BY Recovers DEF MasterInv, MasterTypes
<1>2. IsSpi(spi') /\ spi'.role = "master" /\ ~spi'.overflow
  <2>1. \E c : spi' = [s EXCEPT !.count = c, !.on = TRUE]
    BY DEF MSS_SPI_transfer_block
  <2>2. s.role = "master"
    BY <1>1 DEF MSS_SPI_transfer_block
  <2> HIDE DEF s
  <2> QED BY <1>1, <2>1, <2>2 DEF IsSpi, SpiFields
<1>3. Fed(x) = y /\ x \in XferRecord /\ y \in XferRecord
  <2>1. <<>> \in Seq(Nat)
    BY EmptySeq
  <2>2. Fed(x) = y
    <3>1. Fed(x) = [x EXCEPT !.tx_idx = 1, !.transit = 1]
      BY DEF Fed
    <3> QED BY <3>1
  <2> QED BY <2>1, <2>2 DEF XferRecord
<1>4. Ascending(0, 0) = <<>> /\ Ascending(cmd, 0) = <<>> /\ Ascending(0, 1) = <<1>>
  <2>1. Ascending(0, 0) = <<>> /\ Ascending(cmd, 0) = <<>>
    BY NoneFollow
  <2>2. Append(Ascending(0, 0), 0 + 0 + 1) = Ascending(0, 0 + 1)
    BY LastFollows
  <2>3. 0 + 0 + 1 = 1 /\ 0 + 1 = 1
    OBVIOUS
  <2>4. Append(<<>>, 1) = Ascending(0, 1)
    BY <2>1, <2>2, <2>3
  <2>5. Append(<<>>, 1) = <<1>>
    OBVIOUS
  <2> QED BY <2>1, <2>4, <2>5
<1>5. CASE cmd + rd = 0
  <2>1. spiXfer' = x /\ spiAt' = "run" /\ rd = 0
    BY <1>5 DEF MSS_SPI_transfer_block
  <2> QED BY <1>2, <1>3, <1>4, <2>1
          DEF MasterInv, MasterTypes, InFlight, InTransfer, Reads, OneFrame, HasRead
<1>6. CASE cmd + rd > 0
  <2>1. spiXfer' = y /\ spiAt' = "drain" /\ spiTx' = <<1>> /\ spiRx' = <<>>
    BY <1>6, <1>3 DEF MSS_SPI_transfer_block
  <2>2. InFlight'
    <3>1. 0 \in 0..1 /\ <<>> = Ascending(0, 0) /\ <<1>> = Ascending(0 + 0, 1 - 0) /\ 1 <= RxFrames
      BY <1>4, SpiAssumption
    <3>2. InFlight' <=>
            /\ spi'.role = "master" /\ ~spi'.overflow
            /\ 0 + 1 = 1 /\ 1 <= cmd + rd /\ 1 <= RxFrames
            /\ \E n \in 0..1 : <<>> = Ascending(0, n) /\ <<1>> = Ascending(0 + n, 1 - n)
      BY <2>1 DEF InFlight, InTransfer
    <3> QED BY <1>2, <1>6, <3>1, <3>2
  <2>3. Reads'
    BY <2>1, <1>4 DEF Reads, Kept
  <2> QED BY <1>2, <1>3, <2>1, <2>2, <2>3 DEF MasterInv, MasterTypes, InTransfer, OneFrame, HasRead
<1> QED BY <1>5, <1>6

LEMMA Drained ==
  ASSUME MasterInv, drain
  PROVE  MasterInv'
<1> DEFINE x == spiXfer
<1>1. /\ x \in XferRecord /\ IsSpi(spi) /\ spi.role = "master" /\ ~spi.overflow
      /\ x.transfer_idx + x.transit = x.tx_idx /\ x.tx_idx <= x.cmd + x.rd /\ x.transit <= RxFrames
      /\ x.rd_buffer = Ascending(x.cmd, Kept(x))
  BY DEF MasterInv, MasterTypes, InFlight, Reads, InTransfer, drain
<1>2. /\ x.cmd \in Nat /\ x.rd \in Nat /\ x.tx_idx \in Nat /\ x.transfer_idx \in Nat
      /\ x.transit \in Nat /\ x.rd_buffer \in Seq(Nat)
  BY <1>1 DEF XferRecord
<1>3. spiAt' = "feed" /\ spi' = spi /\ spiTx' = spiTx
  BY DEF drain
<1>4. PICK n \in 0..x.transit : /\ spiRx = Ascending(x.transfer_idx, n)
                                /\ spiTx = Ascending(x.transfer_idx + n, x.transit - n)
  BY DEF MasterInv, InFlight, InTransfer, drain
<1>5. CASE n = 0
  <2>1. spiRx = <<>>
    BY <1>2, <1>4, <1>5, NoneFollow
  <2>2. UNCHANGED <<spi, spiTx, spiRx, spiXfer>>
    BY <2>1 DEF drain
  <2> QED BY <1>3, <2>2
          DEF MasterInv, MasterTypes, InFlight, InTransfer, Reads, OneFrame, HasRead, drain, Kept
<1>6. CASE n # 0
  <2> DEFINE more == x.transfer_idx >= x.cmd /\ Len(x.rd_buffer) < x.rd
             got  == IF more THEN Append(x.rd_buffer, x.transfer_idx + 1) ELSE x.rd_buffer
             y == [kind |-> x.kind, cmd |-> x.cmd, rd |-> x.rd, tx_idx |-> x.tx_idx,
                   transfer_idx |-> x.transfer_idx + 1, transit |-> x.transit - 1,
                   rd_buffer |-> got]
  <2>1. /\ spiRx # <<>> /\ Head(spiRx) = x.transfer_idx + 1
        /\ Tail(spiRx) = Ascending(x.transfer_idx + 1, n - 1)
    <3>1. x.transfer_idx \in Nat /\ n \in Nat \ {0}
      BY <1>2, <1>6
    <3> HIDE DEF x
    <3> QED BY <1>4, <3>1, FirstFollows
  <2>2. spiXfer' = y
    <3>1. spiXfer' = [x EXCEPT !.transfer_idx = x.transfer_idx + 1, !.transit = x.transit - 1,
                               !.rd_buffer = got]
      BY <2>1 DEF drain
    <3> HIDE DEF got
    <3> QED BY <1>1, <3>1 DEF XferRecord
  <2>3. Kept(x) \in Nat /\ Len(x.rd_buffer) = Kept(x) /\ x.transfer_idx + 1 <= x.cmd + x.rd
    <3>1. Kept(x) \in Nat
      BY <1>2 DEF Kept
    <3>2. Len(Ascending(x.cmd, Kept(x))) = Kept(x)
      BY <1>2, <3>1, FollowingIs
    <3>3. x.transit >= 1
      BY <1>2, <1>6
    <3>4. x.transfer_idx + 1 <= x.cmd + x.rd
      BY <1>1, <1>2, <3>3
    <3> QED BY <1>1, <3>1, <3>2, <3>4
  <2>4. got \in Seq(Nat) /\ got = Ascending(x.cmd, Kept(y))
    <3>1. y.transfer_idx = x.transfer_idx + 1 /\ y.cmd = x.cmd
      OBVIOUS
    <3>2. CASE x.transfer_idx >= x.cmd
      <4>1. Kept(x) = x.transfer_idx - x.cmd /\ Kept(x) < x.rd /\ Kept(y) = Kept(x) + 1
        <5>1. Kept(x) = x.transfer_idx - x.cmd
          BY <1>2, <3>2 DEF Kept
        <5> HIDE DEF y
        <5>2. Kept(y) = y.transfer_idx - y.cmd
          <6>1. ~(y.transfer_idx <= y.cmd)
            BY <1>2, <3>1, <3>2
          <6> QED BY <6>1 DEF Kept
        <5>3. /\ x.transfer_idx \in Nat /\ x.cmd \in Nat /\ x.rd \in Nat
              /\ x.transfer_idx + 1 <= x.cmd + x.rd
          BY <1>2, <2>3
        <5>4. Kept(x) < x.rd
          BY ONLY <5>1, <5>3
        <5>5. Kept(y) = Kept(x) + 1
          BY ONLY <3>1, <5>1, <5>2, <5>3
        <5> QED BY <5>1, <5>4, <5>5
      <4>2. more
        BY <2>3, <3>2, <4>1
      <4>3. Append(Ascending(x.cmd, Kept(x)), x.cmd + Kept(x) + 1) = Ascending(x.cmd, Kept(x) + 1)
        BY <1>2, <2>3, LastFollows
      <4>4. x.cmd + Kept(x) + 1 = x.transfer_idx + 1
        BY <1>2, <4>1
      <4>5. got = Append(x.rd_buffer, x.transfer_idx + 1)
        BY <4>2
      <4>6. got \in Seq(Nat)
        BY <1>2, <4>5, AppendProperties, x.transfer_idx + 1 \in Nat
      <4> HIDE DEF got, more
      <4> QED BY <1>1, <4>1, <4>3, <4>4, <4>5, <4>6
    <3>3. CASE ~(x.transfer_idx >= x.cmd)
      <4>1. got = x.rd_buffer
        BY <3>3
      <4>2. Kept(y) = 0 /\ Kept(x) = 0
        BY <1>2, <3>1, <3>3 DEF Kept
      <4> HIDE DEF got, more
      <4> QED BY <1>1, <1>2, <4>1, <4>2
    <3> QED BY <3>2, <3>3
  <2>5. y \in XferRecord
    <3>1. x.transit - 1 \in Nat /\ x.transfer_idx + 1 \in Nat /\ x.kind \in {"none", "block", "frame"}
      BY <1>1, <1>2, <1>4, <1>6 DEF XferRecord
    <3> HIDE DEF got
    <3> QED BY <1>2, <2>4, <3>1 DEF XferRecord
  <2>6. InFlight'
    <3> DEFINE m == n - 1
    <3>1. /\ m \in 0..(x.transit - 1) /\ spiRx' = Ascending(x.transfer_idx + 1, m)
          /\ x.transfer_idx + 1 + m = x.transfer_idx + n /\ x.transit - 1 - m = x.transit - n
      <4>1. spiRx' = Tail(spiRx)
        BY <2>1 DEF drain
      <4>2. /\ m \in 0..(x.transit - 1) /\ x.transfer_idx + 1 + m = x.transfer_idx + n
            /\ x.transit - 1 - m = x.transit - n
        BY <1>2, <1>6
      <4> QED BY <2>1, <4>1, <4>2
    <3>2. spiTx' = Ascending(x.transfer_idx + 1 + m, x.transit - 1 - m)
      BY <1>3, <1>4, <3>1
    <3>3. /\ spiXfer'.transfer_idx = x.transfer_idx + 1 /\ spiXfer'.transit = x.transit - 1
          /\ spiXfer'.tx_idx = x.tx_idx /\ spiXfer'.cmd = x.cmd /\ spiXfer'.rd = x.rd
      BY <2>2
    <3>4. x.transfer_idx + 1 + (x.transit - 1) = x.tx_idx /\ x.transit - 1 <= RxFrames
      <4>1. RxFrames \in Nat
        BY SpiAssumption
      <4>2. /\ x.transfer_idx + x.transit = x.tx_idx /\ x.transit <= RxFrames
            /\ x.tx_idx \in Nat /\ x.transfer_idx \in Nat /\ x.transit \in Nat
        BY <1>1, <1>2
      <4> HIDE DEF x
      <4> QED BY ONLY <4>1, <4>2
    <3> HIDE DEF m
    <3>5. \E k \in 0..spiXfer'.transit :
             /\ spiRx' = Ascending(spiXfer'.transfer_idx, k)
             /\ spiTx' = Ascending(spiXfer'.transfer_idx + k, spiXfer'.transit - k)
      BY <3>1, <3>2, <3>3
    <3> QED BY <1>1, <1>3, <3>3, <3>4, <3>5 DEF InFlight
  <2>7. Reads'
    <3>1. spiXfer'.rd_buffer = got /\ spiXfer'.cmd = x.cmd
      BY <2>2
    <3>2. Kept(spiXfer') = Kept(y)
      BY <2>2
    <3> HIDE DEF got, y
    <3>3. spiXfer'.rd_buffer = Ascending(spiXfer'.cmd, Kept(spiXfer'))
      BY <2>4, <3>1, <3>2
    <3> QED BY <3>3 DEF Reads, Kept, Ascending
  <2> HIDE DEF y
  <2> QED BY <1>1, <1>3, <2>2, <2>5, <2>6, <2>7
          DEF MasterInv, MasterTypes, InTransfer, OneFrame, HasRead
<1> QED BY <1>5, <1>6

LEMMA FedOrDone ==
  ASSUME MasterInv, feed
  PROVE  MasterInv'
<1> DEFINE x == spiXfer
           feeds == Len(spiTx) < FifoFrames /\ MayFeed(x) /\ x.tx_idx < x.cmd + x.rd
           y == [kind |-> x.kind, cmd |-> x.cmd, rd |-> x.rd, tx_idx |-> x.tx_idx + 1,
                 transfer_idx |-> x.transfer_idx, transit |-> x.transit + 1,
                 rd_buffer |-> x.rd_buffer]
<1>1. /\ x \in XferRecord /\ IsSpi(spi) /\ spi.role = "master" /\ ~spi.overflow
      /\ x.transfer_idx + x.transit = x.tx_idx /\ x.tx_idx <= x.cmd + x.rd /\ x.transit <= RxFrames
      /\ x.rd_buffer = Ascending(x.cmd, Kept(x))
  BY DEF MasterInv, MasterTypes, InFlight, Reads, InTransfer, feed
<1>2. /\ x.cmd \in Nat /\ x.rd \in Nat /\ x.tx_idx \in Nat /\ x.transfer_idx \in Nat
      /\ x.transit \in Nat /\ x.rd_buffer \in Seq(Nat)
  BY <1>1 DEF XferRecord
<1>3. spiAt' \in {"drain", "run"} /\ spi' = spi /\ spiRx' = spiRx
  BY DEF feed
<1>4. PICK n \in 0..x.transit : /\ spiRx = Ascending(x.transfer_idx, n)
                                /\ spiTx = Ascending(x.transfer_idx + n, x.transit - n)
  BY DEF MasterInv, InFlight, InTransfer, feed
(* What the wire and the FIFOs hold stays between the two indices.         *)
<1>5. /\ spiXfer' \in XferRecord
      /\ spiXfer'.cmd = x.cmd /\ spiXfer'.rd = x.rd /\ spiXfer'.transfer_idx = x.transfer_idx
      /\ spiXfer'.rd_buffer = x.rd_buffer
      /\ spiXfer'.transfer_idx + spiXfer'.transit = spiXfer'.tx_idx
      /\ spiXfer'.tx_idx <= x.cmd + x.rd /\ spiXfer'.transit <= RxFrames
      /\ n \in 0..spiXfer'.transit
      /\ spiTx' = Ascending(x.transfer_idx + n, spiXfer'.transit - n)
  <2>1. CASE feeds
    <3>1. spiXfer' = y
      <4>1. spiXfer' = [x EXCEPT !.tx_idx = @ + 1, !.transit = @ + 1]
        BY <2>1 DEF feed, Fed
      <4> QED BY <1>1, <4>1 DEF XferRecord
    <3>2. y \in XferRecord
      BY <1>1, <1>2 DEF XferRecord
    <3>3. spiTx' = Append(spiTx, x.tx_idx + 1)
      BY <2>1 DEF feed
    <3>4. Append(Ascending(x.transfer_idx + n, x.transit - n), (x.transfer_idx + n) + (x.transit - n) + 1)
            = Ascending(x.transfer_idx + n, x.transit - n + 1)
      BY <1>2, <1>4, LastFollows, x.transfer_idx + n \in Nat, x.transit - n \in Nat
    <3>5. /\ (x.transfer_idx + n) + (x.transit - n) + 1 = x.tx_idx + 1
          /\ x.transit - n + 1 = (x.transit + 1) - n /\ n \in 0..x.transit + 1
      BY <1>1, <1>2, <1>4
    <3>6. spiTx' = Ascending(x.transfer_idx + n, (x.transit + 1) - n)
      BY <1>4, <3>3, <3>4, <3>5
    <3>7. x.transit + 1 <= RxFrames /\ x.tx_idx + 1 <= x.cmd + x.rd
      BY <1>2, <2>1, SpiAssumption, SMTT(20) DEF MayFeed
    <3>8. x.transfer_idx + (x.transit + 1) = x.tx_idx + 1
      BY <1>1, <1>2
    <3> QED BY <3>1, <3>2, <3>5, <3>6, <3>7, <3>8
  <2>2. CASE ~feeds
    BY <1>1, <1>4, <2>2 DEF feed
  <2> QED BY <2>1, <2>2
<1>6. InFlight'
  <2>1. \E k \in 0..spiXfer'.transit :
             /\ spiRx' = Ascending(spiXfer'.transfer_idx, k)
             /\ spiTx' = Ascending(spiXfer'.transfer_idx + k, spiXfer'.transit - k)
    BY <1>3, <1>4, <1>5
  <2> QED BY <1>1, <1>3, <1>5, <2>1 DEF InFlight
<1>7. Reads'
  <2>1. Kept(spiXfer') = Kept(x)
    BY <1>5 DEF Kept
  <2> QED BY <1>1, <1>5, <2>1 DEF Reads, Kept, Ascending
<1>8. HasRead'
  <2>1. CASE x.transfer_idx < x.cmd + x.rd
    BY <2>1 DEF feed, HasRead, InTransfer
  <2>2. CASE ~(x.transfer_idx < x.cmd + x.rd)
    <3>1. Kept(x) = x.rd
      BY <1>1, <1>2, <2>2 DEF Kept
    <3>2. spiXfer'.rd_buffer = Ascending(spiXfer'.cmd, spiXfer'.rd)
      BY <1>1, <1>5, <3>1
    <3> QED BY <3>2 DEF HasRead, Ascending
  <2> QED BY <2>1, <2>2
<1> QED BY <1>1, <1>3, <1>5, <1>6, <1>7, <1>8 DEF MasterInv, MasterTypes, OneFrame

LEMMA OneIsTransferred ==
  ASSUME MasterInv, MSS_SPI_transfer_frame
  PROVE  MasterInv'
<1>0. spiXfer \in XferRecord /\ IsSpi(spi)
  BY DEF MasterInv, MasterTypes
<1>1. CASE spiAt = "run"
  <2>1. /\ spi.role = "master" /\ spi' = [spi EXCEPT !.count = 1]
        /\ spiXfer' = [spiXfer EXCEPT !.kind = "frame", !.rd = 1, !.cmd = 0, !.rd_buffer = <<>>]
        /\ spiTx' = <<1>> /\ spiRx' = <<>> /\ spiAt' = "frame"
    BY <1>1 DEF MSS_SPI_transfer_frame
  <2>2. IsSpi(spi') /\ spi'.role = "master"
    BY <1>0, <2>1 DEF IsSpi, SpiFields
  <2>3. <<>> \in Seq(Nat)
    BY EmptySeq
  <2>4. spiXfer' \in XferRecord /\ spiXfer'.cmd = 0 /\ spiXfer'.rd = 1
    BY <1>0, <2>1, <2>3 DEF XferRecord
  <2> QED BY <2>1, <2>2, <2>4
          DEF MasterInv, MasterTypes, InFlight, InTransfer, Reads, OneFrame, HasRead
<1>2. CASE spiAt # "run"
  <2>1. /\ spiAt = "frame" /\ spiTx = <<>> /\ spiRx # <<>>
        /\ spiXfer' = [spiXfer EXCEPT !.rd_buffer = <<Head(spiRx)>>]
        /\ spiAt' = "run" /\ spi' = spi
    BY <1>2 DEF MSS_SPI_transfer_frame
  <2>2. /\ spiXfer.cmd = 0 /\ spiXfer.rd = 1
        /\ (spiTx = <<1>> /\ spiRx = <<>>) \/ (spiTx = <<>> /\ spiRx = <<1>>)
    BY <2>1 DEF MasterInv, OneFrame
  <2>3. spiRx = <<1>> /\ <<Head(spiRx)>> = <<1>> /\ <<1>> \in Seq(Nat)
    BY <2>1, <2>2
  <2>4. Ascending(0, 1) = <<1>>
    <3>1. Append(Ascending(0, 0), 0 + 0 + 1) = Ascending(0, 0 + 1) /\ Ascending(0, 0) = <<>>
      BY LastFollows, NoneFollow
    <3>2. 0 + 0 + 1 = 1 /\ 0 + 1 = 1
      OBVIOUS
    <3>3. Append(<<>>, 1) = <<1>>
      OBVIOUS
    <3> QED BY <3>1, <3>2, <3>3
  <2>5. spiXfer' \in XferRecord /\ spiXfer'.cmd = 0 /\ spiXfer'.rd = 1 /\ spiXfer'.rd_buffer = <<1>>
    BY <1>0, <2>1, <2>2, <2>3 DEF XferRecord
  <2>6. spiXfer'.rd_buffer = Ascending(spiXfer'.cmd, spiXfer'.rd)
    BY <2>4, <2>5
  <2>7. HasRead'
    BY <2>6 DEF HasRead, Ascending
  <2> QED BY <1>0, <2>1, <2>5, <2>7
          DEF MasterInv, MasterTypes, InFlight, InTransfer, Reads, OneFrame
<1> QED BY <1>1, <1>2

(* The slave answers: what is in flight moves from one FIFO to the other.  *)
LEMMA Exchanged ==
  ASSUME MasterInv, exchange
  PROVE  MasterInv'
<1>1. spiXfer \in XferRecord /\ IsSpi(spi) /\ UNCHANGED <<spiAt, spiXfer>>
  BY DEF MasterInv, MasterTypes, exchange, line_
<1>2. IsSpi(spi') /\ spi'.role = spi.role
  <2>1. spi' = spi \/ spi' = [spi EXCEPT !.overflow = TRUE]
    BY DEF exchange
  <2> QED BY <1>1, <2>1 DEF IsSpi, SpiFields
<1>3. OneFrame'
  <2>1. CASE spiAt = "frame"
    <3>1. spiTx = <<1>> /\ spiRx = <<>>
      BY <2>1 DEF MasterInv, OneFrame, exchange
    <3>2. Len(spiRx) < RxFrames /\ Tail(spiTx) = <<>> /\ Append(spiRx, Head(spiTx)) = <<1>>
      BY <3>1, SpiAssumption
    <3>3. spiTx' = <<>> /\ spiRx' = <<1>>
      BY <3>2 DEF exchange
    <3> QED BY <1>1, <1>2, <2>1, <3>3 DEF MasterInv, OneFrame
  <2>2. CASE spiAt # "frame"
    BY <1>1, <2>2 DEF OneFrame
  <2> QED BY <2>1, <2>2
<1>4. InFlight'
  <2>1. CASE InTransfer
    <3> DEFINE x == spiXfer
    <3>1. /\ x.cmd \in Nat /\ x.rd \in Nat /\ x.tx_idx \in Nat /\ x.transfer_idx \in Nat
          /\ x.transit \in Nat
      BY <1>1 DEF XferRecord
    <3>2. PICK n \in 0..x.transit : /\ spiRx = Ascending(x.transfer_idx, n)
                                    /\ spiTx = Ascending(x.transfer_idx + n, x.transit - n)
      BY <2>1 DEF MasterInv, InFlight
    <3>3. n # x.transit
      <4>1. Ascending(x.transfer_idx + n, 0) = <<>>
        BY <3>1, <3>2, NoneFollow, x.transfer_idx + n \in Nat
      <4>2. n = x.transit => x.transit - n = 0
        BY <3>1
      <4> QED BY <3>2, <4>1, <4>2 DEF exchange
    <3>4. x.transit - n \in Nat \ {0} /\ x.transfer_idx + n \in Nat /\ n + 1 \in 0..x.transit
          /\ x.transit - n - 1 = x.transit - (n + 1) /\ n < RxFrames /\ n \in Nat
          /\ x.transfer_idx + n + 1 = x.transfer_idx + (n + 1)
      BY <2>1, <3>1, <3>2, <3>3, SpiAssumption DEF MasterInv, InFlight
    <3>5. /\ Head(spiTx) = x.transfer_idx + n + 1
          /\ Tail(spiTx) = Ascending(x.transfer_idx + n + 1, x.transit - n - 1)
      BY <3>2, <3>4, FirstFollows
    <3>6. Len(spiRx) = n
      BY <3>1, <3>2, <3>4, FollowingIs
    <3>7. Append(spiRx, x.transfer_idx + n + 1) = Ascending(x.transfer_idx, n + 1)
      BY <3>1, <3>2, <3>4, LastFollows
    <3>8. spiTx' = Ascending(x.transfer_idx + (n + 1), x.transit - (n + 1))
          /\ spiRx' = Ascending(x.transfer_idx, n + 1) /\ spi' = spi
      BY <3>4, <3>5, <3>6, <3>7 DEF exchange
    <3>9. \E k \in 0..x.transit : /\ spiRx' = Ascending(x.transfer_idx, k)
                                   /\ spiTx' = Ascending(x.transfer_idx + k, x.transit - k)
      BY <3>4, <3>8
    <3>10. /\ spi.role = "master" /\ ~spi.overflow
           /\ x.transfer_idx + x.transit = x.tx_idx
           /\ x.tx_idx <= x.cmd + x.rd /\ x.transit <= RxFrames
      BY <2>1 DEF MasterInv, InFlight
    <3> QED BY <1>1, <3>8, <3>9, <3>10 DEF InFlight
  <2>2. CASE ~InTransfer
    BY <1>1, <2>2 DEF InFlight, InTransfer
  <2> QED BY <2>1, <2>2
<1> QED BY <1>1, <1>2, <1>3, <1>4 DEF MasterInv, MasterTypes, InTransfer, Reads, HasRead, Kept

----------------------------------------------------------------------------
LEMMA MasterStarts == SpiInit => MasterInv
<1> SUFFICES ASSUME SpiInit PROVE MasterInv
  OBVIOUS
<1>1. IsSpi(spi)
  BY DEF SpiInit, Unset, IsSpi, SpiFields
<1>2. <<>> \in Seq(Nat) /\ Ascending(0, 0) = <<>>
  BY EmptySeq, NoneFollow
<1>3. spiXfer \in XferRecord /\ spiXfer.cmd = 0 /\ spiXfer.rd = 0 /\ spiXfer.rd_buffer = <<>>
  BY <1>2 DEF SpiInit, XferRecord
<1>4. spiAt = "run"
  BY DEF SpiInit
<1> QED BY <1>1, <1>2, <1>3, <1>4
        DEF MasterInv, MasterTypes, InFlight, InTransfer, Reads, OneFrame, HasRead

LEMMA MasterSteps == MasterInv /\ [SpiNext]_spiVars => MasterInv'
<1> SUFFICES ASSUME MasterInv, [SpiNext]_spiVars PROVE MasterInv'
  OBVIOUS
<1>0. IsSpi(spi) /\ spiXfer \in XferRecord
  BY DEF MasterInv, MasterTypes
<1>1. CASE SpiSetups
  <2>1. IsSpi(spi') /\ spiAt = "run" /\ UNCHANGED <<spiAt, spiXfer>>
    BY <1>0, <1>1, SetupsKeepRecord
  <2> QED BY <1>0, <2>1
          DEF MasterInv, MasterTypes, InFlight, InTransfer, Reads, OneFrame, HasRead
<1>2. CASE SpiIsr
  <2>1. /\ IsSpi(spi') /\ UNCHANGED spiXfer
        /\ ~InTransfer /\ spiAt # "frame" /\ ~InTransfer' /\ spiAt' # "frame"
    BY <1>0, <1>2, IsrKeepsRecord
  <2> QED BY <1>0, <2>1 DEF MasterInv, MasterTypes, InFlight, Reads, OneFrame, HasRead
<1>3. CASE SpiMaster
  <2>1. ASSUME NEW cmd \in 0..MaxTransfer, NEW rd \in 0..MaxTransfer, MSS_SPI_transfer_block(cmd, rd)
        PROVE  MasterInv'
    BY <2>1, TransferBegins
  <2> QED BY <1>3, <2>1, Drained, FedOrDone, OneIsTransferred, Exchanged DEF SpiMaster
<1>4. CASE select \/ clock \/ release
  <2>1. IsSpi(spi') /\ UNCHANGED <<spiAt, spiXfer>>
    BY <1>0, <1>4 DEF select, clock, release, IsSpi, SpiFields
  <2>2. (InTransfer \/ spiAt = "frame") => spi.role = "master"
    BY DEF MasterInv, InFlight, OneFrame
  <2>3. spi.role = "master" => UNCHANGED <<spi, spiTx, spiRx>>
    BY <1>4 DEF select, clock, release
  <2> QED BY <1>0, <2>1, <2>2, <2>3
          DEF MasterInv, MasterTypes, InFlight, InTransfer, Reads, OneFrame, HasRead
<1>5. CASE UNCHANGED spiVars
  BY <1>5 DEF spiVars, MasterInv, MasterTypes, InFlight, InTransfer, Reads, OneFrame, HasRead, IsSpi, Kept
<1> QED BY <1>1, <1>2, <1>3, <1>4, <1>5 DEF SpiNext

LEMMA MasterHolds == MasterInv => ReadsItsAnswer
BY DEF MasterInv, InFlight, HasRead, InTransfer, ReadsItsAnswer, Ascending

(* However many frames a transfer has, whatever the two FIFOs hold and     *)
(* whenever the wire moves, the master reads the answer to each frame that *)
(* follows its command, once and in order.                                 *)
THEOREM MasterReads == SpiSpec => []ReadsItsAnswer
<1>1. SpiSpec => []MasterInv
  BY MasterStarts, MasterSteps, PTL DEF SpiSpec
<1> QED BY <1>1, MasterHolds, PTL

----------------------------------------------------------------------------
(* The slave.                                                              *)

SpiTags == {"tx", "resp", "zero", "frame", "nothing"}
SpiWords == Nat \cup (SpiTags \X Nat) \cup (Nat \X Nat)

SpiTyped(s) ==
  /\ IsSpi(s)
  /\ s.role \in {"reset", "slave", "master"} /\ s.mode \in {"none", "frame", "block"}
  /\ s.ie \subseteq CONTROL_irqs \cup {"cmd", "ssend"} /\ s.selected \subseteq s.slaves
  /\ s.tx_size \in Nat /\ s.tx_idx \in Nat /\ s.rx_size \in Nat /\ s.rx_idx \in Nat
  /\ s.rx_buffer \in Seq(SpiWords) /\ Len(s.rx_buffer) <= s.rx_size
  /\ FewerOf(s.rx_idx, s.rx_size) <= Len(s.rx_buffer)
  /\ s.resp_size \in Nat /\ s.resp_idx \in Nat /\ s.resp_idx <= s.resp_size
  /\ s.cmd_handler \in BOOLEAN /\ s.cmd_done \in BOOLEAN /\ s.autofill \in BOOLEAN

AFifo(fifo) == fifo \in Seq(SpiWords) /\ Len(fifo) <= FifoFrames

LEMMA SpiNumbers ==
  /\ FifoFrames \in Nat /\ RxFrames \in Nat /\ 1 <= RxFrames /\ RxFrames <= FifoFrames
  /\ 2 <= FifoFrames /\ SpiSizes \subseteq Nat /\ MaxFrames \in Nat
BY SpiAssumption

LEMMA ThreeJoined ==
  ASSUME NEW S, NEW p \in Seq(S), NEW q \in Seq(S), NEW r \in Seq(S), NEW t \in Seq(S),
         NEW j, j = p \o q \o r \o t
  PROVE  /\ j \in Seq(S) /\ Len(j) = Len(p) + Len(q) + Len(r) + Len(t)
         /\ \A k \in 1..Len(p) : j[k] = p[k]
         /\ \A k \in 1..Len(q) : j[Len(p) + k] = q[k]
         /\ \A k \in 1..Len(r) : j[Len(p) + Len(q) + k] = r[k]
         /\ \A k \in 1..Len(t) : j[Len(p) + Len(q) + Len(r) + k] = t[k]
<1> DEFINE u == p \o q
           v == u \o r
<1>0. Len(p) \in Nat /\ Len(q) \in Nat /\ Len(r) \in Nat /\ Len(t) \in Nat
  BY LenProperties
<1>1. /\ u \in Seq(S) /\ Len(u) = Len(p) + Len(q)
      /\ \A k \in 1..Len(p) + Len(q) : u[k] = IF k <= Len(p) THEN p[k] ELSE q[k - Len(p)]
  BY ConcatProperties
<1> HIDE DEF u
<1>2. /\ v \in Seq(S) /\ Len(v) = Len(u) + Len(r)
      /\ \A k \in 1..Len(u) + Len(r) : v[k] = IF k <= Len(u) THEN u[k] ELSE r[k - Len(u)]
  BY <1>1, ConcatProperties
<1> HIDE DEF v
<1>3. /\ j \in Seq(S) /\ Len(j) = Len(v) + Len(t)
      /\ \A k \in 1..Len(v) + Len(t) : j[k] = IF k <= Len(v) THEN v[k] ELSE t[k - Len(v)]
  <2>1. j = v \o t
    BY DEF u, v
  <2> QED BY <1>2, <2>1, ConcatProperties
<1>4. ASSUME NEW k \in 1..Len(p) PROVE j[k] = p[k]
  BY <1>0, <1>1, <1>2, <1>3
<1>5. ASSUME NEW k \in 1..Len(q) PROVE j[Len(p) + k] = q[k]
  <2>1. Len(p) + k \in 1..Len(p) + Len(q) /\ ~(Len(p) + k <= Len(p)) /\ (Len(p) + k) - Len(p) = k
    BY <1>0
  <2> QED BY <1>0, <1>1, <1>2, <1>3, <2>1
<1>6. ASSUME NEW k \in 1..Len(r) PROVE j[Len(p) + Len(q) + k] = r[k]
  <2>1. (Len(p) + Len(q) + k) - (Len(p) + Len(q)) = k
    BY <1>0
  <2> QED BY <1>0, <1>1, <1>2, <1>3, <2>1
<1>7. ASSUME NEW k \in 1..Len(t) PROVE j[Len(p) + Len(q) + Len(r) + k] = t[k]
  <2>1. (Len(p) + Len(q) + Len(r) + k) - (Len(p) + Len(q) + Len(r)) = k
    BY <1>0
  <2> QED BY <1>0, <1>1, <1>2, <1>3, <2>1
<1> QED BY <1>0, <1>1, <1>2, <1>3, <1>4, <1>5, <1>6, <1>7

(* What a refill adds: some of the buffer, then of the response, then      *)
(* zeros, each only when there is no more of what goes before it.          *)
Refill(s, fifo, f, a, b, z) ==
  /\ f.spi = [s EXCEPT !.tx_idx = s.tx_idx + a, !.resp_idx = s.resp_idx + b]
  /\ f.fifo \in Seq(SpiWords) /\ Len(f.fifo) = Len(fifo) + a + b + z /\ Len(f.fifo) <= FifoFrames
  /\ \A k \in 1..Len(fifo) : f.fifo[k] = fifo[k]
  /\ \A k \in 1..a : f.fifo[Len(fifo) + k] = <<"tx", s.tx_idx + k>>
  /\ \A k \in 1..b : f.fifo[Len(fifo) + a + k] = <<"resp", s.resp_idx + k>>
  /\ \A k \in 1..z : f.fifo[Len(fifo) + a + b + k] = Zero
  /\ s.tx_idx < s.tx_size => s.tx_idx + a <= s.tx_size
  /\ s.tx_idx >= s.tx_size => a = 0
  /\ s.resp_idx + b <= s.resp_size
  /\ s.tx_idx + a < s.tx_size => b = 0 /\ z = 0
  /\ z > 0 => s.cmd_done /\ s.resp_idx + b = s.resp_size

LEMMA Refills ==
  ASSUME NEW s, SpiTyped(s), NEW fifo, AFifo(fifo)
  PROVE  \E a, b, z \in Nat : Refill(s, fifo, fill_slave_tx_fifo(s, fifo), a, b, z)
<1> DEFINE room == FifoFrames - Len(fifo)
           left == IF s.tx_idx < s.tx_size THEN s.tx_size - s.tx_idx ELSE 0
           a    == FewerOf(room, left)
           b    == IF a = left THEN FewerOf(room - a, s.resp_size - s.resp_idx) ELSE 0
           z    == IF s.cmd_done /\ a = left /\ b = s.resp_size - s.resp_idx THEN room - a - b ELSE 0
           f    == fill_slave_tx_fifo(s, fifo)
           p    == [k \in 1..a |-> <<"tx", s.tx_idx + k>>]
           q    == [k \in 1..b |-> <<"resp", s.resp_idx + k>>]
           r    == [k \in 1..z |-> Zero]
<1>1. /\ s.tx_size \in Nat /\ s.tx_idx \in Nat /\ s.resp_size \in Nat /\ s.resp_idx \in Nat
      /\ s.resp_idx <= s.resp_size /\ fifo \in Seq(SpiWords) /\ Len(fifo) <= FifoFrames
      /\ Len(fifo) \in Nat /\ FifoFrames \in Nat
  BY SpiNumbers, LenProperties DEF SpiTyped, AFifo
<1>2. room \in Nat /\ left \in Nat /\ Len(fifo) + room = FifoFrames
  BY <1>1
<1>3. f.spi = [s EXCEPT !.tx_idx = s.tx_idx + a, !.resp_idx = s.resp_idx + b]
      /\ f.fifo = fifo \o p \o q \o r
  BY DEF fill_slave_tx_fifo
<1> HIDE DEF f, room
<1>4. a \in Nat /\ a <= room /\ a <= left
  BY <1>2 DEF FewerOf
<1>5. b \in Nat /\ a + b <= room /\ s.resp_idx + b <= s.resp_size /\ (b > 0 => a = left)
  <2>1. CASE a = left
    <3>1. b = FewerOf(room - a, s.resp_size - s.resp_idx)
      BY <2>1
    <3> HIDE DEF a, b, left
    <3>2. \/ b = room - a /\ room - a <= s.resp_size - s.resp_idx
          \/ b = s.resp_size - s.resp_idx /\ s.resp_size - s.resp_idx <= room - a
      BY <1>1, <1>2, <1>4, <3>1 DEF FewerOf
    <3> QED BY <1>1, <1>2, <1>4, <2>1, <3>2
  <2>2. CASE a # left
    <3>1. b = 0
      BY <2>2
    <3> HIDE DEF a, b, left
    <3> QED BY <1>1, <1>2, <1>4, <2>2, <3>1
  <2> QED BY <2>1, <2>2
<1>6. z \in Nat /\ a + b + z <= room /\ (z > 0 => s.cmd_done /\ a = left /\ s.resp_idx + b = s.resp_size)
  <2>1. CASE s.cmd_done /\ a = left /\ b = s.resp_size - s.resp_idx
    <3>1. z = room - a - b
      BY <2>1
    <3>2. s.resp_idx + b = s.resp_size
      BY <1>1, <2>1
    <3> HIDE DEF a, b, z, left
    <3> QED BY <1>2, <1>4, <1>5, <2>1, <3>1, <3>2
  <2>2. CASE ~(s.cmd_done /\ a = left /\ b = s.resp_size - s.resp_idx)
    <3>1. z = 0
      BY <2>2
    <3> HIDE DEF a, b, z, left
    <3> QED BY <1>2, <1>4, <1>5, <3>1
  <2> HIDE DEF a, b, z, left
  <2> QED BY <2>1, <2>2
<1>7. /\ s.tx_idx < s.tx_size => s.tx_idx + a <= s.tx_size
      /\ s.tx_idx >= s.tx_size => a = 0
      /\ s.tx_idx + a < s.tx_size => a # left
  BY <1>1, <1>2, <1>4
<1> HIDE DEF a, b, z, left
<1>8. /\ p \in Seq(SpiWords) /\ q \in Seq(SpiWords) /\ r \in Seq(SpiWords)
      /\ Len(p) = a /\ Len(q) = b /\ Len(r) = z
  <2>1. \A k \in 1..a : <<"tx", s.tx_idx + k>> \in SpiWords
    BY <1>1 DEF SpiWords, SpiTags
  <2>2. \A k \in 1..b : <<"resp", s.resp_idx + k>> \in SpiWords
    BY <1>1 DEF SpiWords, SpiTags
  <2>3. Zero \in SpiWords
    BY DEF SpiWords, SpiTags, Zero
  <2> QED BY <1>4, <1>5, <1>6, <2>1, <2>2, <2>3
<1>9. /\ \A k \in 1..a : p[k] = <<"tx", s.tx_idx + k>>
      /\ \A k \in 1..b : q[k] = <<"resp", s.resp_idx + k>>
      /\ \A k \in 1..z : r[k] = Zero
  OBVIOUS
<1> HIDE DEF p, q, r
<1>10. /\ f.fifo \in Seq(SpiWords) /\ Len(f.fifo) = Len(fifo) + a + b + z
       /\ \A k \in 1..Len(fifo) : f.fifo[k] = fifo[k]
       /\ \A k \in 1..a : f.fifo[Len(fifo) + k] = p[k]
       /\ \A k \in 1..b : f.fifo[Len(fifo) + a + k] = q[k]
       /\ \A k \in 1..z : f.fifo[Len(fifo) + a + b + k] = r[k]
  <2> DEFINE j == f.fifo
  <2>1. j = fifo \o p \o q \o r
    BY <1>3
  <2> HIDE DEF j
  <2>2. /\ j \in Seq(SpiWords) /\ Len(j) = Len(fifo) + Len(p) + Len(q) + Len(r)
        /\ \A k \in 1..Len(fifo) : j[k] = fifo[k]
        /\ \A k \in 1..Len(p) : j[Len(fifo) + k] = p[k]
        /\ \A k \in 1..Len(q) : j[Len(fifo) + Len(p) + k] = q[k]
        /\ \A k \in 1..Len(r) : j[Len(fifo) + Len(p) + Len(q) + k] = r[k]
    <3>1. /\ fifo \in Seq(SpiWords) /\ p \in Seq(SpiWords) /\ q \in Seq(SpiWords)
          /\ r \in Seq(SpiWords)
      BY <1>1, <1>8
    <3> QED BY ONLY <2>1, <3>1, ThreeJoined
  <2> QED BY <1>8, <2>2 DEF j
<1>11. Len(f.fifo) <= FifoFrames
  BY <1>1, <1>2, <1>4, <1>5, <1>6, <1>10
<1>12. s.tx_idx + a < s.tx_size => b = 0 /\ z = 0
  BY <1>5, <1>6, <1>7
<1>13. Refill(s, fifo, f, a, b, z)
  BY <1>3, <1>5, <1>6, <1>7, <1>9, <1>10, <1>11, <1>12 DEF Refill
<1> QED BY <1>4, <1>5, <1>6, <1>13 DEF f

LEMMA FillTypes ==
  ASSUME NEW s, SpiTyped(s), NEW fifo, AFifo(fifo)
  PROVE  LET f == fill_slave_tx_fifo(s, fifo)
         IN  /\ SpiTyped(f.spi) /\ AFifo(f.fifo)
             /\ \A g \in SpiFields \ {"tx_idx", "resp_idx"} : f.spi[g] = s[g]
<1> DEFINE f == fill_slave_tx_fifo(s, fifo)
<1>1. PICK a \in Nat, b \in Nat, z \in Nat : Refill(s, fifo, f, a, b, z)
  BY Refills
<1>2. /\ f.spi = [s EXCEPT !.tx_idx = s.tx_idx + a, !.resp_idx = s.resp_idx + b]
      /\ AFifo(f.fifo) /\ s.resp_idx + b <= s.resp_size
  BY <1>1 DEF Refill, AFifo
<1> HIDE DEF f
<1>3. \A g \in SpiFields \ {"tx_idx", "resp_idx"} : f.spi[g] = s[g]
  BY <1>2 DEF SpiTyped, IsSpi, SpiFields
<1>4. SpiTyped(f.spi)
  <2>1. IsSpi(f.spi) /\ f.spi.tx_idx = s.tx_idx + a /\ f.spi.resp_idx = s.resp_idx + b
    BY <1>2 DEF SpiTyped, IsSpi, SpiFields
  <2>2. /\ f.spi.role = s.role /\ f.spi.mode = s.mode /\ f.spi.ie = s.ie
        /\ f.spi.selected = s.selected /\ f.spi.slaves = s.slaves
        /\ f.spi.tx_size = s.tx_size /\ f.spi.rx_size = s.rx_size /\ f.spi.rx_idx = s.rx_idx
        /\ f.spi.rx_buffer = s.rx_buffer /\ f.spi.resp_size = s.resp_size
        /\ f.spi.cmd_handler = s.cmd_handler /\ f.spi.cmd_done = s.cmd_done
        /\ f.spi.autofill = s.autofill
    BY <1>3 DEF SpiFields
  <2> QED BY <1>2, <2>1, <2>2, SMTT(20) DEF SpiTyped
<1> QED BY <1>2, <1>3, <1>4 DEF f

(* The k-th frame owed to the master, whatever state the driver is in.     *)
AnswerOf(s, k) ==
  IF k <= s.tx_size THEN <<"tx", k>>
  ELSE IF k <= s.tx_size + s.resp_size THEN <<"resp", k - s.tx_size>> ELSE Zero

(* The indices of the driver stand after n frames of what it owes.         *)
Standing(s, n) ==
  IF s.tx_idx < s.tx_size THEN n = s.tx_idx /\ s.resp_idx = 0
  ELSE /\ n >= s.tx_size
       /\ \/ n = s.tx_size + s.resp_idx
          \/ s.cmd_done /\ s.resp_idx = s.resp_size /\ n >= s.tx_size + s.resp_size

(* After base frames that are sent, the FIFO holds those that follow.      *)
Primed(s, fifo, base) ==
  /\ Standing(s, base + Len(fifo))
  /\ \A k \in 1..Len(fifo) : fifo[k] = AnswerOf(s, base + k)

LEMMA FillPrimes ==
  ASSUME NEW s, SpiTyped(s), NEW fifo, AFifo(fifo), NEW base \in Nat, Primed(s, fifo, base)
  PROVE  LET f == fill_slave_tx_fifo(s, fifo) IN Primed(f.spi, f.fifo, base)
<1> DEFINE f == fill_slave_tx_fifo(s, fifo)
           n == base + Len(fifo)
<1>1. PICK a \in Nat, b \in Nat, z \in Nat : Refill(s, fifo, f, a, b, z)
  BY Refills
<1>2. f.spi = [s EXCEPT !.tx_idx = s.tx_idx + a, !.resp_idx = s.resp_idx + b] /\ IsSpi(s)
  BY <1>1 DEF Refill, SpiTyped
<1>3. /\ s.tx_size \in Nat /\ s.tx_idx \in Nat /\ s.resp_size \in Nat /\ s.resp_idx \in Nat
      /\ Len(fifo) \in Nat /\ n \in Nat
  BY LenProperties DEF SpiTyped, AFifo
<1>4. IF s.tx_idx < s.tx_size THEN n = s.tx_idx /\ s.resp_idx = 0
      ELSE n >= s.tx_size /\ (n = s.tx_size + s.resp_idx
                               \/ (s.cmd_done /\ s.resp_idx = s.resp_size /\ n >= s.tx_size + s.resp_size))
  BY DEF Primed, Standing
<1>5. /\ s.tx_idx < s.tx_size => s.tx_idx + a <= s.tx_size
      /\ s.tx_idx >= s.tx_size => a = 0
      /\ s.resp_idx + b <= s.resp_size
      /\ s.tx_idx + a < s.tx_size => b = 0 /\ z = 0
      /\ z > 0 => s.cmd_done /\ s.resp_idx + b = s.resp_size
  BY <1>1 DEF Refill
<1>6. Len(f.fifo) = Len(fifo) + a + b + z
  BY <1>1 DEF Refill
<1>7. /\ \A k \in 1..Len(fifo) : f.fifo[k] = fifo[k]
      /\ \A k \in 1..a : f.fifo[Len(fifo) + k] = <<"tx", s.tx_idx + k>>
      /\ \A k \in 1..b : f.fifo[Len(fifo) + a + k] = <<"resp", s.resp_idx + k>>
      /\ \A k \in 1..z : f.fifo[Len(fifo) + a + b + k] = Zero
  BY <1>1 DEF Refill
<1> HIDE DEF f
<1>8. /\ f.spi.tx_idx = s.tx_idx + a /\ f.spi.resp_idx = s.resp_idx + b
      /\ f.spi.tx_size = s.tx_size /\ f.spi.resp_size = s.resp_size /\ f.spi.cmd_done = s.cmd_done
  BY ONLY <1>2 DEF IsSpi, SpiFields
<1>9. base + Len(f.fifo) = n + a + b + z
  BY <1>3, <1>6
<1>10. \A k \in 1..Len(fifo) : fifo[k] = AnswerOf(s, base + k)
  BY DEF Primed
<1>11. base \in Nat /\ n = base + Len(fifo)
  OBVIOUS
<1> HIDE DEF n
<1>12. /\ a > 0 => n = s.tx_idx /\ s.tx_idx + a <= s.tx_size
       /\ b > 0 => n + a = s.tx_size + s.resp_idx
       /\ z > 0 => n + a + b >= s.tx_size + s.resp_size
       /\ IF s.tx_idx + a < s.tx_size THEN n + a + b + z = s.tx_idx + a /\ s.resp_idx + b = 0
          ELSE /\ n + a + b + z >= s.tx_size
               /\ \/ n + a + b + z = s.tx_size + (s.resp_idx + b)
                  \/ s.cmd_done /\ s.resp_idx + b = s.resp_size /\ n + a + b + z >= s.tx_size + s.resp_size
  <2>1. CASE s.tx_idx < s.tx_size
    <3>1. n = s.tx_idx /\ s.resp_idx = 0 /\ s.tx_idx + a <= s.tx_size
      BY ONLY <1>4, <1>5, <2>1
    <3>2. CASE s.tx_idx + a < s.tx_size
      <4>1. b = 0 /\ z = 0
        BY ONLY <1>5, <3>2
      <4> QED BY ONLY <1>3, <3>1, <3>2, <4>1, a \in Nat
    <3>3. CASE s.tx_idx + a = s.tx_size
      <4>1. n + a = s.tx_size + s.resp_idx
        BY ONLY <1>3, <3>1, <3>3, a \in Nat
      <4>2. CASE z = 0
        BY ONLY <1>3, <3>1, <3>3, <4>1, <4>2, a \in Nat, b \in Nat
      <4>3. CASE z # 0
        <5>1. s.cmd_done /\ s.resp_idx + b = s.resp_size
          BY ONLY <1>5, <4>3, z \in Nat
        <5>2. /\ n + a + b >= s.tx_size + s.resp_size /\ n + a + b + z >= s.tx_size
              /\ n + a + b + z >= s.tx_size + s.resp_size
          BY ONLY <1>3, <4>1, <5>1, a \in Nat, b \in Nat, z \in Nat
        <5>3. ~(s.tx_idx + a < s.tx_size)
          BY ONLY <1>3, <3>3
        <5> QED BY ONLY <3>1, <4>1, <5>1, <5>2, <5>3
      <4> QED BY <4>2, <4>3
    <3> QED BY ONLY <1>3, <3>1, <3>2, <3>3, a \in Nat, SMTT(20)
  <2>2. CASE ~(s.tx_idx < s.tx_size)
    <3>1. a = 0 /\ n >= s.tx_size /\ ~(s.tx_idx + a < s.tx_size)
      BY ONLY <1>3, <1>4, <1>5, <2>2
    <3>2. CASE n = s.tx_size + s.resp_idx
      <4>1. CASE z = 0
        BY ONLY <1>3, <3>1, <3>2, <4>1, b \in Nat, SMTT(20)
      <4>2. CASE z # 0
        <5>1. s.cmd_done /\ s.resp_idx + b = s.resp_size
          BY ONLY <1>5, <4>2, z \in Nat
        <5> QED BY ONLY <1>3, <3>1, <3>2, <5>1, b \in Nat, z \in Nat, SMTT(20)
      <4> QED BY <4>1, <4>2
    <3>3. CASE s.cmd_done /\ s.resp_idx = s.resp_size /\ n >= s.tx_size + s.resp_size
      <4>1. b = 0
        BY ONLY <1>3, <1>5, <3>3, b \in Nat
      <4> QED BY ONLY <1>3, <3>1, <3>3, <4>1, z \in Nat
    <3> QED BY ONLY <1>4, <2>2, <3>2, <3>3
  <2> QED BY <2>1, <2>2
<1>13. Standing(f.spi, n + a + b + z)
  BY <1>8, <1>12 DEF Standing
<1>14. \A k : AnswerOf(f.spi, k) = AnswerOf(s, k)
  BY <1>8 DEF AnswerOf
<1>15. ASSUME NEW k \in 1..Len(f.fifo) PROVE f.fifo[k] = AnswerOf(s, base + k)
  <2>0. k \in Nat /\ 1 <= k /\ k <= Len(fifo) + a + b + z
    BY <1>3, <1>6
  <2>1. CASE k <= Len(fifo)
    <3>1. k \in 1..Len(fifo)
      BY ONLY <1>3, <2>0, <2>1
    <3> QED BY <1>7, <1>10, <3>1
  <2>2. ASSUME NEW j \in 1..a, k = Len(fifo) + j PROVE f.fifo[k] = AnswerOf(s, base + k)
    <3>1. base + k = s.tx_idx + j /\ base + k <= s.tx_size
      BY ONLY <1>3, <1>11, <1>12, <2>2, a \in Nat, SMTT(20)
    <3>2. f.fifo[k] = <<"tx", base + k>>
      BY <1>7, <2>2, <3>1
    <3> QED BY <3>1, <3>2 DEF AnswerOf
  <2>3. ASSUME NEW j \in 1..b, k = Len(fifo) + a + j PROVE f.fifo[k] = AnswerOf(s, base + k)
    <3>1. /\ s.resp_idx + j = (base + k) - s.tx_size /\ ~(base + k <= s.tx_size)
          /\ base + k <= s.tx_size + s.resp_size
      <4>1. b > 0 => n + a = s.tx_size + s.resp_idx
        BY ONLY <1>12
      <4>2. s.resp_idx + b <= s.resp_size
        BY ONLY <1>5
      <4>3. n + a = s.tx_size + s.resp_idx /\ j >= 1 /\ s.resp_idx + j <= s.resp_size /\ j \in Nat
        BY ONLY <1>3, <4>1, <4>2, b \in Nat, j \in 1..b
      <4>4. base + k = n + a + j
        BY ONLY <1>3, <1>11, <2>3, a \in Nat, j \in 1..b
      <4>5. s.resp_idx + j = (n + a + j) - s.tx_size /\ ~(n + a + j <= s.tx_size)
            /\ n + a + j <= s.tx_size + s.resp_size
        BY ONLY <1>3, <4>3, a \in Nat, SMTT(20)
      <4> QED BY ONLY <4>4, <4>5
    <3>2. f.fifo[k] = <<"resp", s.resp_idx + j>>
      BY <1>7, <2>3
    <3> QED BY <3>1, <3>2 DEF AnswerOf
  <2>4. ASSUME NEW j \in 1..z, k = Len(fifo) + a + b + j PROVE f.fifo[k] = AnswerOf(s, base + k)
    <3>1. ~(base + k <= s.tx_size) /\ ~(base + k <= s.tx_size + s.resp_size)
      BY ONLY <1>3, <1>11, <1>12, <2>4, a \in Nat, b \in Nat, z \in Nat, SMTT(20)
    <3>2. f.fifo[k] = Zero
      BY <1>7, <2>4
    <3> QED BY <3>1, <3>2 DEF AnswerOf
  <2>5. \/ k <= Len(fifo)
        \/ \E j \in 1..a : k = Len(fifo) + j
        \/ \E j \in 1..b : k = Len(fifo) + a + j
        \/ \E j \in 1..z : k = Len(fifo) + a + b + j
    <3>1. CASE Len(fifo) < k /\ k <= Len(fifo) + a
      <4>1. k - Len(fifo) \in 1..a /\ k = Len(fifo) + (k - Len(fifo))
        BY ONLY <1>3, <2>0, <3>1, a \in Nat
      <4> QED BY <4>1
    <3>2. CASE Len(fifo) + a < k /\ k <= Len(fifo) + a + b
      <4>1. k - Len(fifo) - a \in 1..b /\ k = Len(fifo) + a + (k - Len(fifo) - a)
        BY ONLY <1>3, <2>0, <3>2, a \in Nat, b \in Nat
      <4> QED BY <4>1
    <3>3. CASE Len(fifo) + a + b < k
      <4>1. k - Len(fifo) - a - b \in 1..z /\ k = Len(fifo) + a + b + (k - Len(fifo) - a - b)
        BY ONLY <1>3, <2>0, <3>3, a \in Nat, b \in Nat, z \in Nat
      <4> QED BY <4>1
    <3> QED BY ONLY <1>3, <2>0, <3>1, <3>2, <3>3, a \in Nat, b \in Nat, z \in Nat
  <2> QED BY <2>1, <2>2, <2>3, <2>4, <2>5
<1>16. Primed(f.spi, f.fifo, base)
  BY <1>9, <1>13, <1>14, <1>15 DEF Primed
<1> QED BY <1>16 DEF f

(* An empty FIFO is primed when the indices are at the start.              *)
LEMMA EmptyIsPrimed ==
  ASSUME NEW s, SpiTyped(s), s.tx_idx = 0, s.resp_idx = 0
  PROVE  Primed(s, <<>>, 0)
<1>1. Len(<<>>) = 0 /\ 0 + 0 = 0 /\ s.tx_size \in Nat
  BY EmptySeq DEF SpiTyped
<1>2. Standing(s, 0)
  BY <1>1 DEF Standing
<1> QED BY <1>1, <1>2 DEF Primed

(* Reading the RX FIFO fills what the buffer has room for.                 *)
LEMMA ReadTypes ==
  ASSUME NEW s, SpiTyped(s), NEW fifo, AFifo(fifo)
  PROVE  LET r == read_slave_rx_fifo(s, fifo)
             m == FewerOf(s.rx_idx, s.rx_size)
         IN  /\ SpiTyped(r) /\ \A g \in SpiFields \ {"rx_idx", "rx_buffer"} : r[g] = s[g]
             /\ s.mode = "block" =>
                  /\ r.rx_idx = s.rx_idx + Len(fifo)
                  /\ Len(r.rx_buffer) = FewerOf(r.rx_idx, s.rx_size)
                  /\ \A k \in 1..Len(r.rx_buffer) :
                       r.rx_buffer[k] = IF k <= m THEN s.rx_buffer[k] ELSE fifo[k - m]
<1> DEFINE r == read_slave_rx_fifo(s, fifo)
           m == FewerOf(s.rx_idx, s.rx_size)
           n == FewerOf(s.rx_idx + Len(fifo), s.rx_size)
           p == SubSeq(s.rx_buffer, 1, m)
           q == p \o fifo
           u == SubSeq(q, 1, n)
<1>1. CASE s.mode # "block"
  <2>1. r = s
    BY <1>1 DEF read_slave_rx_fifo
  <2> QED BY <1>1, <2>1
<1>2. CASE s.mode = "block"
  <2>1. /\ s.rx_idx \in Nat /\ s.rx_size \in Nat /\ s.rx_buffer \in Seq(SpiWords)
        /\ fifo \in Seq(SpiWords) /\ m <= Len(s.rx_buffer) /\ IsSpi(s)
    BY DEF SpiTyped, AFifo
  <2>2. r = [s EXCEPT !.rx_idx = s.rx_idx + Len(fifo), !.rx_buffer = u]
    BY <1>2 DEF read_slave_rx_fifo
  <2>3. Len(fifo) \in Nat /\ Len(s.rx_buffer) \in Nat
    BY <2>1, LenProperties
  <2>4. /\ m \in Nat /\ n \in Nat /\ n <= m + Len(fifo) /\ n <= s.rx_size
        /\ FewerOf(s.rx_idx + Len(fifo), s.rx_size) = n
    BY <2>1, <2>3 DEF FewerOf
  <2> HIDE DEF m, n, r
  <2>5. p \in Seq(SpiWords) /\ Len(p) = m /\ \A k \in 1..m : p[k] = s.rx_buffer[k]
    <3>1. \A k \in 1..m : s.rx_buffer[k] \in SpiWords
      BY <2>1, <2>3, <2>4, ElementOfSeq
    <3>2. /\ p \in Seq(SpiWords) /\ Len(p) = (IF 1 <= m THEN m - 1 + 1 ELSE 0)
          /\ \A k \in 1..m - 1 + 1 : p[k] = s.rx_buffer[1 + k - 1]
      BY <2>4, <3>1, SubSeqProperties, m \in Int, 1 \in Int
    <3>3. m - 1 + 1 = m /\ \A k \in 1..m : 1 + k - 1 = k
      BY <2>4
    <3> HIDE DEF p
    <3> QED BY <2>4, <3>2, <3>3
  <2> HIDE DEF p
  <2>6. /\ q \in Seq(SpiWords) /\ Len(q) = m + Len(fifo)
        /\ \A k \in 1..m + Len(fifo) : q[k] = IF k <= m THEN p[k] ELSE fifo[k - m]
    BY <2>1, <2>5, ConcatProperties, ZenonT(30)
  <2> HIDE DEF q
  <2>7. u \in Seq(SpiWords) /\ Len(u) = n /\ \A k \in 1..n : u[k] = q[k]
    <3>1. \A k \in 1..n : q[k] \in SpiWords
      BY <2>3, <2>4, <2>6, ElementOfSeq
    <3>2. /\ u \in Seq(SpiWords) /\ Len(u) = (IF 1 <= n THEN n - 1 + 1 ELSE 0)
          /\ \A k \in 1..n - 1 + 1 : u[k] = q[1 + k - 1]
      BY <2>4, <3>1, SubSeqProperties, n \in Int, 1 \in Int
    <3>3. n - 1 + 1 = n /\ \A k \in 1..n : 1 + k - 1 = k
      BY <2>4
    <3> HIDE DEF u
    <3> QED BY <2>4, <3>2, <3>3
  <2> HIDE DEF u
  <2>8. \A k \in 1..n : u[k] = IF k <= m THEN s.rx_buffer[k] ELSE fifo[k - m]
    BY <2>3, <2>4, <2>5, <2>6, <2>7
  <2>9. /\ IsSpi(r) /\ r.rx_idx = s.rx_idx + Len(fifo) /\ r.rx_buffer = u
        /\ \A g \in SpiFields \ {"rx_idx", "rx_buffer"} : r[g] = s[g]
    BY ONLY <2>1, <2>2 DEF IsSpi, SpiFields
  <2>10. r.rx_size = s.rx_size /\ Len(r.rx_buffer) = FewerOf(r.rx_idx, r.rx_size)
    BY <2>4, <2>7, <2>9 DEF SpiFields
  <2>11. SpiTyped(r)
    <3>1. /\ r.role = s.role /\ r.mode = s.mode /\ r.ie = s.ie
          /\ r.selected = s.selected /\ r.slaves = s.slaves /\ r.tx_size = s.tx_size
          /\ r.tx_idx = s.tx_idx /\ r.rx_size = s.rx_size /\ r.resp_size = s.resp_size
          /\ r.resp_idx = s.resp_idx /\ r.cmd_handler = s.cmd_handler
          /\ r.cmd_done = s.cmd_done /\ r.autofill = s.autofill
      BY <2>9 DEF SpiFields
    <3>2. r.rx_idx \in Nat /\ r.rx_buffer \in Seq(SpiWords) /\ Len(r.rx_buffer) <= r.rx_size
          /\ FewerOf(r.rx_idx, r.rx_size) <= Len(r.rx_buffer)
      BY <2>1, <2>3, <2>4, <2>7, <2>9, <2>10
    <3> QED BY <2>9, <3>1, <3>2 DEF SpiTyped
  <2>12. \A k \in 1..Len(r.rx_buffer) : r.rx_buffer[k] = IF k <= m THEN s.rx_buffer[k] ELSE fifo[k - m]
    BY <2>7, <2>8, <2>9
  <2> QED BY <2>9, <2>10, <2>11, <2>12 DEF r, m
<1> QED BY <1>1, <1>2

(* The frames a transaction sent so far are in the buffer and in the FIFO. *)
HeardAs(s, rx, no, sent) ==
  /\ s.rx_idx + Len(rx) = sent
  /\ \A k \in 1..Len(rx) : rx[k] = <<no, s.rx_idx + k>>
  /\ \A k \in 1..FewerOf(s.rx_idx, s.rx_size) : s.rx_buffer[k] = <<no, k>>

LEMMA ReadHeard ==
  ASSUME NEW s, SpiTyped(s), NEW rx, AFifo(rx), NEW no \in Nat, NEW sent \in Nat,
         s.mode = "block", HeardAs(s, rx, no, sent)
  PROVE  LET r == read_slave_rx_fifo(s, rx)
         IN  /\ HeardAs(r, <<>>, no, sent) /\ r.rx_idx = sent /\ r.rx_size = s.rx_size
             /\ r.rx_buffer = [k \in 1..FewerOf(sent, s.rx_size) |-> <<no, k>>]
<1> DEFINE r == read_slave_rx_fifo(s, rx)
           m == FewerOf(s.rx_idx, s.rx_size)
           w == [k \in 1..FewerOf(sent, s.rx_size) |-> <<no, k>>]
<1>1. /\ SpiTyped(r) /\ r.rx_size = s.rx_size
      /\ r.rx_idx = s.rx_idx + Len(rx)
      /\ Len(r.rx_buffer) = FewerOf(r.rx_idx, s.rx_size)
      /\ \A k \in 1..Len(r.rx_buffer) : r.rx_buffer[k] = IF k <= m THEN s.rx_buffer[k] ELSE rx[k - m]
  BY ReadTypes DEF SpiFields
<1>2. s.rx_idx \in Nat /\ s.rx_size \in Nat /\ Len(rx) \in Nat
  BY LenProperties DEF SpiTyped, AFifo
<1>3. /\ s.rx_idx + Len(rx) = sent
      /\ \A k \in 1..Len(rx) : rx[k] = <<no, s.rx_idx + k>>
      /\ \A k \in 1..m : s.rx_buffer[k] = <<no, k>>
  BY DEF HeardAs
<1>4. r.rx_buffer \in Seq(SpiWords)
  BY <1>1 DEF SpiTyped
<1> HIDE DEF r
<1>5. FewerOf(sent, s.rx_size) \in Nat /\ m \in Nat
  BY <1>2 DEF FewerOf
<1>6. r.rx_idx = sent /\ Len(r.rx_buffer) = FewerOf(sent, s.rx_size)
  BY <1>1, <1>3
<1>7. ASSUME NEW k \in 1..FewerOf(sent, s.rx_size) PROVE r.rx_buffer[k] = <<no, k>>
  <2>1. CASE k <= m
    <3>1. k \in 1..m
      BY <1>5, <2>1
    <3> HIDE DEF m
    <3> QED BY <1>1, <1>3, <1>6, <2>1, <3>1
  <2>2. CASE ~(k <= m)
    <3>1. m = s.rx_idx /\ k - m \in 1..Len(rx) /\ s.rx_idx + (k - m) = k
      BY <1>2, <1>3, <1>5, <2>2 DEF FewerOf
    <3>2. r.rx_buffer[k] = rx[k - m]
      BY <1>1, <1>6, <2>2
    <3> HIDE DEF m
    <3> QED BY <1>3, <3>1, <3>2
  <2> QED BY <2>1, <2>2
<1>8. w \in Seq(SpiWords) /\ Len(w) = FewerOf(sent, s.rx_size)
  <2>1. \A k \in 1..FewerOf(sent, s.rx_size) : <<no, k>> \in SpiWords
    BY <1>5 DEF SpiWords
  <2> QED BY <1>5, <2>1
<1>9. \A k \in 1..Len(w) : w[k] = <<no, k>>
  BY <1>8
<1> HIDE DEF w
<1>10. r.rx_buffer = w
  BY <1>4, <1>6, <1>7, <1>8, <1>9, SeqEqual
<1>11. HeardAs(r, <<>>, no, sent)
  <2>1. Len(<<>>) = 0
    BY EmptySeq
  <2>2. sent + 0 = sent
    OBVIOUS
  <2> QED BY <1>1, <1>6, <1>7, <2>1, <2>2 DEF HeardAs
<1> QED BY <1>1, <1>6, <1>10, <1>11 DEF r, w

----------------------------------------------------------------------------
(* Types.                                                                  *)

WireRecord == [open : BOOLEAN, no : Nat, sent : Nat, heard : Seq(SpiWords)]
BlockRecord == [last : Int, size : Nat, data : Seq(SpiWords)]

SpiTypes ==
  /\ SpiTyped(spi) /\ AFifo(spiTx) /\ AFifo(spiRx)
  /\ spiWire \in WireRecord /\ spiBlock \in BlockRecord

LEMMA EmptyFifo == AFifo(<<>>) /\ <<>> \in Seq(SpiWords) /\ Len(<<>>) = 0
BY EmptySeq, SpiNumbers DEF AFifo

LEMMA OneWord == ASSUME NEW w \in SpiWords PROVE AFifo(<<w>>) /\ Len(<<w>>) = 1
<1>1. <<w>> \in Seq(SpiWords) /\ Len(<<w>>) = 1
  OBVIOUS
<1> QED BY <1>1, SpiNumbers DEF AFifo

LEMMA SpiWordsAre ==
  /\ Zero \in SpiWords /\ Frame \in SpiWords /\ <<"nothing", 0>> \in SpiWords
  /\ \A k \in Nat : k \in SpiWords
  /\ \A k \in Nat : <<"tx", k>> \in SpiWords
  /\ \A n, k \in Nat : <<n, k>> \in SpiWords
BY DEF SpiWords, SpiTags, Zero, Frame

LEMMA FifoAppends ==
  ASSUME NEW fifo, AFifo(fifo), Len(fifo) < FifoFrames, NEW w \in SpiWords
  PROVE  AFifo(Append(fifo, w))
<1>1. Append(fifo, w) \in Seq(SpiWords) /\ Len(Append(fifo, w)) = Len(fifo) + 1 /\ Len(fifo) \in Nat
  BY AppendProperties, LenProperties DEF AFifo
<1> QED BY <1>1, SpiNumbers DEF AFifo

LEMMA FifoTails ==
  ASSUME NEW fifo, AFifo(fifo), fifo # <<>>
  PROVE  AFifo(Tail(fifo)) /\ Head(fifo) \in SpiWords
<1>1. /\ Tail(fifo) \in Seq(SpiWords) /\ Len(Tail(fifo)) = Len(fifo) - 1 /\ Head(fifo) \in SpiWords
      /\ Len(fifo) \in Nat
  BY HeadTailProperties, LenProperties DEF AFifo
<1> QED BY <1>1, SpiNumbers DEF AFifo

LEMMA UnsetTyped == SpiTyped(Unset)
<1>1. IsSpi(Unset)
  BY DEF IsSpi, SpiFields, Unset
<1> QED BY <1>1, EmptyFifo DEF SpiTyped, Unset, CONTROL_irqs, FewerOf

LEMMA SetupTypes ==
  ASSUME SpiTypes, NEW s, SpiTyped(s), Setup(s), AFifo(spiTx'), AFifo(spiRx')
  PROVE  SpiTypes'
<1>1. spi' = [s EXCEPT !.setups = spi.setups + 1]
  BY DEF Setup
<1>2. SpiTyped(spi')
  BY <1>1 DEF SpiTyped, IsSpi, SpiFields
<1> QED BY <1>2 DEF Setup, SpiTypes

(* The first fill of set_slave_block_buffers.                              *)
FirstFill(tx, n) == [k \in 1..n |-> IF k <= tx THEN <<"tx", k>> ELSE Zero]

LEMMA FirstFillIs ==
  ASSUME NEW tx \in Nat, NEW n \in 0..FifoFrames
  PROVE  /\ AFifo(FirstFill(tx, n)) /\ Len(FirstFill(tx, n)) = n
         /\ \A k \in 1..n : FirstFill(tx, n)[k] = IF k <= tx THEN <<"tx", k>> ELSE Zero
<1>1. n \in Nat /\ n <= FifoFrames
  BY SpiNumbers
<1>2. \A k \in 1..n : (IF k <= tx THEN <<"tx", k>> ELSE Zero) \in SpiWords
  <2>1. ASSUME NEW k \in 1..n PROVE <<"tx", k>> \in SpiWords /\ Zero \in SpiWords
    BY <1>1, SpiWordsAre
  <2> QED BY <2>1
<1> QED BY <1>1, <1>2 DEF FirstFill, AFifo

(* What the calls leave in the record of the driver.                       *)
LEMMA BlockBuffersSteps ==
  ASSUME SpiTypes, NEW tx \in Nat, NEW rx \in Nat, MSS_SPI_set_slave_block_buffers(tx, rx)
  PROVE  LET done == ~spi.cmd_handler
             most == IF tx >= FifoFrames \/ done THEN FifoFrames ELSE tx
         IN  /\ SpiTyped(spi') /\ spi.role = "slave" /\ spi'.role = "slave" /\ spi'.mode = "block"
             /\ spi'.cmd_handler = spi.cmd_handler /\ spi'.cmd_done = done
             /\ spi'.rx_size = rx /\ spi'.rx_idx = 0
             /\ spi'.tx_size = tx /\ spi'.tx_idx = (IF most = FifoFrames THEN most ELSE most + 1)
             /\ spi'.resp_size = spi.resp_size /\ spi'.resp_idx = spi.resp_idx
             /\ spi'.autofill = (tx = 0)
             /\ {"ssend", "rx", "underrun", "overflow"} \subseteq spi'.ie
             /\ "cmd" \in spi'.ie => "cmd" \in spi.ie /\ ~done
             /\ spiTx' = FirstFill(tx, most) /\ spiRx' = <<>> /\ most \in 0..FifoFrames
             /\ spiIrq' \subseteq spiIrq \ {"ssend"}
<1> DEFINE done == ~spi.cmd_handler
           most == IF tx >= FifoFrames \/ done THEN FifoFrames ELSE tx
           idx  == IF most = FifoFrames THEN most ELSE most + 1
           ie   == (IF done THEN spi.ie \ {"cmd"} ELSE spi.ie)
                     \cup {"ssend", "rx", "underrun", "overflow"} \cup (IF tx > 0 THEN {"tx"} ELSE {})
<1>1. spi' = [spi EXCEPT
           !.mode = "block", !.cmd_done = done, !.overflow = FALSE, !.on = TRUE,
           !.rx_size = rx, !.rx_idx = 0, !.rx_buffer = <<>>,
           !.tx_size = tx, !.tx_idx = idx,
           !.count = FifoFrames \div 2, !.autofill = (tx = 0), !.ie = ie, !.setups = spi.setups + 1]
  BY DEF MSS_SPI_set_slave_block_buffers, Setup, SpiTypes, SpiTyped, IsSpi, SpiFields
<1>2. most \in 0..FifoFrames /\ idx \in Nat
  BY SpiNumbers
<1>3. /\ ie \subseteq CONTROL_irqs \cup {"cmd", "ssend"}
      /\ {"ssend", "rx", "underrun", "overflow"} \subseteq ie
      /\ "cmd" \in ie => "cmd" \in spi.ie /\ ~done
  BY DEF SpiTypes, SpiTyped, CONTROL_irqs
<1>4. spi.role = "slave" /\ spiTx' = FirstFill(tx, most) /\ spiRx' = <<>>
  BY DEF MSS_SPI_set_slave_block_buffers, FirstFill
<1>5. spiIrq' \subseteq spiIrq \ {"ssend"}
  BY DEF MSS_SPI_set_slave_block_buffers
<1>6. FewerOf(0, rx) = 0 /\ done \in BOOLEAN /\ (tx = 0) \in BOOLEAN
  BY DEF FewerOf
<1>7. IsSpi(spi) /\ SpiTyped(spi)
  BY DEF SpiTypes, SpiTyped
<1> HIDE DEF ie, idx, most
<1>8. /\ IsSpi(spi') /\ spi'.role = spi.role /\ spi'.mode = "block"
      /\ spi'.cmd_handler = spi.cmd_handler /\ spi'.cmd_done = done
      /\ spi'.rx_size = rx /\ spi'.rx_idx = 0 /\ spi'.tx_size = tx /\ spi'.tx_idx = idx
      /\ spi'.resp_size = spi.resp_size /\ spi'.resp_idx = spi.resp_idx
      /\ spi'.autofill = (tx = 0) /\ spi'.ie = ie /\ spi'.rx_buffer = <<>>
      /\ spi'.selected = spi.selected /\ spi'.slaves = spi.slaves
  BY ONLY <1>1, <1>7, ZenonT(30) DEF IsSpi, SpiFields
<1>9. SpiTyped(spi')
  BY <1>2, <1>3, <1>6, <1>7, <1>8, EmptyFifo DEF SpiTyped
<1> QED BY <1>2, <1>3, <1>4, <1>5, <1>8, <1>9 DEF idx, most

(* The record of the driver as set_cmd_handler gives it to the first fill. *)
Commanded(size) ==
  [spi EXCEPT !.resp_size = 0, !.resp_idx = 0, !.cmd_size = size,
              !.cmd_done = FALSE, !.cmd_handler = TRUE, !.tx_idx = 0]

LEMMA CommandedTyped ==
  ASSUME SpiTypes, NEW size
  PROVE  /\ SpiTyped(Commanded(size)) /\ Commanded(size).resp_size = 0
         /\ Commanded(size).resp_idx = 0 /\ Commanded(size).tx_idx = 0
         /\ Commanded(size).cmd_handler /\ ~Commanded(size).cmd_done
         /\ \A g \in SpiFields \ {"resp_size", "resp_idx", "cmd_size", "cmd_done", "cmd_handler", "tx_idx"} :
              Commanded(size)[g] = spi[g]
<1> DEFINE c == Commanded(size)
<1>1. SpiTyped(spi) /\ IsSpi(spi)
  BY DEF SpiTypes, SpiTyped
<1>2. /\ IsSpi(c) /\ c.resp_size = 0 /\ c.resp_idx = 0 /\ c.tx_idx = 0 /\ c.cmd_handler = TRUE
      /\ c.cmd_done = FALSE
      /\ \A g \in SpiFields \ {"resp_size", "resp_idx", "cmd_size", "cmd_done", "cmd_handler", "tx_idx"} :
           c[g] = spi[g]
  BY ONLY <1>1 DEF Commanded, IsSpi, SpiFields
<1> HIDE DEF c
<1>3. /\ c.role = spi.role /\ c.mode = spi.mode /\ c.ie = spi.ie
      /\ c.selected = spi.selected /\ c.slaves = spi.slaves
      /\ c.tx_size = spi.tx_size /\ c.rx_size = spi.rx_size /\ c.rx_idx = spi.rx_idx
      /\ c.rx_buffer = spi.rx_buffer /\ c.autofill = spi.autofill
  BY <1>2 DEF SpiFields
<1>4. SpiTyped(c)
  <2>1. c.resp_idx <= c.resp_size /\ c.resp_size \in Nat /\ c.resp_idx \in Nat /\ c.tx_idx \in Nat
    BY ONLY <1>2
  <2>2. c.cmd_handler \in BOOLEAN /\ c.cmd_done \in BOOLEAN /\ c.autofill \in BOOLEAN
    BY <1>1, <1>2, <1>3 DEF SpiTyped
  <2>3. /\ c.role \in {"reset", "slave", "master"} /\ c.mode \in {"none", "frame", "block"}
        /\ c.ie \subseteq CONTROL_irqs \cup {"cmd", "ssend"} /\ c.selected \subseteq c.slaves
        /\ c.tx_size \in Nat /\ c.rx_size \in Nat /\ c.rx_idx \in Nat
        /\ c.rx_buffer \in Seq(SpiWords) /\ Len(c.rx_buffer) <= c.rx_size
        /\ FewerOf(c.rx_idx, c.rx_size) <= Len(c.rx_buffer)
    BY <1>1, <1>3 DEF SpiTyped
  <2> QED BY <1>2, <2>1, <2>2, <2>3 DEF SpiTyped
<1> QED BY <1>2, <1>4 DEF c

LEMMA CmdHandlerSteps ==
  ASSUME SpiTypes, NEW size \in Nat, MSS_SPI_set_cmd_handler(size)
  PROVE  IF size = 0
         THEN /\ SpiTyped(spi') /\ spi'.cmd_done /\ ~spi'.cmd_handler /\ "cmd" \notin spi'.ie
              /\ spi'.ie = spi.ie \ {"cmd"} /\ spi'.resp_size = 0 /\ spi'.resp_idx = 0
              /\ \A g \in SpiFields \ {"resp_size", "resp_idx", "cmd_size", "cmd_done", "cmd_handler",
                                       "ie", "setups"} : spi'[g] = spi[g]
              /\ UNCHANGED <<spiTx, spiRx, spiIrq>>
         ELSE LET f == fill_slave_tx_fifo(Commanded(size), <<>>)
              IN  /\ SpiTyped(spi') /\ AFifo(spiTx') /\ spiTx' = f.fifo /\ spiRx' = <<>>
                  /\ spiIrq' = spiIrq \ {"cmd"} /\ spi'.ie = spi.ie \cup {"cmd"}
                  /\ \A g \in SpiFields \ {"ie", "setups"} : spi'[g] = f.spi[g]
                  /\ ~spi'.cmd_done /\ spi'.cmd_handler /\ spi'.resp_size = 0
                  /\ \A g \in {"mode", "role", "autofill", "tx_size", "rx_idx", "rx_size"} : spi'[g] = spi[g]
<1>0. SpiTyped(spi)
  BY DEF SpiTypes
<1>1. CASE size = 0
  <2>1. /\ spi' = [spi EXCEPT !.resp_size = 0, !.resp_idx = 0, !.cmd_size = 0, !.cmd_done = TRUE,
                              !.cmd_handler = FALSE, !.ie = spi.ie \ {"cmd"}, !.setups = spi.setups + 1]
        /\ UNCHANGED <<spiTx, spiRx, spiIrq>>
    BY <1>0, <1>1 DEF MSS_SPI_set_cmd_handler, Setup, SpiTyped, IsSpi, SpiFields
  <2>2. spi.ie \ {"cmd"} \subseteq CONTROL_irqs \cup {"cmd", "ssend"}
    BY <1>0 DEF SpiTyped
  <2>3. SpiTyped(spi')
    <3>1. /\ IsSpi(spi') /\ spi'.resp_size = 0 /\ spi'.resp_idx = 0 /\ spi'.cmd_done = TRUE
          /\ spi'.cmd_handler = FALSE /\ spi'.ie = spi.ie \ {"cmd"}
          /\ spi'.role = spi.role /\ spi'.mode = spi.mode
          /\ spi'.selected = spi.selected /\ spi'.slaves = spi.slaves
          /\ spi'.tx_size = spi.tx_size /\ spi'.tx_idx = spi.tx_idx
          /\ spi'.rx_size = spi.rx_size /\ spi'.rx_idx = spi.rx_idx
          /\ spi'.rx_buffer = spi.rx_buffer /\ spi'.autofill = spi.autofill
      BY <1>0, <2>1 DEF SpiTyped, IsSpi, SpiFields
    <3>2. /\ spi'.resp_idx <= spi'.resp_size /\ spi'.resp_size \in Nat /\ spi'.resp_idx \in Nat
      BY ONLY <3>1
    <3>4. spi'.cmd_handler \in BOOLEAN /\ spi'.cmd_done \in BOOLEAN
      BY ONLY <3>1
    <3>3. /\ spi'.role \in {"reset", "slave", "master"} /\ spi'.mode \in {"none", "frame", "block"}
          /\ spi'.ie \subseteq CONTROL_irqs \cup {"cmd", "ssend"} /\ spi'.selected \subseteq spi'.slaves
          /\ spi'.tx_size \in Nat /\ spi'.tx_idx \in Nat /\ spi'.rx_size \in Nat /\ spi'.rx_idx \in Nat
          /\ spi'.rx_buffer \in Seq(SpiWords) /\ Len(spi'.rx_buffer) <= spi'.rx_size
          /\ FewerOf(spi'.rx_idx, spi'.rx_size) <= Len(spi'.rx_buffer)
          /\ spi'.autofill \in BOOLEAN
      BY <1>0, <2>2, <3>1 DEF SpiTyped
    <3> QED BY <3>1, <3>2, <3>3, <3>4 DEF SpiTyped
  <2> QED BY <1>0, <1>1, <2>1, <2>3 DEF SpiTyped, IsSpi, SpiFields
<1>2. CASE size # 0
  <2> DEFINE c == Commanded(size)
             f == fill_slave_tx_fifo(c, <<>>)
             t == [[spi EXCEPT !.resp_size = 0, !.resp_idx = 0, !.cmd_size = size]
                     EXCEPT !.cmd_done = FALSE, !.cmd_handler = TRUE, !.tx_idx = 0]
  <2>1. t = c
    BY DEF Commanded
  <2>2. /\ Setup([f.spi EXCEPT !.ie = @ \cup {"cmd"}]) /\ spiTx' = f.fifo /\ spiRx' = <<>>
        /\ spiIrq' = spiIrq \ {"cmd"}
    BY <1>2, <2>1 DEF MSS_SPI_set_cmd_handler
  <2>3. /\ SpiTyped(c) /\ c.resp_size = 0 /\ c.cmd_handler /\ ~c.cmd_done
        /\ \A g \in SpiFields \ {"resp_size", "resp_idx", "cmd_size", "cmd_done", "cmd_handler", "tx_idx"} :
             c[g] = spi[g]
    BY CommandedTyped
  <2> HIDE DEF c
  <2>4. /\ SpiTyped(f.spi) /\ AFifo(f.fifo)
        /\ \A g \in SpiFields \ {"tx_idx", "resp_idx"} : f.spi[g] = c[g]
    BY <2>3, EmptyFifo, FillTypes
  <2> HIDE DEF f
  <2>5. spi' = [f.spi EXCEPT !.ie = f.spi.ie \cup {"cmd"}, !.setups = spi.setups + 1]
    BY <2>2, <2>4 DEF Setup, SpiTyped, IsSpi, SpiFields
  <2>6. f.spi.ie = spi.ie /\ f.spi.cmd_handler /\ ~f.spi.cmd_done /\ f.spi.resp_size = 0
    BY <2>3, <2>4 DEF SpiFields
  <2>7. f.spi.ie \cup {"cmd"} \subseteq CONTROL_irqs \cup {"cmd", "ssend"}
    BY <2>4 DEF SpiTyped
  <2>8. SpiTyped(spi')
    BY <2>4, <2>5, <2>7 DEF SpiTyped, IsSpi, SpiFields
  <2>9. spi'.ie = spi.ie \cup {"cmd"} /\ \A g \in SpiFields \ {"ie", "setups"} : spi'[g] = f.spi[g]
    BY <2>4, <2>5, <2>6 DEF SpiTyped, IsSpi, SpiFields
  <2>10. ~spi'.cmd_done /\ spi'.cmd_handler /\ spi'.resp_size = 0
    BY <2>6, <2>9 DEF SpiFields
  <2>11. \A g \in {"mode", "role", "autofill", "tx_size", "rx_idx", "rx_size"} : spi'[g] = spi[g]
    BY <2>3, <2>4, <2>9 DEF SpiFields
  <2> QED BY <1>2, <2>2, <2>4, <2>8, <2>9, <2>10, <2>11 DEF f, c
<1> QED BY <1>1, <1>2

(* What the interrupt handler leaves in the record of the driver.          *)
LEMMA Retyped ==
  ASSUME NEW s, SpiTyped(s), NEW t, IsSpi(t),
         \A g \in {"role", "mode", "selected", "slaves", "tx_size", "rx_size", "rx_buffer", "cmd_handler"} :
           t[g] = s[g],
         t.ie \subseteq CONTROL_irqs \cup {"cmd", "ssend"},
         t.tx_idx \in Nat, t.rx_idx \in {0, s.rx_idx},
         t.resp_size \in Nat, t.resp_idx \in Nat, t.resp_idx <= t.resp_size,
         t.cmd_done \in BOOLEAN, t.autofill \in BOOLEAN
  PROVE  SpiTyped(t)
<1>1. /\ t.role = s.role /\ t.mode = s.mode /\ t.selected = s.selected /\ t.slaves = s.slaves
      /\ t.tx_size = s.tx_size /\ t.rx_size = s.rx_size /\ t.rx_buffer = s.rx_buffer
      /\ t.cmd_handler = s.cmd_handler
  OBVIOUS
<1>2. t.rx_idx \in Nat /\ FewerOf(t.rx_idx, t.rx_size) <= Len(t.rx_buffer)
  <2>1. /\ s.rx_idx \in Nat /\ s.rx_size \in Nat /\ s.rx_buffer \in Seq(SpiWords)
        /\ FewerOf(s.rx_idx, s.rx_size) <= Len(s.rx_buffer)
    BY DEF SpiTyped
  <2>2. Len(s.rx_buffer) \in Nat
    BY <2>1, LenProperties
  <2> QED BY <1>1, <2>1, <2>2 DEF FewerOf
<1> QED BY <1>1, <1>2 DEF SpiTyped

LEMMA RecoveredTyped ==
  ASSUME NEW s, SpiTyped(s)
  PROVE  /\ SpiTyped(recover_from_rx_overflow(s)) /\ recover_from_rx_overflow(s).autofill = FALSE
         /\ \A g \in SpiFields \ {"overflow", "on", "autofill"} : recover_from_rx_overflow(s)[g] = s[g]
<1> DEFINE t == recover_from_rx_overflow(s)
<1>0. IsSpi(s)
  BY DEF SpiTyped
<1>1. /\ IsSpi(t) /\ t.autofill = FALSE
      /\ \A g \in SpiFields \ {"overflow", "on", "autofill"} : t[g] = s[g]
  BY ONLY <1>0 DEF recover_from_rx_overflow, IsSpi, SpiFields
<1> HIDE DEF t
<1>2. /\ \A g \in {"role", "mode", "selected", "slaves", "tx_size", "rx_size", "rx_buffer", "cmd_handler"} :
           t[g] = s[g]
      /\ t.ie = s.ie /\ t.tx_idx = s.tx_idx /\ t.rx_idx = s.rx_idx /\ t.resp_size = s.resp_size
      /\ t.resp_idx = s.resp_idx /\ t.cmd_done = s.cmd_done
  BY <1>1 DEF SpiFields
<1>3. SpiTyped(t)
  <2>1. /\ t.ie \subseteq CONTROL_irqs \cup {"cmd", "ssend"} /\ t.tx_idx \in Nat /\ t.resp_size \in Nat
        /\ t.resp_idx \in Nat /\ t.resp_idx <= t.resp_size /\ t.cmd_done \in BOOLEAN
    BY <1>2 DEF SpiTyped
  <2> QED BY <1>1, <1>2, <2>1, Retyped
<1> QED BY <1>1, <1>3 DEF t

Responding(s, size) == [s EXCEPT !.resp_size = size, !.resp_idx = 0, !.cmd_done = TRUE]

LEMMA RespondingTyped ==
  ASSUME NEW s, SpiTyped(s), NEW size \in Nat
  PROVE  /\ SpiTyped(Responding(s, size)) /\ Responding(s, size).resp_size = size
         /\ Responding(s, size).resp_idx = 0 /\ Responding(s, size).cmd_done = TRUE
         /\ \A g \in SpiFields \ {"resp_size", "resp_idx", "cmd_done"} : Responding(s, size)[g] = s[g]
<1> DEFINE t == Responding(s, size)
<1>0. IsSpi(s)
  BY DEF SpiTyped
<1>1. /\ IsSpi(t) /\ t.resp_size = size /\ t.resp_idx = 0 /\ t.cmd_done = TRUE
      /\ \A g \in SpiFields \ {"resp_size", "resp_idx", "cmd_done"} : t[g] = s[g]
  BY ONLY <1>0 DEF Responding, IsSpi, SpiFields
<1> HIDE DEF t
<1>2. /\ \A g \in {"role", "mode", "selected", "slaves", "tx_size", "rx_size", "rx_buffer", "cmd_handler"} :
           t[g] = s[g]
      /\ t.ie = s.ie /\ t.tx_idx = s.tx_idx /\ t.rx_idx = s.rx_idx /\ t.autofill = s.autofill
  BY <1>1 DEF SpiFields
<1>3. SpiTyped(t)
  <2>1. t.ie \subseteq CONTROL_irqs \cup {"cmd", "ssend"} /\ t.tx_idx \in Nat /\ t.autofill \in BOOLEAN
    BY <1>2 DEF SpiTyped
  <2>2. t.resp_size \in Nat /\ t.resp_idx \in Nat /\ t.resp_idx <= t.resp_size
    BY <1>1
  <2>3. t.cmd_done \in BOOLEAN
    BY <1>1
  <2> QED BY <1>1, <1>2, <2>1, <2>2, <2>3, Retyped
<1> QED BY <1>1, <1>3 DEF t

LEMMA RestartedTyped ==
  ASSUME NEW s, SpiTyped(s)
  PROVE  LET t == Restarted(s)
         IN  /\ SpiTyped(t) /\ t.tx_idx = 0 /\ t.rx_idx = 0
             /\ t.cmd_done = (IF s.cmd_handler THEN FALSE ELSE s.cmd_done)
             /\ t.resp_size = (IF s.cmd_handler THEN 0 ELSE s.resp_size)
             /\ t.resp_idx = (IF s.cmd_handler THEN 0 ELSE s.resp_idx)
             /\ t.ie = (IF s.cmd_handler THEN s.ie \cup {"cmd"} ELSE s.ie)
             /\ \A g \in SpiFields \ {"tx_idx", "rx_idx", "cmd_done", "resp_size", "resp_idx", "ie"} : t[g] = s[g]
<1> DEFINE t == Restarted(s)
<1>0. IsSpi(s)
  BY DEF SpiTyped
<1>1. /\ IsSpi(t) /\ t.tx_idx = 0 /\ t.rx_idx = 0
      /\ t.cmd_done = (IF s.cmd_handler THEN FALSE ELSE s.cmd_done)
      /\ t.resp_size = (IF s.cmd_handler THEN 0 ELSE s.resp_size)
      /\ t.resp_idx = (IF s.cmd_handler THEN 0 ELSE s.resp_idx)
      /\ t.ie = (IF s.cmd_handler THEN s.ie \cup {"cmd"} ELSE s.ie)
      /\ \A g \in SpiFields \ {"tx_idx", "rx_idx", "cmd_done", "resp_size", "resp_idx", "ie"} : t[g] = s[g]
  BY ONLY <1>0 DEF Restarted, IsSpi, SpiFields
<1> HIDE DEF t
<1>2. /\ \A g \in {"role", "mode", "selected", "slaves", "tx_size", "rx_size", "rx_buffer", "cmd_handler"} :
           t[g] = s[g]
      /\ t.autofill = s.autofill
  BY <1>1 DEF SpiFields
<1>3. SpiTyped(t)
  <2>1. /\ s.ie \subseteq CONTROL_irqs \cup {"cmd", "ssend"} /\ s.resp_size \in Nat
        /\ s.resp_idx \in Nat /\ s.resp_idx <= s.resp_size /\ s.cmd_done \in BOOLEAN
        /\ s.autofill \in BOOLEAN
    BY DEF SpiTyped
  <2>2. t.ie \subseteq CONTROL_irqs \cup {"cmd", "ssend"}
    BY <1>1, <2>1
  <2>3. t.resp_size \in Nat /\ t.resp_idx \in Nat /\ t.resp_idx <= t.resp_size
    BY <1>1, <2>1
  <2>4. t.cmd_done \in BOOLEAN /\ t.autofill \in BOOLEAN
    BY <1>1, <1>2, <2>1
  <2>5. t.tx_idx \in Nat /\ t.rx_idx \in {0, s.rx_idx}
    BY <1>1
  <2> QED BY <1>1, <1>2, <2>2, <2>3, <2>4, <2>5, Retyped
<1> QED BY <1>1, <1>3 DEF t

LEMMA CmdSteps ==
  ASSUME SpiTypes, NEW size \in Nat, isr_cmd(size), Raised("cmd")
  PROVE  LET r == read_slave_rx_fifo(spi, spiRx)
             c == Responding(r, size)
             f == fill_slave_tx_fifo(c, spiTx)
             g == fill_slave_tx_fifo(f.spi, f.fifo)
         IN  /\ SpiTyped(r) /\ SpiTyped(c)
             /\ SpiTyped(f.spi) /\ AFifo(f.fifo) /\ SpiTyped(g.spi) /\ AFifo(g.fifo)
             /\ SpiTyped(spi') /\ spiTx' = g.fifo /\ spiRx' = <<>> /\ spiIrq' = spiIrq \ {"cmd"}
             /\ spi'.ie = spi.ie \ {"cmd"} /\ spi'.cmd_done /\ spi'.resp_size = size
             /\ spi'.tx_idx = g.spi.tx_idx /\ spi'.resp_idx = g.spi.resp_idx
             /\ g.spi.cmd_done /\ g.spi.resp_size = size /\ g.spi.tx_size = spi'.tx_size
             /\ \A h \in SpiFields \ {"ie", "cmd_done", "tx_idx", "resp_idx", "resp_size"} : spi'[h] = r[h]
<1> DEFINE r == read_slave_rx_fifo(spi, spiRx)
           c == Responding(r, size)
           f == fill_slave_tx_fifo(c, spiTx)
           g == fill_slave_tx_fifo(f.spi, f.fifo)
<1>1. SpiTyped(spi) /\ AFifo(spiTx) /\ AFifo(spiRx)
  BY DEF SpiTypes
<1>2. SpiTyped(r) /\ \A h \in SpiFields \ {"rx_idx", "rx_buffer"} : r[h] = spi[h]
  BY <1>1, ReadTypes
<1>3. /\ spi' = [g.spi EXCEPT !.cmd_done = TRUE, !.ie = g.spi.ie \ {"cmd"}]
      /\ spiTx' = g.fifo /\ spiRx' = <<>> /\ spiIrq' = spiIrq \ {"cmd"}
  BY DEF isr_cmd, MSS_SPI_set_cmd_response, Responding
<1> HIDE DEF r
<1>4. /\ SpiTyped(c) /\ c.resp_size = size /\ c.resp_idx = 0 /\ c.cmd_done = TRUE
      /\ \A h \in SpiFields \ {"resp_size", "resp_idx", "cmd_done"} : c[h] = r[h]
  BY <1>2, RespondingTyped
<1> HIDE DEF c
<1>5. /\ SpiTyped(f.spi) /\ AFifo(f.fifo)
      /\ \A h \in SpiFields \ {"tx_idx", "resp_idx"} : f.spi[h] = c[h]
  BY <1>1, <1>4, FillTypes
<1> HIDE DEF f
<1>6. /\ SpiTyped(g.spi) /\ AFifo(g.fifo)
      /\ \A h \in SpiFields \ {"tx_idx", "resp_idx"} : g.spi[h] = f.spi[h]
  BY <1>5, FillTypes
<1> HIDE DEF g
<1>7. IsSpi(g.spi)
  BY <1>6 DEF SpiTyped
<1>8. /\ IsSpi(spi') /\ spi'.cmd_done = TRUE /\ spi'.ie = g.spi.ie \ {"cmd"}
      /\ \A h \in SpiFields \ {"ie", "cmd_done"} : spi'[h] = g.spi[h]
  BY ONLY <1>3, <1>7 DEF IsSpi, SpiFields
<1>9. /\ \A h \in SpiFields \ {"ie", "cmd_done", "tx_idx", "resp_idx", "resp_size"} : spi'[h] = r[h]
      /\ \A h \in SpiFields \ {"cmd_done", "tx_idx", "resp_idx", "resp_size"} : g.spi[h] = r[h]
  BY <1>4, <1>5, <1>6, <1>8
<1>10. /\ g.spi.ie = spi.ie /\ g.spi.cmd_done = TRUE /\ g.spi.resp_size = size
       /\ g.spi.tx_size = r.tx_size /\ spi'.tx_size = r.tx_size /\ spi'.resp_size = size
       /\ spi'.tx_idx = g.spi.tx_idx /\ spi'.resp_idx = g.spi.resp_idx
       /\ spi'.autofill = g.spi.autofill /\ spi'.rx_idx = g.spi.rx_idx
  BY <1>2, <1>4, <1>5, <1>6, <1>8, <1>9 DEF SpiFields
<1>11. SpiTyped(spi')
  <2>1. /\ g.spi.ie \subseteq CONTROL_irqs \cup {"cmd", "ssend"} /\ g.spi.tx_idx \in Nat
        /\ g.spi.resp_size \in Nat /\ g.spi.resp_idx \in Nat /\ g.spi.resp_idx <= g.spi.resp_size
        /\ g.spi.autofill \in BOOLEAN
    BY <1>6 DEF SpiTyped
  <2>2. \A h \in {"role", "mode", "selected", "slaves", "tx_size", "rx_size", "rx_buffer", "cmd_handler"} :
           spi'[h] = g.spi[h]
    BY <1>8 DEF SpiFields
  <2>3. spi'.cmd_done \in BOOLEAN
    BY <1>8
  <2> QED BY <1>6, <1>8, <1>10, <2>1, <2>2, <2>3, Retyped
<1> QED BY <1>2, <1>3, <1>4, <1>5, <1>6, <1>8, <1>9, <1>10, <1>11 DEF g, f, c, r

Rewound == [spi EXCEPT !.tx_idx = 0]

LEMMA RewoundTyped ==
  ASSUME SpiTyped(spi)
  PROVE  /\ SpiTyped(Rewound) /\ Rewound.tx_idx = 0
         /\ \A g \in SpiFields \ {"tx_idx"} : Rewound[g] = spi[g]
BY DEF Rewound, SpiTyped, IsSpi, SpiFields

LEMMA UnderrunSteps ==
  ASSUME SpiTypes, isr_underrun, Raised("underrun")
  PROVE  LET f == fill_slave_tx_fifo(Rewound, <<>>)
         IN  /\ SpiTyped(spi') /\ AFifo(spiTx') /\ spiRx' = spiRx /\ spiIrq' = spiIrq \ {"underrun"}
             /\ SpiTyped(f.spi) /\ AFifo(f.fifo)
             /\ \A g \in SpiFields \ {"tx_idx", "resp_idx", "count"} : spi'[g] = spi[g]
             /\ spi.mode = "block" => spi' = f.spi /\ spiTx' = f.fifo
<1> DEFINE f == fill_slave_tx_fifo(Rewound, <<>>)
<1>1. SpiTyped(spi) /\ AFifo(spiTx) /\ IsSpi(spi)
  BY DEF SpiTypes, SpiTyped
<1>2. SpiTyped(Rewound) /\ \A g \in SpiFields \ {"tx_idx"} : Rewound[g] = spi[g]
  BY <1>1, RewoundTyped
<1>3. /\ SpiTyped(f.spi) /\ AFifo(f.fifo)
      /\ \A g \in SpiFields \ {"tx_idx", "resp_idx"} : f.spi[g] = Rewound[g]
  BY <1>2, EmptyFifo, FillTypes
<1>4. spiRx' = spiRx /\ spiIrq' = spiIrq \ {"underrun"}
  BY DEF isr_underrun
<1>5. CASE spi.mode = "block"
  <2>1. spi' = f.spi /\ spiTx' = f.fifo
    BY <1>5 DEF isr_underrun, Rewound
  <2> HIDE DEF f
  <2>2. \A g \in SpiFields \ {"tx_idx", "resp_idx", "count"} : spi'[g] = spi[g]
    BY <1>2, <1>3, <2>1
  <2> QED BY <1>3, <1>4, <2>1, <2>2 DEF f
<1>6. CASE spi.mode = "frame"
  <2>1. spi' = [spi EXCEPT !.count = 1] /\ spiTx' = <<Frame>>
    BY <1>6 DEF isr_underrun
  <2>2. SpiTyped(spi')
    BY <1>1, <2>1 DEF SpiTyped, IsSpi, SpiFields
  <2>3. \A g \in SpiFields \ {"tx_idx", "resp_idx", "count"} : spi'[g] = spi[g]
    BY <1>1, <2>1 DEF IsSpi, SpiFields
  <2>4. AFifo(spiTx')
    BY <2>1, SpiWordsAre, OneWord
  <2> QED BY <1>3, <1>4, <1>6, <2>2, <2>3, <2>4
<1>7. CASE spi.mode = "none"
  <2>1. spi' = spi /\ spiTx' = <<>>
    BY <1>7 DEF isr_underrun
  <2> QED BY <1>1, <1>3, <1>4, <1>7, <2>1, EmptyFifo
<1> QED BY <1>1, <1>5, <1>6, <1>7 DEF SpiTyped

LEMMA SsendSteps ==
  ASSUME SpiTypes, isr_ssend, Raised("ssend")
  PROVE  LET r == read_slave_rx_fifo(spi, spiRx)
             t == Restarted(r)
             f == fill_slave_tx_fifo(t, <<>>)
         IN  /\ SpiTyped(r) /\ SpiTyped(t) /\ SpiTyped(spi') /\ AFifo(spiTx')
             /\ spi' = f.spi /\ spiTx' = f.fifo /\ spiRx' = <<>> /\ spiIrq' \subseteq spiIrq
             /\ spi.cmd_handler => "cmd" \notin spiIrq'
             /\ spiAt = "ssend" /\ spiAt' = "handled"
             /\ spiBlock' = [last |-> IF spiWire.open THEN spiWire.no - 1 ELSE spiWire.no,
                             size |-> r.rx_idx, data |-> r.rx_buffer]
             /\ UNCHANGED <<spiXfer, spiWire, spiUpset>>
             /\ \A g \in SpiFields \ {"tx_idx", "resp_idx"} : spi'[g] = t[g]
             /\ \A g \in SpiFields \ {"rx_idx", "rx_buffer"} : r[g] = spi[g]
<1> DEFINE r == read_slave_rx_fifo(spi, spiRx)
           t == Restarted(r)
           f == fill_slave_tx_fifo(t, <<>>)
<1>1. SpiTyped(spi) /\ AFifo(spiRx)
  BY DEF SpiTypes
<1>2. SpiTyped(r) /\ \A h \in SpiFields \ {"rx_idx", "rx_buffer"} : r[h] = spi[h]
  BY <1>1, ReadTypes
<1>3. /\ spi' = f.spi /\ spiTx' = f.fifo /\ spiRx' = <<>>
      /\ spiIrq' = (IF r.cmd_handler THEN spiIrq \ {"cmd"} ELSE spiIrq)
      /\ spiAt = "ssend" /\ spiAt' = "handled" /\ UNCHANGED <<spiXfer, spiWire, spiUpset>>
      /\ spiBlock' = [last |-> IF spiWire.open THEN spiWire.no - 1 ELSE spiWire.no,
                      size |-> r.rx_idx, data |-> r.rx_buffer]
  BY DEF isr_ssend
<1> HIDE DEF r
<1>4. SpiTyped(t)
  BY <1>2, RestartedTyped
<1> HIDE DEF t
<1>5. /\ SpiTyped(f.spi) /\ AFifo(f.fifo)
      /\ \A h \in SpiFields \ {"tx_idx", "resp_idx"} : f.spi[h] = t[h]
  BY <1>4, EmptyFifo, FillTypes
<1>6. r.cmd_handler = spi.cmd_handler
  BY <1>2 DEF SpiFields
<1>7. spiIrq' \subseteq spiIrq /\ (spi.cmd_handler => "cmd" \notin spiIrq')
  BY <1>3, <1>6
<1> HIDE DEF f
<1> QED BY <1>2, <1>3, <1>4, <1>5, <1>7 DEF f, t, r

LEMMA TxdoneSteps ==
  ASSUME SpiTypes, isr_txdone
  PROVE  /\ SpiTyped(spi') /\ AFifo(spiTx') /\ spiRx' = spiRx /\ spiIrq' \subseteq spiIrq
         /\ ~Raised("tx") => UNCHANGED <<spi, spiTx>>
         /\ \A g \in SpiFields \ {"tx_idx", "resp_idx"} : spi'[g] = spi[g]
         /\ Raised("tx") /\ spi.mode # "frame" =>
              spi' = fill_slave_tx_fifo(spi, spiTx).spi /\ spiTx' = fill_slave_tx_fifo(spi, spiTx).fifo
<1> DEFINE f == fill_slave_tx_fifo(spi, spiTx)
<1>1. SpiTyped(spi) /\ AFifo(spiTx)
  BY DEF SpiTypes
<1>2. /\ SpiTyped(f.spi) /\ AFifo(f.fifo)
      /\ \A h \in SpiFields \ {"tx_idx", "resp_idx"} : f.spi[h] = spi[h]
  BY <1>1, FillTypes
<1>3. spiRx' = spiRx /\ spiIrq' \subseteq spiIrq
  BY DEF isr_txdone
<1>4. CASE ~Raised("tx")
  <2>1. UNCHANGED <<spi, spiTx>>
    BY <1>4 DEF isr_txdone
  <2> HIDE DEF f
  <2> QED BY <1>1, <1>3, <1>4, <2>1
<1>5. CASE Raised("tx") /\ spi.mode # "frame"
  <2>1. spi' = f.spi /\ spiTx' = f.fifo
    BY <1>5 DEF isr_txdone
  <2> HIDE DEF f
  <2> QED BY <1>2, <1>3, <1>5, <2>1 DEF f
<1>6. CASE Raised("tx") /\ spi.mode = "frame"
  <2>1. spi' = spi /\ spiTx' = IF Len(spiTx) < FifoFrames THEN Append(spiTx, Frame) ELSE spiTx
    BY <1>6 DEF isr_txdone
  <2>2. AFifo(spiTx')
    BY <1>1, <2>1, FifoAppends, SpiWordsAre
  <2> HIDE DEF f
  <2> QED BY <1>1, <1>3, <1>6, <2>1, <2>2
<1> QED BY <1>4, <1>5, <1>6

LEMMA MinorSetupTypes ==
  ASSUME SpiTypes,
         \/ MSS_SPI_configure_slave_mode
         \/ \E sl \in SpiSlaves : \/ MSS_SPI_configure_master_mode(sl)
                                   \/ MSS_SPI_set_slave_select(sl) \/ MSS_SPI_clear_slave_select(sl)
         \/ MSS_SPI_set_frame_rx_handler \/ MSS_SPI_set_slave_tx_frame
         \/ MSS_SPI_enable \/ MSS_SPI_disable
         \/ MSS_SPI_set_transfer_byte_count(MaxFrames)
  PROVE  SpiTypes'
<1>1. SpiTyped(spi) /\ AFifo(spiTx) /\ AFifo(spiRx) /\ spiWire \in WireRecord /\ spiBlock \in BlockRecord
  BY DEF SpiTypes
<1>2. CASE MSS_SPI_configure_slave_mode
  <2>1. SpiTyped([spi EXCEPT !.role = "slave", !.mode = "none", !.on = TRUE, !.nvic = TRUE, !.count = 1])
    BY <1>1 DEF SpiTyped, IsSpi, SpiFields
  <2> QED BY <1>1, <1>2, <2>1, SetupTypes DEF MSS_SPI_configure_slave_mode
<1>3. ASSUME NEW sl \in SpiSlaves, MSS_SPI_configure_master_mode(sl) PROVE SpiTypes'
  <2>1. SpiTyped([spi EXCEPT !.role = "master", !.mode = "none", !.on = TRUE, !.nvic = TRUE,
                             !.slaves = @ \cup {sl}])
    BY <1>1 DEF SpiTyped, IsSpi, SpiFields
  <2> QED BY <1>1, <1>3, <2>1, SetupTypes DEF MSS_SPI_configure_master_mode
<1>4. ASSUME NEW sl \in SpiSlaves, MSS_SPI_set_slave_select(sl) PROVE SpiTypes'
  <2> DEFINE s == IF spi.overflow THEN recover_from_rx_overflow(spi) ELSE spi
  <2>1. SpiTyped(s) /\ s.slaves = spi.slaves
    BY <1>1, RecoveredTyped DEF SpiFields
  <2>2. sl \in spi.slaves
    BY <1>4 DEF MSS_SPI_set_slave_select
  <2>3. spi' = [s EXCEPT !.on = TRUE, !.ie = s.ie \ CONTROL_irqs, !.count = 1,
                         !.selected = s.selected \cup {sl}]
    BY <1>4 DEF MSS_SPI_set_slave_select
  <2> HIDE DEF s
  <2>4. SpiTyped(spi')
    BY <2>1, <2>2, <2>3 DEF SpiTyped, IsSpi, SpiFields
  <2> QED BY <1>1, <1>4, <2>4 DEF MSS_SPI_set_slave_select, line_, SpiTypes
<1>5. ASSUME NEW sl \in SpiSlaves, MSS_SPI_clear_slave_select(sl) PROVE SpiTypes'
  <2> DEFINE s == IF spi.overflow THEN recover_from_rx_overflow(spi) ELSE spi
  <2>1. SpiTyped(s)
    BY <1>1, RecoveredTyped
  <2>2. spi' = [s EXCEPT !.selected = s.selected \ {sl}]
    BY <1>5 DEF MSS_SPI_clear_slave_select
  <2> HIDE DEF s
  <2>3. SpiTyped(spi')
    BY <2>1, <2>2 DEF SpiTyped, IsSpi, SpiFields
  <2> QED BY <1>1, <1>5, <2>3 DEF MSS_SPI_clear_slave_select, line_, SpiTypes
<1>6. CASE MSS_SPI_set_frame_rx_handler
  <2> DEFINE auto == spi.autofill \/ spiTx = <<>>
             ie == (spi.ie \ {"cmd", "ssend"}) \cup {"underrun", "overflow", "rx"}
             s == [spi EXCEPT !.mode = "frame", !.cmd_handler = FALSE, !.count = 1,
                              !.autofill = auto, !.ie = ie]
  <2>1. auto \in BOOLEAN /\ ie \subseteq CONTROL_irqs \cup {"cmd", "ssend"}
    BY <1>1 DEF SpiTyped, CONTROL_irqs
  <2>2. Setup(s)
    BY <1>6 DEF MSS_SPI_set_frame_rx_handler
  <2>3. SpiTyped(s)
    <3> HIDE DEF auto, ie
    <3> QED BY <1>1, <2>1 DEF SpiTyped, IsSpi, SpiFields
  <2> HIDE DEF s
  <2> QED BY <1>1, <1>6, <2>2, <2>3, SetupTypes DEF MSS_SPI_set_frame_rx_handler
<1>7. CASE MSS_SPI_set_slave_tx_frame
  <2> DEFINE ie == (spi.ie \ {"cmd", "ssend"}) \cup {"underrun", "overflow", "tx"}
             s == [spi EXCEPT !.mode = "frame", !.cmd_handler = FALSE, !.count = 1, !.autofill = FALSE,
                              !.tx_size = 0, !.tx_idx = 0, !.ie = ie]
  <2>1. ie \subseteq CONTROL_irqs \cup {"cmd", "ssend"}
    BY <1>1 DEF SpiTyped, CONTROL_irqs
  <2>2. Setup(s)
    BY <1>7 DEF MSS_SPI_set_slave_tx_frame
  <2>3. SpiTyped(s)
    <3> HIDE DEF ie
    <3> QED BY <1>1, <2>1 DEF SpiTyped, IsSpi, SpiFields
  <2> HIDE DEF s
  <2>4. AFifo(spiTx') /\ AFifo(spiRx')
    BY <1>1, <1>7, SpiWordsAre, OneWord DEF MSS_SPI_set_slave_tx_frame
  <2> QED BY <2>2, <2>3, <2>4, SetupTypes
<1>8. CASE MSS_SPI_enable
  <2>1. SpiTyped([spi EXCEPT !.on = TRUE, !.nvic = TRUE])
    BY <1>1 DEF SpiTyped, IsSpi, SpiFields
  <2> QED BY <1>1, <1>8, <2>1, SetupTypes DEF MSS_SPI_enable
<1>9. CASE MSS_SPI_disable
  <2>1. SpiTyped([spi EXCEPT !.on = FALSE, !.nvic = TRUE])
    BY <1>1 DEF SpiTyped, IsSpi, SpiFields
  <2> QED BY <1>1, <1>9, <2>1, SetupTypes DEF MSS_SPI_disable
<1>10. CASE MSS_SPI_set_transfer_byte_count(MaxFrames)
  <2>1. SpiTyped([spi EXCEPT !.count = MaxFrames, !.on = TRUE, !.nvic = TRUE])
    BY <1>1 DEF SpiTyped, IsSpi, SpiFields
  <2> QED BY <1>1, <1>10, <2>1, SetupTypes DEF MSS_SPI_set_transfer_byte_count
<1> QED BY <1>2, <1>3, <1>4, <1>5, <1>6, <1>7, <1>8, <1>9, <1>10

LEMMA SetupsTypes ==
  ASSUME SpiTypes, SpiSetups
  PROVE  SpiTypes'
<1>1. CASE MSS_SPI_init
  BY <1>1, UnsetTyped, EmptyFifo, SetupTypes DEF MSS_SPI_init
<1>2. ASSUME NEW tx \in SpiSizes, NEW rx \in SpiSizes \ {0}, MSS_SPI_set_slave_block_buffers(tx, rx)
      PROVE  SpiTypes'
  <2>1. tx \in Nat /\ rx \in Nat
    BY SpiNumbers
  <2>2. UNCHANGED <<spiWire, spiBlock>>
    BY <1>2 DEF MSS_SPI_set_slave_block_buffers, Setup
  <2> DEFINE most == IF tx >= FifoFrames \/ ~spi.cmd_handler THEN FifoFrames ELSE tx
  <2>3. SpiTyped(spi') /\ spiTx' = FirstFill(tx, most) /\ spiRx' = <<>> /\ most \in 0..FifoFrames
    BY <1>2, <2>1, BlockBuffersSteps
  <2> HIDE DEF most
  <2>4. AFifo(spiTx') /\ AFifo(spiRx')
    BY <2>1, <2>3, EmptyFifo, FirstFillIs
  <2> QED BY <2>2, <2>3, <2>4 DEF SpiTypes
<1>3. ASSUME NEW size \in 0..1, MSS_SPI_set_cmd_handler(size)
      PROVE  SpiTypes'
  <2>1. UNCHANGED <<spiWire, spiBlock>>
    BY <1>3 DEF MSS_SPI_set_cmd_handler, Setup
  <2>2. SpiTyped(spi') /\ AFifo(spiTx') /\ AFifo(spiRx')
    <3>1. CASE size = 0
      BY <1>3, <3>1, CmdHandlerSteps DEF SpiTypes
    <3>2. CASE size # 0
      BY <1>3, <3>2, CmdHandlerSteps, EmptyFifo
    <3> QED BY <3>1, <3>2
  <2> QED BY <2>1, <2>2 DEF SpiTypes
<1> QED BY <1>1, <1>2, <1>3, MinorSetupTypes DEF SpiSetups

LEMMA IsrTypes ==
  ASSUME SpiTypes, SpiIsr
  PROVE  SpiTypes'
<1>1. SpiTyped(spi) /\ AFifo(spiTx) /\ AFifo(spiRx) /\ spiWire \in WireRecord /\ spiBlock \in BlockRecord
  BY DEF SpiTypes
<1>2. CASE isr_enter \/ isr_handled
  BY <1>1, <1>2 DEF isr_enter, isr_handled, line_, SpiTypes
<1>3. CASE isr_rxdone
  <2>1. SpiTyped(spi') /\ AFifo(spiRx')
    BY <1>1, <1>3, ReadTypes, EmptyFifo DEF isr_rxdone
  <2> QED BY <1>1, <1>3, <2>1 DEF isr_rxdone, line_, SpiTypes
<1>4. CASE isr_txdone
  <2>1. SpiTyped(spi') /\ AFifo(spiTx') /\ spiRx' = spiRx
    BY <1>4, TxdoneSteps
  <2> QED BY <1>1, <1>4, <2>1 DEF isr_txdone, line_, SpiTypes
<1>5. ASSUME NEW size \in 0..1, isr_cmd(size) PROVE SpiTypes'
  <2>1. UNCHANGED <<spiWire, spiBlock>>
    BY <1>5 DEF isr_cmd, line_
  <2>2. CASE Raised("cmd")
    <3>1. SpiTyped(spi') /\ AFifo(spiTx') /\ spiRx' = <<>>
      BY <1>5, <2>2, CmdSteps
    <3> QED BY <1>1, <2>1, <3>1, EmptyFifo DEF SpiTypes
  <2>3. CASE ~Raised("cmd")
    BY <1>1, <1>5, <2>1, <2>3 DEF isr_cmd, SpiTypes
  <2> QED BY <2>2, <2>3
<1>6. CASE isr_overflow
  <2>1. SpiTyped(spi') /\ AFifo(spiTx') /\ AFifo(spiRx')
    BY <1>1, <1>6, RecoveredTyped, EmptyFifo DEF isr_overflow
  <2> QED BY <1>1, <1>6, <2>1 DEF isr_overflow, line_, SpiTypes
<1>7. CASE isr_underrun
  <2>1. UNCHANGED <<spiWire, spiBlock>>
    BY <1>7 DEF isr_underrun, line_
  <2>2. CASE Raised("underrun")
    BY <1>1, <1>7, <2>1, <2>2, UnderrunSteps DEF SpiTypes
  <2>3. CASE ~Raised("underrun")
    BY <1>1, <1>7, <2>1, <2>3 DEF isr_underrun, SpiTypes
  <2> QED BY <2>2, <2>3
<1>8. CASE isr_ssend
  <2>1. CASE Raised("ssend")
    <3> DEFINE r == read_slave_rx_fifo(spi, spiRx)
    <3>1. /\ SpiTyped(r) /\ SpiTyped(spi') /\ AFifo(spiTx') /\ spiRx' = <<>> /\ UNCHANGED spiWire
          /\ spiBlock' = [last |-> IF spiWire.open THEN spiWire.no - 1 ELSE spiWire.no,
                          size |-> r.rx_idx, data |-> r.rx_buffer]
      BY <1>8, <2>1, SsendSteps
    <3>2. r.rx_idx \in Nat /\ r.rx_buffer \in Seq(SpiWords)
      BY <3>1 DEF SpiTyped
    <3>3. (IF spiWire.open THEN spiWire.no - 1 ELSE spiWire.no) \in Int
      BY <1>1 DEF WireRecord
    <3> HIDE DEF r
    <3>4. spiBlock' \in BlockRecord
      BY <3>1, <3>2, <3>3 DEF BlockRecord
    <3> QED BY <1>1, <3>1, <3>4, EmptyFifo DEF SpiTypes
  <2>2. CASE ~Raised("ssend")
    BY <1>1, <1>8, <2>2 DEF isr_ssend, SpiTypes
  <2> QED BY <2>1, <2>2
<1> QED BY <1>2, <1>3, <1>4, <1>5, <1>6, <1>7, <1>8 DEF SpiIsr

LEMMA MasterTypesStep ==
  ASSUME SpiTypes, MasterInv, SpiMaster
  PROVE  SpiTypes'
<1>1. SpiTyped(spi) /\ AFifo(spiTx) /\ AFifo(spiRx) /\ spiWire \in WireRecord /\ spiBlock \in BlockRecord
  BY DEF SpiTypes
<1>2. \A k \in Nat : k \in SpiWords /\ AFifo(<<k>>)
  BY SpiWordsAre, OneWord
<1>3. ASSUME NEW cmd \in 0..MaxTransfer, NEW rd \in 0..MaxTransfer, MSS_SPI_transfer_block(cmd, rd)
      PROVE  SpiTypes'
  <2> DEFINE s == IF spi.overflow THEN recover_from_rx_overflow(spi) ELSE spi
             c == IF cmd + rd = 0 THEN 1 ELSE cmd + rd
  <2>1. SpiTyped(s)
    BY <1>1, RecoveredTyped
  <2>2. spi' = [s EXCEPT !.count = c, !.on = TRUE]
    BY <1>3 DEF MSS_SPI_transfer_block
  <2> HIDE DEF s, c
  <2>3. SpiTyped(spi')
    BY <2>1, <2>2 DEF SpiTyped, IsSpi, SpiFields
  <2>4. AFifo(spiTx') /\ AFifo(spiRx') /\ UNCHANGED <<spiWire, spiBlock>>
    BY <1>2, <1>3, EmptyFifo DEF MSS_SPI_transfer_block
  <2> QED BY <1>1, <2>3, <2>4 DEF SpiTypes
<1>4. CASE drain
  <2>1. AFifo(spiRx')
    BY <1>1, <1>4, FifoTails DEF drain
  <2> QED BY <1>1, <1>4, <2>1 DEF drain, SpiTypes
<1>5. CASE feed
  <2>1. spiXfer.tx_idx + 1 \in SpiWords
    <3>1. spiXfer.tx_idx \in Nat
      BY DEF MasterInv, MasterTypes, XferRecord
    <3>2. spiXfer.tx_idx + 1 \in Nat
      BY <3>1
    <3> QED BY <1>2, <3>2
  <2>2. AFifo(spiTx')
    BY <1>1, <1>5, <2>1, FifoAppends DEF feed
  <2> QED BY <1>1, <1>5, <2>2 DEF feed, SpiTypes
<1>6. CASE MSS_SPI_transfer_frame
  <2>1. SpiTyped([spi EXCEPT !.count = 1])
    BY <1>1 DEF SpiTyped, IsSpi, SpiFields
  <2>2. UNCHANGED <<spiWire, spiBlock>>
    BY <1>6 DEF MSS_SPI_transfer_frame
  <2>3. \/ spi' = [spi EXCEPT !.count = 1] /\ spiTx' = <<1>> /\ spiRx' = <<>>
        \/ spi' = spi /\ spiTx' = spiTx /\ spiRx # <<>> /\ spiRx' = Tail(spiRx)
    BY <1>6 DEF MSS_SPI_transfer_frame
  <2>4. AFifo(<<1>>)
    BY <1>2
  <2>5. SpiTyped(spi') /\ AFifo(spiTx') /\ AFifo(spiRx')
    BY <1>1, <2>1, <2>3, <2>4, EmptyFifo, FifoTails
  <2> QED BY <1>1, <2>2, <2>5 DEF SpiTypes
<1>7. CASE exchange
  <2>1. SpiTyped([spi EXCEPT !.overflow = TRUE])
    BY <1>1 DEF SpiTyped, IsSpi, SpiFields
  <2>2. AFifo(Tail(spiTx)) /\ Head(spiTx) \in SpiWords
    BY <1>1, <1>7, FifoTails DEF exchange
  <2>3. Len(spiRx) < RxFrames => Len(spiRx) < FifoFrames
    BY <1>1, LenProperties, SpiNumbers DEF AFifo
  <2> QED BY <1>1, <1>7, <2>1, <2>2, <2>3, FifoAppends DEF exchange, line_, SpiTypes
<1> QED BY <1>3, <1>4, <1>5, <1>6, <1>7 DEF SpiMaster

LEMMA WireTypes ==
  ASSUME SpiTypes, select \/ clock \/ release
  PROVE  SpiTypes'
<1>1. SpiTyped(spi) /\ AFifo(spiTx) /\ AFifo(spiRx) /\ spiWire \in WireRecord /\ spiBlock \in BlockRecord
  BY DEF SpiTypes
<1>2. CASE select
  <2>1. spiWire' \in WireRecord
    BY <1>1, <1>2, EmptyFifo DEF select, WireRecord
  <2> QED BY <1>1, <1>2, <2>1 DEF select, SpiTypes
<1>3. CASE release
  <2>1. spiWire' \in WireRecord
    BY <1>1, <1>3 DEF release, WireRecord
  <2> QED BY <1>1, <1>3, <2>1 DEF release, SpiTypes
<1>4. CASE clock
  <2> DEFINE n == spiWire.sent + 1
             lost == Len(spiRx) = FifoFrames
             dry  == spiTx = <<>> /\ ~spi.autofill
             w == IF spiTx # <<>> THEN Head(spiTx) ELSE IF dry THEN <<"nothing", 0>> ELSE Zero
  <2>1. w \in SpiWords
    BY <1>1, FifoTails, SpiWordsAre
  <2>2. n \in Nat /\ spiWire.no \in Nat /\ spiWire.heard \in Seq(SpiWords)
    BY <1>1 DEF WireRecord
  <2>3. spiWire' \in WireRecord
    <3>1. spiWire' = [spiWire EXCEPT !.sent = n, !.heard = Append(spiWire.heard, w)]
      BY <1>4 DEF clock
    <3>2. Append(spiWire.heard, w) \in Seq(SpiWords)
      BY <2>1, <2>2, AppendProperties
    <3> HIDE DEF w, n
    <3> QED BY <1>1, <2>2, <3>1, <3>2 DEF WireRecord
  <2>4. AFifo(spiTx')
    BY <1>1, <1>4, FifoTails DEF clock
  <2>5. AFifo(spiRx')
    <3>1. <<spiWire.no, n>> \in SpiWords
      BY <2>2, SpiWordsAre
    <3>2. Len(spiRx) \in Nat /\ (~lost => Len(spiRx) < FifoFrames)
      BY <1>1, LenProperties, SpiNumbers DEF AFifo
    <3>3. spiRx' = IF lost THEN spiRx ELSE Append(spiRx, <<spiWire.no, n>>)
      BY <1>4 DEF clock
    <3> HIDE DEF n
    <3> QED BY <1>1, <3>1, <3>2, <3>3, FifoAppends
  <2>6. SpiTyped(spi')
    <3>1. spi' = [spi EXCEPT !.overflow = spi.overflow \/ lost]
      BY <1>4 DEF clock
    <3> HIDE DEF lost
    <3> QED BY <1>1, <3>1 DEF SpiTyped, IsSpi, SpiFields
  <2>7. UNCHANGED spiBlock
    BY <1>4 DEF clock
  <2> HIDE DEF n, lost, dry, w
  <2> QED BY <1>1, <2>3, <2>4, <2>5, <2>6, <2>7 DEF SpiTypes
<1> QED BY <1>2, <1>3, <1>4

LEMMA SpiTypesStart == SpiInit => SpiTypes
<1> SUFFICES ASSUME SpiInit PROVE SpiTypes
  OBVIOUS
<1>1. spi = Unset /\ spiTx = <<>> /\ spiRx = <<>>
  BY DEF SpiInit
<1>2. spiWire \in WireRecord /\ spiBlock \in BlockRecord
  BY EmptyFifo DEF SpiInit, WireRecord, BlockRecord
<1> QED BY <1>1, <1>2, UnsetTyped, EmptyFifo DEF SpiTypes

LEMMA SpiTypesSteps == SpiTypes /\ MasterInv /\ [SpiNext]_spiVars => SpiTypes'
<1> SUFFICES ASSUME SpiTypes, MasterInv, [SpiNext]_spiVars PROVE SpiTypes'
  OBVIOUS
<1>1. CASE UNCHANGED spiVars
  BY <1>1 DEF spiVars, SpiTypes
<1> QED BY <1>1, SetupsTypes, IsrTypes, MasterTypesStep, WireTypes DEF SpiNext

LEMMA SpiTypesImply == SpiTypes => SpiTypeOK
BY DEF SpiTypes, SpiTypeOK, SpiTyped, AFifo

(* The registers of the driver, the two FIFOs and the indices stay what    *)
(* they are declared to be; the response's index stays within its size,    *)
(* and the caller's receive buffer is never written past its end.          *)
THEOREM SpiAlwaysTyped == SpiSpec => []SpiTypeOK
<1>1. SpiInit => MasterInv /\ SpiTypes
  BY MasterStarts, SpiTypesStart
<1>2. MasterInv /\ SpiTypes /\ [SpiNext]_spiVars => (MasterInv /\ SpiTypes)'
  BY MasterSteps, SpiTypesSteps
<1> QED BY <1>1, <1>2, SpiTypesImply, PTL DEF SpiSpec

----------------------------------------------------------------------------
(* The invariant of the slave.                                             *)

(* After an overflow: nothing is left to send until a setup.               *)
Dead == spiTx = <<>> /\ ~spi.autofill /\ spiIrq = {} /\ (spiWire.open => spiWire.heard = <<>>)

(* A response outlived its command handler.                                *)
Excused(s) == s.resp_size > 0 /\ ~s.cmd_handler

Shape(s) ==
  /\ "cmd" \in s.ie => s.cmd_handler /\ ~s.cmd_done /\ s.resp_size = 0
  /\ s.mode = "block" => /\ {"ssend", "rx", "underrun", "overflow"} \subseteq s.ie
                         /\ s.cmd_handler \/ s.cmd_done
                         /\ s.autofill => s.tx_size = 0
  /\ s.role = "master" => s.mode = "none"

(* Between transactions: nothing was read, and the TX FIFO holds the start *)
(* of what is owed.                                                        *)
Standby ==
  /\ spi.rx_idx = 0 /\ spiRx = <<>> /\ ~Raised("cmd")
  /\ spi.resp_size > 0 => ~spi.cmd_handler
  /\ Excused(spi) \/ Dead \/ Primed(spi, spiTx, 0)

Heard == HeardAs(spi, spiRx, spiWire.no, spiWire.sent)

Told ==
  \/ Excused(spi) \/ Dead
  \/ spi.autofill /\ spi.cmd_handler
  \/ /\ Primed(spi, spiTx, Len(spiWire.heard))
     /\ \A k \in 1..Len(spiWire.heard) : spiWire.heard[k] = AnswerOf(spi, k)

Sane == spi.mode = "block" /\ spiUpset = {}
Clean == "underrun" \notin spiIrq /\ "overflow" \notin spiIrq

Totals == spiWire.sent = Len(spiWire.heard) /\ spiBlock.last <= spiWire.no
Stays == Sane /\ ~spiWire.open /\ "ssend" \notin spiIrq /\ spiAt # "handled" => Standby
Talks == Sane /\ spiWire.open => spiAt # "handled" /\ "ssend" \notin spiIrq /\ Clean /\ Heard /\ Told
Waits == Sane /\ ~spiWire.open /\ "ssend" \in spiIrq /\ spiAt # "handled" => Clean /\ Heard
Handles ==
  spiAt = "handled" /\ spiWire.no = spiBlock.last =>
    ~spiWire.open /\ (spi.mode = "block" => Standby)
Hands ==
  Sane /\ spiAt = "handled" =>
    /\ spiWire.no = spiBlock.last /\ spiBlock.size = spiWire.sent
    /\ spiBlock.data = [k \in 1..FewerOf(spiWire.sent, spi.rx_size) |-> <<spiWire.no, k>>]

SlaveInv == Shape(spi) /\ Totals /\ Stays /\ Talks /\ Waits /\ Handles /\ Hands

LEMMA AnswersSame ==
  ASSUME NEW s, NEW t, s.tx_size = t.tx_size, s.resp_size = t.resp_size
  PROVE  \A k : AnswerOf(s, k) = AnswerOf(t, k)
BY DEF AnswerOf

LEMMA PrimedSame ==
  ASSUME NEW s, NEW t, s.tx_size = t.tx_size, s.resp_size = t.resp_size, s.tx_idx = t.tx_idx,
         s.resp_idx = t.resp_idx, s.cmd_done = t.cmd_done, NEW fifo, NEW base
  PROVE  Primed(s, fifo, base) <=> Primed(t, fifo, base)
<1>1. \A k : AnswerOf(s, k) = AnswerOf(t, k)
  BY AnswersSame
<1>2. \A n : Standing(s, n) <=> Standing(t, n)
  BY DEF Standing
<1> QED BY <1>1, <1>2 DEF Primed

(* Before it comes to a release, the handler keeps to what it is doing.    *)
LEMMA IsrGoesOn ==
  ASSUME SlaveInv, UNCHANGED <<spiWire, spiBlock, spiUpset>>, spiAt # "handled", spiAt' # "handled",
         spi'.mode = spi.mode, Shape(spi'), spiIrq' \subseteq spiIrq,
         Sane /\ "ssend" \in spiIrq => "ssend" \in spiIrq',
         Sane /\ ~spiWire.open /\ "ssend" \notin spiIrq => Standby',
         Sane /\ spiWire.open => Heard' /\ Told',
         Sane /\ ~spiWire.open /\ "ssend" \in spiIrq => Heard'
  PROVE  SlaveInv'
<1>1. Sane' <=> Sane
  BY DEF Sane
<1>2. Totals' /\ Handles' /\ Hands'
  BY DEF SlaveInv, Totals, Handles, Hands
<1>3. Stays'
  BY <1>1 DEF Stays
<1>4. Talks'
  BY <1>1 DEF SlaveInv, Talks, Clean
<1>5. Waits'
  BY <1>1 DEF SlaveInv, Waits, Clean
<1> QED BY <1>2, <1>3, <1>4, <1>5 DEF SlaveInv

(* What the parts say of one moment.                                       *)
LEMMA Moments ==
  ASSUME SlaveInv, spiAt # "handled", Sane
  PROVE  /\ ~spiWire.open /\ "ssend" \notin spiIrq => Standby
         /\ spiWire.open => "ssend" \notin spiIrq /\ Clean /\ Heard /\ Told
         /\ ~spiWire.open /\ "ssend" \in spiIrq => Clean /\ Heard
BY DEF SlaveInv, Stays, Talks, Waits

LEMMA EnterSlave ==
  ASSUME SpiTypes, SlaveInv, isr_enter
  PROVE  SlaveInv'
<1>1. /\ UNCHANGED <<spi, spiTx, spiRx, spiIrq, spiWire, spiBlock, spiUpset>>
      /\ spiAt = "run" /\ spiAt' = "rxdone"
  BY DEF isr_enter, line_
<1>2. Standby' = Standby /\ Heard' = Heard /\ Told' = Told /\ Sane' = Sane
  BY <1>1 DEF Standby, Heard, Told, Sane, Raised, Dead
<1>3. Sane => /\ ~spiWire.open /\ "ssend" \notin spiIrq => Standby
              /\ spiWire.open => "ssend" \notin spiIrq /\ Clean /\ Heard /\ Told
              /\ ~spiWire.open /\ "ssend" \in spiIrq => Clean /\ Heard
  BY <1>1, Moments
<1> QED BY <1>1, <1>2, <1>3, IsrGoesOn DEF SlaveInv

LEMMA RxdoneSlave ==
  ASSUME SpiTypes, SlaveInv, isr_rxdone
  PROVE  SlaveInv'
<1> DEFINE r == read_slave_rx_fifo(spi, spiRx)
<1>0. SpiTyped(spi) /\ AFifo(spiRx) /\ spiWire.no \in Nat /\ spiWire.sent \in Nat
  BY DEF SpiTypes, WireRecord
<1>1. /\ UNCHANGED <<spiTx, spiWire, spiBlock, spiUpset>> /\ spiAt = "rxdone" /\ spiAt' = "txdone"
      /\ spiIrq' \subseteq spiIrq /\ ("ssend" \in spiIrq => "ssend" \in spiIrq')
  BY DEF isr_rxdone, line_
<1>2. Sane => /\ ~spiWire.open /\ "ssend" \notin spiIrq => Standby
              /\ spiWire.open => "ssend" \notin spiIrq /\ Clean /\ Heard /\ Told
              /\ ~spiWire.open /\ "ssend" \in spiIrq => Clean /\ Heard
  BY <1>1, Moments
<1>3. CASE ~Raised("rx")
  <2>1. UNCHANGED <<spi, spiRx, spiIrq>>
    BY <1>3 DEF isr_rxdone
  <2>2. Standby' = Standby /\ Heard' = Heard /\ Told' = Told
    BY <1>1, <2>1 DEF Standby, Heard, Told, Raised, Dead
  <2> QED BY <1>1, <1>2, <2>1, <2>2, IsrGoesOn DEF SlaveInv
<1>4. CASE Raised("rx")
  <2>1. spi' = r /\ spiRx' = <<>> /\ spiIrq' = spiIrq \ {"rx"}
    BY <1>4 DEF isr_rxdone
  <2>2. /\ \A g \in SpiFields \ {"rx_idx", "rx_buffer"} : r[g] = spi[g]
        /\ spi.mode = "block" => r.rx_idx = spi.rx_idx + Len(spiRx)
    BY <1>0, ReadTypes
  <2>3. Sane /\ Heard => Heard'
    <3> SUFFICES ASSUME Sane, Heard PROVE Heard'
      OBVIOUS
    <3>1. HeardAs(r, <<>>, spiWire.no, spiWire.sent)
      BY <1>0, ReadHeard DEF Sane, Heard
    <3> HIDE DEF r
    <3> QED BY <1>1, <2>1, <3>1 DEF Heard
  <2> HIDE DEF r
  <2>4. /\ spi'.mode = spi.mode /\ spi'.role = spi.role /\ spi'.ie = spi.ie
        /\ spi'.tx_size = spi.tx_size /\ spi'.tx_idx = spi.tx_idx /\ spi'.resp_size = spi.resp_size
        /\ spi'.resp_idx = spi.resp_idx /\ spi'.cmd_done = spi.cmd_done
        /\ spi'.cmd_handler = spi.cmd_handler /\ spi'.autofill = spi.autofill
    BY <2>1, <2>2 DEF SpiFields
  <2>5. \A base : Primed(spi, spiTx, base) => Primed(spi', spiTx', base)
    BY <1>1, <2>4, PrimedSame
  <2>6. \A k : AnswerOf(spi', k) = AnswerOf(spi, k)
    BY <2>4, AnswersSame
  <2>7. Excused(spi') = Excused(spi) /\ (Dead => Dead')
    BY <1>1, <2>1, <2>4 DEF Excused, Dead
  <2>8. Sane /\ Standby => Standby'
    <3>1. Sane /\ Standby => spi'.rx_idx = 0
      <4>1. Sane /\ Standby => r.rx_idx = 0 + Len(<<>>)
        BY <2>2 DEF Sane, Standby
      <4> QED BY <2>1, <4>1, EmptyFifo
    <3> QED BY <2>1, <2>4, <2>5, <2>7, <3>1 DEF Standby, Raised
  <2>9. Told => Told'
    BY <1>1, <2>4, <2>5, <2>6, <2>7 DEF Told
  <2>10. Shape(spi')
    BY <2>4 DEF SlaveInv, Shape
  <2> QED BY <1>1, <1>2, <2>3, <2>4, <2>8, <2>9, <2>10, IsrGoesOn
<1> QED BY <1>3, <1>4

LEMMA TxdoneSlave ==
  ASSUME SpiTypes, SlaveInv, isr_txdone
  PROVE  SlaveInv'
<1> DEFINE f == fill_slave_tx_fifo(spi, spiTx)
<1>0. SpiTyped(spi) /\ AFifo(spiTx) /\ spiWire.heard \in Seq(SpiWords)
  BY DEF SpiTypes, WireRecord
<1>1. /\ UNCHANGED <<spiWire, spiBlock, spiUpset>> /\ spiAt = "txdone" /\ spiAt' = "cmd"
      /\ spiIrq' \subseteq spiIrq /\ ("ssend" \in spiIrq => "ssend" \in spiIrq')
  BY DEF isr_txdone, line_
<1>2. Sane => /\ ~spiWire.open /\ "ssend" \notin spiIrq => Standby
              /\ spiWire.open => "ssend" \notin spiIrq /\ Clean /\ Heard /\ Told
              /\ ~spiWire.open /\ "ssend" \in spiIrq => Clean /\ Heard
  BY <1>1, Moments
<1>3. /\ spiRx' = spiRx /\ \A g \in SpiFields \ {"tx_idx", "resp_idx"} : spi'[g] = spi[g]
      /\ ~Raised("tx") => UNCHANGED <<spi, spiTx>>
      /\ Raised("tx") /\ spi.mode # "frame" => spi' = f.spi /\ spiTx' = f.fifo
  BY TxdoneSteps
<1>4. /\ spi'.mode = spi.mode /\ spi'.role = spi.role /\ spi'.ie = spi.ie
      /\ spi'.tx_size = spi.tx_size /\ spi'.resp_size = spi.resp_size /\ spi'.cmd_done = spi.cmd_done
      /\ spi'.cmd_handler = spi.cmd_handler /\ spi'.autofill = spi.autofill
      /\ spi'.rx_idx = spi.rx_idx /\ spi'.rx_size = spi.rx_size /\ spi'.rx_buffer = spi.rx_buffer
  BY <1>3 DEF SpiFields
<1>5. ASSUME NEW base \in Nat, Sane, Primed(spi, spiTx, base) PROVE Primed(spi', spiTx', base)
  <2>1. CASE Raised("tx")
    <3>1. Primed(f.spi, f.fifo, base)
      BY <1>0, <1>5, FillPrimes
    <3>2. spi' = f.spi /\ spiTx' = f.fifo
      BY <1>3, <1>5, <2>1 DEF Sane
    <3> HIDE DEF f
    <3> QED BY <3>1, <3>2
  <2>2. CASE ~Raised("tx")
    <3> HIDE DEF f
    <3> QED BY <1>3, <1>5, <2>2
  <2> QED BY <2>1, <2>2
<1> HIDE DEF f
<1>6. \A k : AnswerOf(spi', k) = AnswerOf(spi, k)
  BY <1>4, AnswersSame
<1>7. Dead => Dead'
  <2> SUFFICES ASSUME Dead PROVE Dead'
    OBVIOUS
  <2>1. ~Raised("tx")
    BY DEF Raised, Dead
  <2>2. spiIrq' = {}
    BY <1>1 DEF Dead
  <2> QED BY <1>1, <1>3, <2>1, <2>2 DEF Dead
<1>8. Excused(spi') = Excused(spi)
  BY <1>4 DEF Excused
<1>9. Sane /\ Standby => Standby'
  BY <1>1, <1>3, <1>4, <1>5, <1>7, <1>8 DEF Standby, Raised
<1>10. Heard => Heard'
  BY <1>1, <1>3, <1>4 DEF Heard, HeardAs
<1>11. Sane /\ Told => Told'
  <2>1. Len(spiWire.heard) \in Nat
    BY <1>0, LenProperties
  <2> QED BY <1>1, <1>4, <1>5, <1>6, <1>7, <1>8, <2>1 DEF Told
<1>12. Shape(spi')
  BY <1>4 DEF SlaveInv, Shape
<1> QED BY <1>1, <1>2, <1>4, <1>9, <1>10, <1>11, <1>12, IsrGoesOn

(* The response to a command follows the buffer, which is all that was     *)
(* filled before.                                                          *)
LEMMA ResponseFollows ==
  ASSUME NEW s, SpiTyped(s), ~s.cmd_done, s.resp_size = 0,
         NEW c, c.tx_size = s.tx_size, c.tx_idx = s.tx_idx, c.resp_idx = 0,
         NEW fifo, AFifo(fifo), NEW base \in Nat, Primed(s, fifo, base)
  PROVE  Primed(c, fifo, base) /\ \A k \in 1..base : AnswerOf(s, k) = AnswerOf(c, k)
<1>1. /\ s.tx_size \in Nat /\ s.tx_idx \in Nat /\ s.resp_idx \in Nat /\ s.resp_idx <= 0
      /\ Len(fifo) \in Nat
  BY LenProperties DEF SpiTyped, AFifo
<1>2. Standing(s, base + Len(fifo)) /\ \A k \in 1..Len(fifo) : fifo[k] = AnswerOf(s, base + k)
  BY DEF Primed
<1>3. base + Len(fifo) <= s.tx_size /\ Standing(c, base + Len(fifo))
  <2>1. CASE s.tx_idx < s.tx_size
    BY <1>1, <1>2, <2>1 DEF Standing
  <2>2. CASE ~(s.tx_idx < s.tx_size)
    <3>1. base + Len(fifo) = s.tx_size + s.resp_idx /\ s.resp_idx = 0
      BY <1>1, <1>2, <2>2 DEF Standing
    <3>2. base + Len(fifo) = s.tx_size /\ base + Len(fifo) >= s.tx_size
      BY ONLY <1>1, <3>1
    <3>3. base + Len(fifo) = c.tx_size + c.resp_idx
      BY ONLY <1>1, <3>2, c.tx_size = s.tx_size, c.resp_idx = 0
    <3>4. Standing(c, base + Len(fifo))
      BY <2>2, <3>2, <3>3 DEF Standing
    <3> QED BY <1>1, <3>2, <3>4
  <2> QED BY <2>1, <2>2
<1>4. ASSUME NEW k \in Nat, k <= base + Len(fifo) PROVE AnswerOf(s, k) = AnswerOf(c, k)
  <2>1. k <= s.tx_size
    BY ONLY <1>1, <1>3, <1>4, base \in Nat
  <2> QED BY <2>1 DEF AnswerOf
<1>5. ASSUME NEW k \in 1..base PROVE AnswerOf(s, k) = AnswerOf(c, k)
  BY <1>1, <1>4
<1>6. ASSUME NEW k \in 1..Len(fifo) PROVE fifo[k] = AnswerOf(c, base + k)
  <2>1. base + k \in Nat /\ base + k <= base + Len(fifo)
    BY <1>1
  <2> QED BY <1>2, <1>4, <2>1
<1> QED BY <1>3, <1>5, <1>6 DEF Primed

LEMMA CmdSlave ==
  ASSUME SpiTypes, SlaveInv, NEW size \in Nat, isr_cmd(size)
  PROVE  SlaveInv'
<1> DEFINE r == read_slave_rx_fifo(spi, spiRx)
           c == Responding(r, size)
           f == fill_slave_tx_fifo(c, spiTx)
           g == fill_slave_tx_fifo(f.spi, f.fifo)
<1>0. /\ SpiTyped(spi) /\ AFifo(spiTx) /\ AFifo(spiRx)
      /\ spiWire.no \in Nat /\ spiWire.sent \in Nat /\ spiWire.heard \in Seq(SpiWords)
      /\ Len(spiWire.heard) \in Nat
  BY LenProperties DEF SpiTypes, WireRecord
<1>1. /\ UNCHANGED <<spiWire, spiBlock, spiUpset>> /\ spiAt = "cmd" /\ spiAt' = "overflow"
  BY DEF isr_cmd, line_
<1>2. Sane => /\ ~spiWire.open /\ "ssend" \notin spiIrq => Standby
              /\ spiWire.open => "ssend" \notin spiIrq /\ Clean /\ Heard /\ Told
              /\ ~spiWire.open /\ "ssend" \in spiIrq => Clean /\ Heard
  BY <1>1, Moments
<1>3. CASE ~Raised("cmd")
  <2>1. UNCHANGED <<spi, spiTx, spiRx, spiIrq>>
    BY <1>3 DEF isr_cmd
  <2>2. Standby' = Standby /\ Heard' = Heard /\ Told' = Told
    BY <1>1, <2>1 DEF Standby, Heard, Told, Raised, Dead
  <2> QED BY <1>1, <1>2, <2>1, <2>2, IsrGoesOn DEF SlaveInv
<1>4. CASE Raised("cmd")
  <2>1. /\ SpiTyped(r) /\ SpiTyped(c)
        /\ SpiTyped(f.spi) /\ AFifo(f.fifo) /\ SpiTyped(g.spi) /\ AFifo(g.fifo)
        /\ SpiTyped(spi') /\ spiTx' = g.fifo /\ spiRx' = <<>> /\ spiIrq' = spiIrq \ {"cmd"}
        /\ spi'.ie = spi.ie \ {"cmd"} /\ spi'.cmd_done /\ spi'.resp_size = size
        /\ spi'.tx_idx = g.spi.tx_idx /\ spi'.resp_idx = g.spi.resp_idx
        /\ g.spi.cmd_done /\ g.spi.resp_size = size /\ g.spi.tx_size = spi'.tx_size
        /\ \A h \in SpiFields \ {"ie", "cmd_done", "tx_idx", "resp_idx", "resp_size"} : spi'[h] = r[h]
    BY <1>4, CmdSteps
  <2>2. \A h \in SpiFields \ {"rx_idx", "rx_buffer"} : r[h] = spi[h]
    BY <1>0, ReadTypes
  <2>3. Sane /\ Heard => HeardAs(r, <<>>, spiWire.no, spiWire.sent)
    BY <1>0, ReadHeard DEF Sane, Heard
  <2> HIDE DEF r
  <2>4. /\ c.resp_size = size /\ c.resp_idx = 0 /\ c.cmd_done = TRUE
        /\ \A h \in SpiFields \ {"resp_size", "resp_idx", "cmd_done"} : c[h] = r[h]
    <3>1. SpiTyped(r)
      BY <2>1
    <3> HIDE DEF f, g
    <3> QED BY ONLY <3>1, size \in Nat, RespondingTyped DEF c
  <2>5. \A base \in Nat : Primed(c, spiTx, base) => Primed(g.spi, g.fifo, base)
    <3>1. \A base \in Nat : Primed(c, spiTx, base) => Primed(f.spi, f.fifo, base)
      BY <1>0, <2>1, FillPrimes
    <3>2. \A base \in Nat : Primed(f.spi, f.fifo, base) => Primed(g.spi, g.fifo, base)
      BY <2>1, FillPrimes
    <3> QED BY <3>1, <3>2
  <2> HIDE DEF g
  <2> HIDE DEF f
  <2> HIDE DEF c
  <2>6. /\ spi'.mode = spi.mode /\ spi'.role = spi.role /\ spi'.tx_size = spi.tx_size
        /\ spi'.cmd_handler = spi.cmd_handler /\ spi'.autofill = spi.autofill
        /\ c.tx_size = spi.tx_size /\ c.tx_idx = spi.tx_idx
        /\ spi'.rx_idx = r.rx_idx /\ spi'.rx_size = r.rx_size /\ spi'.rx_buffer = r.rx_buffer
    BY <2>1, <2>2, <2>4 DEF SpiFields
  <2>7. spi.cmd_handler /\ ~spi.cmd_done /\ spi.resp_size = 0
    BY <1>4 DEF SlaveInv, Shape, Raised
  <2>8. Sane /\ Heard => Heard'
    BY <1>1, <2>1, <2>3, <2>6 DEF Heard, HeardAs
  <2>9. Shape(spi')
    <3>1. "cmd" \notin spi'.ie
      BY <2>1
    <3>2. spi.mode = "block" => {"ssend", "rx", "underrun", "overflow"} \subseteq spi'.ie
      BY <2>1 DEF SlaveInv, Shape
    <3> QED BY <2>1, <2>6, <3>1, <3>2 DEF SlaveInv, Shape
  <2>10. Sane /\ Told => Told'
    <3> SUFFICES ASSUME Sane, Told PROVE Told'
      OBVIOUS
    <3>1. ~Excused(spi) /\ ~Dead
      BY <1>4, <2>7 DEF Excused, Dead, Raised
    <3>2. CASE spi.autofill /\ spi.cmd_handler
      BY <2>6, <3>2 DEF Told
    <3>3. CASE /\ Primed(spi, spiTx, Len(spiWire.heard))
               /\ \A k \in 1..Len(spiWire.heard) : spiWire.heard[k] = AnswerOf(spi, k)
      <4>1. /\ Primed(c, spiTx, Len(spiWire.heard))
            /\ \A k \in 1..Len(spiWire.heard) : AnswerOf(spi, k) = AnswerOf(c, k)
        BY <1>0, <2>4, <2>6, <2>7, <3>3, ResponseFollows
      <4>2. Primed(g.spi, g.fifo, Len(spiWire.heard))
        BY <1>0, <2>5, <4>1
      <4>3. Primed(spi', spiTx', Len(spiWire.heard))
        <5>1. g.spi.cmd_done = spi'.cmd_done
          BY <2>1 DEF SpiTyped
        <5>2. Primed(g.spi, g.fifo, Len(spiWire.heard)) <=> Primed(spi', g.fifo, Len(spiWire.heard))
          BY <2>1, <5>1, PrimedSame
        <5> QED BY <2>1, <4>2, <5>2
      <4>4. \A k : AnswerOf(spi', k) = AnswerOf(c, k)
        BY <2>1, <2>4, <2>6, AnswersSame
      <4> QED BY <1>1, <3>3, <4>1, <4>3, <4>4 DEF Told
    <3> QED BY <3>1, <3>2, <3>3 DEF Told
  <2>11. ~Standby
    BY <1>4 DEF Standby
  <2>12. spiIrq' \subseteq spiIrq /\ ("ssend" \in spiIrq => "ssend" \in spiIrq')
    BY <2>1
  <2> QED BY <1>1, <1>2, <2>6, <2>8, <2>9, <2>10, <2>11, <2>12, IsrGoesOn
<1> QED BY <1>3, <1>4

LEMMA OverflowSlave ==
  ASSUME SpiTypes, SlaveInv, isr_overflow
  PROVE  SlaveInv'
<1>0. SpiTyped(spi)
  BY DEF SpiTypes
<1>1. /\ UNCHANGED <<spiWire, spiBlock, spiUpset>> /\ spiAt = "overflow" /\ spiAt' = "underrun"
  BY DEF isr_overflow, line_
<1>2. Sane => /\ ~spiWire.open /\ "ssend" \notin spiIrq => Standby
              /\ spiWire.open => "ssend" \notin spiIrq /\ Clean /\ Heard /\ Told
              /\ ~spiWire.open /\ "ssend" \in spiIrq => Clean /\ Heard
  BY <1>1, Moments
<1>3. CASE ~Raised("overflow")
  <2>1. UNCHANGED <<spi, spiTx, spiRx, spiIrq>>
    BY <1>3 DEF isr_overflow
  <2>2. Standby' = Standby /\ Heard' = Heard /\ Told' = Told
    BY <1>1, <2>1 DEF Standby, Heard, Told, Raised, Dead
  <2> QED BY <1>1, <1>2, <2>1, <2>2, IsrGoesOn DEF SlaveInv
<1>4. CASE Raised("overflow")
  <2>1. spi' = recover_from_rx_overflow(spi) /\ spiTx' = <<>> /\ spiRx' = <<>> /\ spiIrq' = {}
    BY <1>4 DEF isr_overflow
  <2>2. /\ ~spi'.autofill
        /\ \A g \in SpiFields \ {"overflow", "on", "autofill"} : spi'[g] = spi[g]
    BY <1>0, <2>1, RecoveredTyped
  <2>3. /\ spi'.mode = spi.mode /\ spi'.role = spi.role /\ spi'.ie = spi.ie
        /\ spi'.cmd_handler = spi.cmd_handler /\ spi'.cmd_done = spi.cmd_done
        /\ spi'.resp_size = spi.resp_size /\ spi'.rx_idx = spi.rx_idx
    BY <2>2 DEF SpiFields
  <2>4. ~Clean
    BY <1>4 DEF Clean, Raised
  <2>5. Sane => ~spiWire.open /\ "ssend" \notin spiIrq /\ Standby
    BY <1>2, <2>4
  <2>6. Sane => Standby'
    <3>1. Sane => Dead'
      BY <1>1, <2>1, <2>2, <2>5 DEF Dead
    <3>2. ~Raised("cmd")'
      BY <2>1 DEF Raised
    <3> QED BY <2>1, <2>3, <2>5, <3>1, <3>2 DEF Standby
  <2>7. Shape(spi')
    BY <2>2, <2>3 DEF SlaveInv, Shape
  <2>8. spiIrq' \subseteq spiIrq
    BY <2>1
  <2> QED BY <1>1, <2>3, <2>5, <2>6, <2>7, <2>8, IsrGoesOn
<1> QED BY <1>3, <1>4

LEMMA UnderrunSlave ==
  ASSUME SpiTypes, SlaveInv, isr_underrun
  PROVE  SlaveInv'
<1> DEFINE f == fill_slave_tx_fifo(Rewound, <<>>)
<1>0. SpiTyped(spi)
  BY DEF SpiTypes
<1>1. /\ UNCHANGED <<spiWire, spiBlock, spiUpset>> /\ spiAt = "underrun" /\ spiAt' = "ssend"
  BY DEF isr_underrun, line_
<1>2. Sane => /\ ~spiWire.open /\ "ssend" \notin spiIrq => Standby
              /\ spiWire.open => "ssend" \notin spiIrq /\ Clean /\ Heard /\ Told
              /\ ~spiWire.open /\ "ssend" \in spiIrq => Clean /\ Heard
  BY <1>1, Moments
<1>3. CASE ~Raised("underrun")
  <2>1. UNCHANGED <<spi, spiTx, spiRx, spiIrq>>
    BY <1>3 DEF isr_underrun
  <2>2. Standby' = Standby /\ Heard' = Heard /\ Told' = Told
    BY <1>1, <2>1 DEF Standby, Heard, Told, Raised, Dead
  <2> HIDE DEF f
  <2> QED BY <1>1, <1>2, <2>1, <2>2, IsrGoesOn DEF SlaveInv
<1>4. CASE Raised("underrun")
  <2>1. /\ spiRx' = spiRx /\ spiIrq' = spiIrq \ {"underrun"}
        /\ \A g \in SpiFields \ {"tx_idx", "resp_idx", "count"} : spi'[g] = spi[g]
        /\ spi.mode = "block" => spi' = f.spi /\ spiTx' = f.fifo
    BY <1>4, UnderrunSteps
  <2>2. /\ spi'.mode = spi.mode /\ spi'.role = spi.role /\ spi'.ie = spi.ie
        /\ spi'.cmd_handler = spi.cmd_handler /\ spi'.cmd_done = spi.cmd_done
        /\ spi'.tx_size = spi.tx_size /\ spi'.autofill = spi.autofill
        /\ spi'.resp_size = spi.resp_size /\ spi'.rx_idx = spi.rx_idx
    BY <2>1 DEF SpiFields
  <2>3. ~Clean /\ ~Dead
    BY <1>4 DEF Clean, Raised, Dead
  <2>4. Sane => ~spiWire.open /\ "ssend" \notin spiIrq /\ Standby
    BY <1>2, <2>3
  <2>5. Sane /\ ~Excused(spi) => Primed(spi', spiTx', 0)
    <3> SUFFICES ASSUME Sane, ~Excused(spi) PROVE Primed(spi', spiTx', 0)
      OBVIOUS
    <3>1. ~(spi.resp_size > 0)
      BY <2>4 DEF Standby, Excused
    <3>2. spi.resp_idx = 0
      BY <1>0, <3>1 DEF SpiTyped
    <3>3. SpiTyped(Rewound) /\ Rewound.tx_idx = 0 /\ Rewound.resp_idx = 0
      BY <1>0, <3>2, RewoundTyped DEF SpiFields
    <3>4. Primed(Rewound, <<>>, 0)
      BY <3>3, EmptyIsPrimed
    <3>5. Primed(f.spi, f.fifo, 0)
      BY <3>3, <3>4, EmptyFifo, FillPrimes
    <3>6. spi' = f.spi /\ spiTx' = f.fifo
      BY <2>1 DEF Sane
    <3> HIDE DEF f
    <3> QED BY <3>5, <3>6
  <2> HIDE DEF f
  <2>6. Sane => Standby'
    <3>1. Excused(spi') = Excused(spi)
      BY <2>2 DEF Excused
    <3> QED BY <2>1, <2>2, <2>4, <2>5, <3>1 DEF Standby, Raised
  <2>7. Shape(spi')
    BY <2>2 DEF SlaveInv, Shape
  <2>8. spiIrq' \subseteq spiIrq
    BY <2>1
  <2> QED BY <1>1, <2>2, <2>4, <2>6, <2>7, <2>8, IsrGoesOn
<1> QED BY <1>3, <1>4

LEMMA SsendSlave ==
  ASSUME SpiTypes, SlaveInv, isr_ssend
  PROVE  SlaveInv'
<1> DEFINE r == read_slave_rx_fifo(spi, spiRx)
           t == Restarted(r)
           f == fill_slave_tx_fifo(t, <<>>)
<1>0. /\ SpiTyped(spi) /\ AFifo(spiRx) /\ spiWire.no \in Nat /\ spiWire.sent \in Nat
  BY DEF SpiTypes, WireRecord
<1>1. UNCHANGED <<spiWire, spiUpset>> /\ spiAt = "ssend"
  BY DEF isr_ssend
<1>2. Sane => /\ ~spiWire.open /\ "ssend" \notin spiIrq => Standby
              /\ spiWire.open => "ssend" \notin spiIrq /\ Clean /\ Heard /\ Told
              /\ ~spiWire.open /\ "ssend" \in spiIrq => Clean /\ Heard
  BY <1>1, Moments
<1>3. CASE ~Raised("ssend")
  <2>1. UNCHANGED <<spi, spiTx, spiRx, spiIrq, spiBlock>> /\ spiAt' = "run"
    BY <1>3 DEF isr_ssend
  <2>2. Standby' = Standby /\ Heard' = Heard /\ Told' = Told
    BY <1>1, <2>1 DEF Standby, Heard, Told, Raised, Dead
  <2> HIDE DEF r, t, f
  <2> QED BY <1>1, <1>2, <2>1, <2>2, IsrGoesOn DEF SlaveInv
<1>4. CASE Raised("ssend")
  <2>1. /\ SpiTyped(r) /\ SpiTyped(t)
        /\ spi' = f.spi /\ spiTx' = f.fifo /\ spiRx' = <<>> /\ spiIrq' \subseteq spiIrq
        /\ spi.cmd_handler => "cmd" \notin spiIrq'
        /\ spiAt' = "handled"
        /\ spiBlock' = [last |-> IF spiWire.open THEN spiWire.no - 1 ELSE spiWire.no,
                        size |-> r.rx_idx, data |-> r.rx_buffer]
        /\ \A g \in SpiFields \ {"tx_idx", "resp_idx"} : spi'[g] = t[g]
        /\ \A g \in SpiFields \ {"rx_idx", "rx_buffer"} : r[g] = spi[g]
    BY <1>4, SsendSteps
  <2>2. Sane /\ Heard => /\ r.rx_idx = spiWire.sent
                         /\ r.rx_buffer = [k \in 1..FewerOf(spiWire.sent, spi.rx_size) |-> <<spiWire.no, k>>]
    BY <1>0, ReadHeard DEF Sane, Heard
  <2> HIDE DEF r
  <2>3. /\ t.tx_idx = 0 /\ t.rx_idx = 0
        /\ t.cmd_done = (IF r.cmd_handler THEN FALSE ELSE r.cmd_done)
        /\ t.resp_size = (IF r.cmd_handler THEN 0 ELSE r.resp_size)
        /\ t.resp_idx = (IF r.cmd_handler THEN 0 ELSE r.resp_idx)
        /\ t.ie = (IF r.cmd_handler THEN r.ie \cup {"cmd"} ELSE r.ie)
        /\ \A g \in SpiFields \ {"tx_idx", "rx_idx", "cmd_done", "resp_size", "resp_idx", "ie"} : t[g] = r[g]
    <3>1. SpiTyped(r)
      BY <2>1
    <3> HIDE DEF f
    <3> QED BY ONLY <3>1, RestartedTyped DEF t
  <2>4. SpiTyped(t)
    BY <2>1
  <2>5. t.resp_idx = 0 => Primed(spi', spiTx', 0)
    <3> SUFFICES ASSUME t.resp_idx = 0 PROVE Primed(spi', spiTx', 0)
      OBVIOUS
    <3> HIDE DEF t
    <3>1. Primed(t, <<>>, 0)
      BY <2>3, <2>4, EmptyIsPrimed
    <3>2. Primed(f.spi, f.fifo, 0)
      BY <2>4, <3>1, EmptyFifo, FillPrimes
    <3>3. spi' = f.spi /\ spiTx' = f.fifo
      BY <2>1
    <3> HIDE DEF f
    <3> QED BY <3>2, <3>3
  <2> HIDE DEF t, f
  <2>6. /\ spi'.mode = spi.mode /\ spi'.role = spi.role /\ spi'.tx_size = spi.tx_size
        /\ spi'.cmd_handler = spi.cmd_handler /\ spi'.autofill = spi.autofill
        /\ spi'.rx_idx = 0 /\ spi'.rx_size = spi.rx_size
        /\ spi'.cmd_done = (IF spi.cmd_handler THEN FALSE ELSE spi.cmd_done)
        /\ spi'.resp_size = (IF spi.cmd_handler THEN 0 ELSE spi.resp_size)
        /\ t.resp_idx = (IF spi.cmd_handler THEN 0 ELSE spi.resp_idx)
        /\ spi'.ie = (IF spi.cmd_handler THEN spi.ie \cup {"cmd"} ELSE spi.ie)
    BY <2>1, <2>3 DEF SpiFields
  <2>7. Sane => ~spiWire.open /\ Heard
    BY <1>2, <1>4 DEF Raised
  <2>8. Shape(spi')
    BY <2>6 DEF SlaveInv, Shape
  <2>9. Totals'
    BY <1>0, <1>1, <2>1 DEF SlaveInv, Totals
  <2>10. Stays' /\ Waits'
    BY <2>1 DEF Stays, Waits
  <2>11. Talks'
    BY <1>1, <2>6, <2>7 DEF Talks, Sane
  <2>12. Standby'
    <3>1. ~Raised("cmd")'
      BY <2>1, <2>6 DEF Raised, SlaveInv, Shape
    <3>2. spi'.resp_size > 0 => ~spi'.cmd_handler
      BY <2>6
    <3>3. Excused(spi') \/ Primed(spi', spiTx', 0)
      <4>1. CASE spi.cmd_handler
        BY <2>5, <2>6, <4>1
      <4>2. CASE ~spi.cmd_handler /\ spi.resp_size > 0
        BY <2>6, <4>2 DEF Excused
      <4>3. CASE ~spi.cmd_handler /\ ~(spi.resp_size > 0)
        <5>1. spi.resp_idx = 0
          BY <1>0, <4>3 DEF SpiTyped
        <5> QED BY <2>5, <2>6, <4>3, <5>1
      <4> QED BY <4>1, <4>2, <4>3
    <3> QED BY <2>1, <2>6, <3>1, <3>2, <3>3 DEF Standby
  <2>13. Handles'
    <3>1. spiWire.no = spiBlock'.last => ~spiWire.open
      <4>1. spiBlock'.last = IF spiWire.open THEN spiWire.no - 1 ELSE spiWire.no
        BY <2>1
      <4> QED BY <1>0, <4>1
    <3> QED BY <1>1, <2>12, <3>1 DEF Handles
  <2>14. Hands'
    <3> SUFFICES ASSUME Sane' PROVE /\ spiWire.no = spiBlock'.last /\ spiBlock'.size = spiWire.sent
                                    /\ spiBlock'.data = [k \in 1..FewerOf(spiWire.sent, spi.rx_size) |-> <<spiWire.no, k>>]
      BY <1>1, <2>6 DEF Hands
    <3>1. Sane
      BY <1>1, <2>6 DEF Sane
    <3> QED BY <2>1, <2>2, <2>7, <3>1
  <2> QED BY <2>8, <2>9, <2>10, <2>11, <2>13, <2>14 DEF SlaveInv
<1> QED BY <1>3, <1>4

LEMMA HandledSlave ==
  ASSUME SpiTypes, SlaveInv, isr_handled
  PROVE  SlaveInv'
<1>1. /\ UNCHANGED <<spi, spiTx, spiRx, spiWire, spiBlock>> /\ spiAt = "handled" /\ spiAt' = "run"
      /\ spiIrq' = spiIrq \ {"ssend"}
      /\ spiUpset' = IF spiWire.no = spiBlock.last THEN {} ELSE spiUpset
  BY DEF isr_handled, line_
<1>2. Sane' => ~spiWire.open /\ Standby
  <2> SUFFICES ASSUME Sane' PROVE ~spiWire.open /\ Standby
    OBVIOUS
  <2>1. spiWire.no # spiBlock.last => Sane
    BY <1>1 DEF Sane
  <2>2. spiWire.no = spiBlock.last
    BY <1>1, <2>1 DEF SlaveInv, Hands
  <2> QED BY <1>1, <2>2 DEF SlaveInv, Handles, Sane
<1>3. Standby => Standby'
  <2>1. Dead => Dead'
    BY <1>1 DEF Dead
  <2> QED BY <1>1, <2>1 DEF Standby, Raised
<1>4. Shape(spi') /\ Totals'
  BY <1>1 DEF SlaveInv, Totals
<1>5. Stays' /\ Talks' /\ Waits'
  BY <1>1, <1>2, <1>3 DEF Stays, Talks, Waits
<1>6. Handles' /\ Hands'
  BY <1>1 DEF Handles, Hands
<1> QED BY <1>4, <1>5, <1>6 DEF SlaveInv

LEMMA SelectSlave ==
  ASSUME SpiTypes, SlaveInv, select
  PROVE  SlaveInv'
<1>0. /\ spiWire.no \in Nat /\ spiBlock.last \in Int /\ spi.rx_size \in Nat
  BY DEF SpiTypes, WireRecord, BlockRecord, SpiTyped
<1>1. /\ UNCHANGED <<spi, spiTx, spiRx, spiIrq, spiAt, spiBlock>> /\ ~spiWire.open
      /\ spiWire' = [open |-> TRUE, no |-> spiWire.no + 1, sent |-> 0, heard |-> <<>>]
      /\ spiUpset' = IF Pending \/ spiAt # "run" THEN spiUpset \cup {"late"} ELSE spiUpset
  BY DEF select
<1>2. Shape(spi') /\ Stays' /\ Waits'
  BY <1>1 DEF SlaveInv, Stays, Waits
<1>3. Totals' /\ Handles'
  <2>1. spiBlock.last <= spiWire.no
    BY DEF SlaveInv, Totals
  <2>2. spiWire.no + 1 # spiBlock.last /\ spiBlock.last <= spiWire.no + 1
    BY ONLY <1>0, <2>1
  <2> QED BY <1>1, <2>2, EmptyFifo DEF Totals, Handles
<1>4. Sane' => /\ spiAt = "run" /\ "ssend" \notin spiIrq /\ Clean /\ Standby
  <2> SUFFICES ASSUME Sane' PROVE spiAt = "run" /\ "ssend" \notin spiIrq /\ Clean /\ Standby
    OBVIOUS
  <2>1. spiAt = "run" /\ ~Pending /\ Sane
    BY <1>1 DEF Sane
  <2>2. "ssend" \notin spiIrq /\ Clean
    BY <2>1 DEF Pending, Raised, Clean, Sane, SlaveInv, Shape
  <2> QED BY <1>1, <2>1, <2>2 DEF SlaveInv, Stays
<1>5. Standby => Heard'
  <2> SUFFICES ASSUME Standby PROVE Heard'
    OBVIOUS
  <2>1. spi'.rx_idx = 0 /\ spiRx' = <<>> /\ Len(<<>>) = 0 /\ spiWire'.sent = 0
    BY <1>1, EmptyFifo DEF Standby
  <2>2. FewerOf(0, spi'.rx_size) = 0
    BY <1>0, <1>1 DEF FewerOf
  <2> QED BY <2>1, <2>2 DEF Heard, HeardAs
<1>6. Standby => Told'
  <2>1. spiWire'.heard = <<>> /\ Len(<<>>) = 0
    BY <1>1, EmptyFifo
  <2>2. Dead => Dead'
    BY <1>1, <2>1 DEF Dead
  <2>3. Primed(spi, spiTx, 0) => Primed(spi', spiTx', Len(spiWire'.heard))
    BY <1>1, <2>1
  <2>4. \A k \in 1..Len(spiWire'.heard) : spiWire'.heard[k] = AnswerOf(spi', k)
    BY <2>1
  <2> QED BY <1>1, <2>2, <2>3, <2>4 DEF Standby, Told
<1>7. Talks' /\ Hands'
  <2>1. Clean => Clean'
    BY <1>1 DEF Clean
  <2> QED BY <1>1, <1>4, <1>5, <1>6, <2>1 DEF Talks, Hands
<1> QED BY <1>2, <1>3, <1>7 DEF SlaveInv

LEMMA ReleaseSlave ==
  ASSUME SpiTypes, SlaveInv, release
  PROVE  SlaveInv'
<1>1. /\ UNCHANGED <<spi, spiTx, spiRx, spiAt, spiBlock, spiUpset>> /\ spiWire.open
      /\ spiWire' = [spiWire EXCEPT !.open = FALSE] /\ spiIrq' = spiIrq \cup {"ssend"}
  BY DEF release
<1>2. /\ spiWire'.open = FALSE /\ spiWire'.no = spiWire.no /\ spiWire'.sent = spiWire.sent
      /\ spiWire'.heard = spiWire.heard
  BY <1>1 DEF SpiTypes, WireRecord
<1>3. Shape(spi') /\ Totals' /\ Stays' /\ Talks'
  BY <1>1, <1>2 DEF SlaveInv, Totals, Stays, Talks
<1>4. Sane' => spiAt # "handled" /\ Clean /\ Heard
  BY <1>1 DEF SlaveInv, Talks, Sane
<1>5. Waits' /\ Hands'
  <2>1. (Clean => Clean') /\ (Heard => Heard')
    BY <1>1, <1>2 DEF Clean, Heard
  <2> QED BY <1>1, <1>4, <2>1 DEF Waits, Hands
<1>6. Handles'
  BY <1>1, <1>2 DEF SlaveInv, Handles
<1> QED BY <1>3, <1>5, <1>6 DEF SlaveInv

(* One frame is sent: the rest of what is primed follows it.               *)
LEMMA HeadTold ==
  ASSUME NEW s, NEW fifo, AFifo(fifo), fifo # <<>>, NEW base \in Nat, Primed(s, fifo, base)
  PROVE  Primed(s, Tail(fifo), base + 1) /\ Head(fifo) = AnswerOf(s, base + 1)
<1>1. /\ Tail(fifo) \in Seq(SpiWords) /\ Len(Tail(fifo)) = Len(fifo) - 1 /\ Len(fifo) \in Nat
      /\ Len(fifo) >= 1 /\ Head(fifo) = fifo[1]
      /\ \A k \in 1..Len(fifo) - 1 : Tail(fifo)[k] = fifo[k + 1]
  BY HeadTailProperties, LenProperties, EmptySeq DEF AFifo
<1>2. Standing(s, base + Len(fifo)) /\ \A k \in 1..Len(fifo) : fifo[k] = AnswerOf(s, base + k)
  BY DEF Primed
<1>3. (base + 1) + Len(Tail(fifo)) = base + Len(fifo) /\ 1 \in 1..Len(fifo)
  BY ONLY <1>1, base \in Nat
<1>4. ASSUME NEW k \in 1..Len(Tail(fifo)) PROVE Tail(fifo)[k] = AnswerOf(s, (base + 1) + k)
  <2>1. k + 1 \in 1..Len(fifo) /\ (base + 1) + k = base + (k + 1) /\ k \in 1..Len(fifo) - 1
    BY ONLY <1>1, <1>4, base \in Nat
  <2> QED BY <1>1, <1>2, <2>1
<1>5. Head(fifo) = AnswerOf(s, base + 1)
  BY <1>1, <1>2, <1>3
<1> QED BY <1>2, <1>3, <1>4, <1>5 DEF Primed

(* A zero is owed when neither a buffer nor a response is there.           *)
LEMMA ZeroTold ==
  ASSUME NEW s, s.tx_size = 0, s.resp_size = 0, s.resp_idx = 0, s.tx_idx \in Nat, s.cmd_done,
         NEW base \in Nat
  PROVE  Primed(s, <<>>, base + 1) /\ AnswerOf(s, base + 1) = Zero
<1>1. Len(<<>>) = 0 /\ (base + 1) + 0 = base + 1 /\ base + 1 >= 0 /\ 0 + 0 = 0 /\ ~(base + 1 <= 0)
      /\ ~(s.tx_idx < 0)
  BY EmptyFifo
<1>2. Standing(s, base + 1)
  BY <1>1 DEF Standing
<1> QED BY <1>1, <1>2 DEF Primed, AnswerOf

(* One frame is heard: it goes to the end of the RX FIFO.                  *)
LEMMA FrameHeard ==
  ASSUME NEW s, SpiTyped(s), NEW rx, AFifo(rx), NEW no \in Nat, NEW sent \in Nat,
         HeardAs(s, rx, no, sent)
  PROVE  HeardAs(s, Append(rx, <<no, sent + 1>>), no, sent + 1)
<1> DEFINE w == <<no, sent + 1>>
           q == Append(rx, w)
<1>1. s.rx_idx \in Nat /\ Len(rx) \in Nat /\ rx \in Seq(SpiWords) /\ w \in SpiWords
  BY LenProperties, SpiWordsAre DEF SpiTyped, AFifo
<1>2. /\ Len(q) = Len(rx) + 1 /\ q[Len(rx) + 1] = w
      /\ \A k \in 1..Len(rx) : q[k] = rx[k]
  <2> HIDE DEF w
  <2> QED BY <1>1, AppendProperties
<1> HIDE DEF q
<1>3. /\ s.rx_idx + Len(rx) = sent
      /\ \A k \in 1..Len(rx) : rx[k] = <<no, s.rx_idx + k>>
      /\ \A k \in 1..FewerOf(s.rx_idx, s.rx_size) : s.rx_buffer[k] = <<no, k>>
  BY DEF HeardAs
<1>4. ASSUME NEW k \in 1..Len(q) PROVE q[k] = <<no, s.rx_idx + k>>
  <2>1. CASE k = Len(rx) + 1
    <3>1. s.rx_idx + Len(rx) = sent /\ s.rx_idx \in Nat /\ Len(rx) \in Nat
      BY <1>1, <1>3
    <3>2. s.rx_idx + k = sent + 1
      BY ONLY <2>1, <3>1
    <3> QED BY <1>2, <2>1, <3>2
  <2>2. CASE k # Len(rx) + 1
    <3>1. k \in 1..Len(rx)
      BY ONLY <1>1, <1>2, <1>4, <2>2
    <3> QED BY <1>2, <1>3, <3>1
  <2> QED BY <2>1, <2>2
<1>5. s.rx_idx + Len(q) = sent + 1
  BY <1>1, <1>2, <1>3
<1> QED BY <1>3, <1>4, <1>5 DEF HeardAs, q

LEMMA ClockSlave ==
  ASSUME SpiTypes, SlaveInv, clock
  PROVE  SlaveInv'
<1> DEFINE n    == spiWire.sent + 1
           L    == Len(spiWire.heard)
           lost == Len(spiRx) = FifoFrames
           dry  == spiTx = <<>> /\ ~spi.autofill
           w    == IF spiTx # <<>> THEN Head(spiTx) ELSE IF dry THEN <<"nothing", 0>> ELSE Zero
           more == (IF n % spi.count = 0 THEN {"rx", "tx"} ELSE {})
                     \cup (IF n = spi.cmd_size THEN {"cmd"} ELSE {})
<1>0. /\ SpiTyped(spi) /\ AFifo(spiTx) /\ AFifo(spiRx) /\ spiWire.no \in Nat /\ spiWire.sent \in Nat
      /\ spiWire.heard \in Seq(SpiWords) /\ spiWire \in WireRecord /\ L \in Nat
  BY LenProperties DEF SpiTypes, WireRecord
<1>1. /\ UNCHANGED <<spiAt, spiBlock>> /\ spiWire.open /\ n <= MaxFrames
      /\ spiWire' = [spiWire EXCEPT !.sent = n, !.heard = Append(spiWire.heard, w)]
      /\ spiTx' = (IF spiTx = <<>> THEN spiTx ELSE Tail(spiTx))
      /\ spiRx' = (IF lost THEN spiRx ELSE Append(spiRx, <<spiWire.no, n>>))
      /\ spi' = [spi EXCEPT !.overflow = spi.overflow \/ lost]
      /\ ~lost /\ ~dry => spiIrq' = spiIrq \cup more
      /\ spiUpset' = spiUpset \cup (IF lost THEN {"overflow"} ELSE {})
                              \cup (IF dry THEN {"underrun"} ELSE {})
  BY DEF clock
<1>2. w \in SpiWords
  BY <1>0, FifoTails, SpiWordsAre
<1>3. /\ "ssend" \notin more /\ "overflow" \notin more /\ "underrun" \notin more
  OBVIOUS
<1> HIDE DEF more
<1>4. /\ Append(spiWire.heard, w) \in Seq(SpiWords) /\ Len(Append(spiWire.heard, w)) = L + 1
      /\ Append(spiWire.heard, w)[L + 1] = w
      /\ \A k \in 1..L : Append(spiWire.heard, w)[k] = spiWire.heard[k]
  <2> HIDE DEF w
  <2> QED BY <1>0, <1>2, AppendProperties
<1>5. /\ spiWire'.open /\ spiWire'.no = spiWire.no /\ spiWire'.sent = n
      /\ spiWire'.heard = Append(spiWire.heard, w)
  <2> HIDE DEF w, n
  <2> QED BY <1>0, <1>1 DEF WireRecord
<1>6. \A g \in SpiFields \ {"overflow"} : spi'[g] = spi[g]
  <2> HIDE DEF lost
  <2> QED BY <1>0, <1>1 DEF SpiTyped, IsSpi, SpiFields
<1>7. /\ spi'.mode = spi.mode /\ spi'.role = spi.role /\ spi'.ie = spi.ie
      /\ spi'.tx_size = spi.tx_size /\ spi'.tx_idx = spi.tx_idx /\ spi'.resp_size = spi.resp_size
      /\ spi'.resp_idx = spi.resp_idx /\ spi'.cmd_done = spi.cmd_done
      /\ spi'.cmd_handler = spi.cmd_handler /\ spi'.autofill = spi.autofill
      /\ spi'.rx_idx = spi.rx_idx /\ spi'.rx_size = spi.rx_size /\ spi'.rx_buffer = spi.rx_buffer
  BY <1>6 DEF SpiFields
<1>8. Sane' => /\ Sane /\ ~lost /\ ~dry /\ spiAt # "handled" /\ "ssend" \notin spiIrq
               /\ Clean /\ Heard /\ Told
  <2>1. Sane' => Sane /\ ~lost /\ ~dry
    <3> HIDE DEF w, n
    <3> QED BY <1>1, <1>7 DEF Sane
  <2> QED BY <1>1, <2>1 DEF SlaveInv, Talks
<1>9. Shape(spi')
  BY <1>7 DEF SlaveInv, Shape
<1>10. Totals'
  <2>1. spiWire.sent = L /\ spiBlock.last <= spiWire.no
    BY DEF SlaveInv, Totals
  <2>2. spiWire'.sent = Len(spiWire'.heard)
    <3> HIDE DEF w
    <3> QED BY <1>4, <1>5, <2>1
  <2> QED BY <1>1, <1>5, <2>1, <2>2 DEF Totals
<1>11. Stays' /\ Waits'
  BY <1>5 DEF Stays, Waits
<1>12. Handles' /\ Hands'
  <2>1. Handles'
    BY <1>1, <1>5 DEF SlaveInv, Handles
  <2>2. Hands'
    BY <1>1, <1>8 DEF Hands
  <2> QED BY <2>1, <2>2
<1>13. Sane' => Heard'
  <2> SUFFICES ASSUME Sane' PROVE Heard'
    OBVIOUS
  <2>1. HeardAs(spi, Append(spiRx, <<spiWire.no, n>>), spiWire.no, n)
    BY <1>0, <1>8, FrameHeard DEF Heard
  <2>2. spiRx' = Append(spiRx, <<spiWire.no, n>>)
    BY <1>1, <1>8
  <2> HIDE DEF n
  <2> QED BY <1>5, <1>7, <2>1, <2>2 DEF Heard, HeardAs
<1>14. Sane' => Told'
  <2> SUFFICES ASSUME Sane' PROVE Told'
    OBVIOUS
  <2>1. Sane /\ ~dry /\ Told
    BY <1>8
  <2>2. Excused(spi) => Excused(spi')
    BY <1>7 DEF Excused
  <2>3. ~Dead
    BY <2>1 DEF Dead
  <2>4. CASE Excused(spi) \/ (spi.autofill /\ spi.cmd_handler)
    BY <1>7, <2>2, <2>4 DEF Told
  <2>5. CASE /\ ~Excused(spi) /\ ~(spi.autofill /\ spi.cmd_handler)
             /\ Primed(spi, spiTx, L) /\ \A k \in 1..L : spiWire.heard[k] = AnswerOf(spi, k)
    <3>1. Primed(spi, spiTx', L + 1) /\ w = AnswerOf(spi, L + 1)
      <4>1. CASE spiTx # <<>>
        <5>1. Primed(spi, Tail(spiTx), L + 1) /\ Head(spiTx) = AnswerOf(spi, L + 1)
          BY <1>0, <2>5, <4>1, HeadTold
        <5> QED BY <1>1, <4>1, <5>1
      <4>2. CASE spiTx = <<>>
        <5>1. spi.autofill /\ ~spi.cmd_handler
          BY <2>1, <2>5, <4>2
        <5>2. spi.tx_size = 0 /\ spi.cmd_done
          BY <2>1, <5>1 DEF SlaveInv, Shape, Sane
        <5>3. spi.resp_size = 0 /\ spi.resp_idx = 0 /\ spi.tx_idx \in Nat
          <6>1. ~(spi.resp_size > 0)
            BY <2>5, <5>1 DEF Excused
          <6> QED BY <1>0, <6>1 DEF SpiTyped
        <5>4. Primed(spi, <<>>, L + 1) /\ AnswerOf(spi, L + 1) = Zero
          BY <1>0, <5>2, <5>3, ZeroTold
        <5> QED BY <1>1, <2>1, <4>2, <5>4
      <4> QED BY <4>1, <4>2
    <3> HIDE DEF w
    <3>2. Primed(spi', spiTx', L + 1)
      BY <1>7, <3>1, PrimedSame
    <3>3. \A k : AnswerOf(spi', k) = AnswerOf(spi, k)
      BY <1>7, AnswersSame
    <3>4. Len(spiWire'.heard) = L + 1
      BY <1>4, <1>5
    <3>5. ASSUME NEW k \in 1..L + 1 PROVE spiWire'.heard[k] = AnswerOf(spi', k)
      <4>1. CASE k = L + 1
        BY <1>4, <1>5, <3>1, <3>3, <4>1
      <4>2. CASE k # L + 1
        <5>1. k \in 1..L
          BY <1>0, <4>2
        <5> QED BY <1>4, <1>5, <2>5, <3>3, <5>1
      <4> QED BY <4>1, <4>2
    <3> QED BY <3>2, <3>4, <3>5 DEF Told
  <2> QED BY <2>1, <2>3, <2>4, <2>5 DEF Told
<1>15. Talks'
  <2>1. Sane' => Clean' /\ "ssend" \notin spiIrq'
    BY <1>1, <1>3, <1>8 DEF Clean
  <2> QED BY <1>1, <1>8, <1>13, <1>14, <2>1 DEF Talks
<1> QED BY <1>9, <1>10, <1>11, <1>12, <1>15 DEF SlaveInv

(* Outside block mode the invariant asks little.                           *)
LEMMA NotBlock ==
  ASSUME SlaveInv, UNCHANGED <<spiWire, spiBlock>>, Shape(spi'), spi'.mode # "block",
         spiAt' = "handled" => spiAt = "handled"
  PROVE  SlaveInv'
<1>1. ~Sane'
  BY DEF Sane
<1>2. Stays' /\ Talks' /\ Waits' /\ Hands'
  BY <1>1 DEF Stays, Talks, Waits, Hands
<1>3. Totals' /\ Handles'
  BY DEF SlaveInv, Totals, Handles
<1> QED BY <1>2, <1>3 DEF SlaveInv

LEMMA MasterSlave ==
  ASSUME SpiTypes, MasterInv, SlaveInv, SpiMaster
  PROVE  SlaveInv'
<1>0. SpiTyped(spi) /\ IsSpi(spi)
  BY DEF SpiTypes, SpiTyped
<1>1. spi.role = "master" /\ UNCHANGED <<spiWire, spiBlock>> /\ (spiAt' = "handled" => spiAt = "handled")
  BY DEF MasterInv, InFlight, InTransfer, OneFrame, SpiMaster, MSS_SPI_transfer_block, drain, feed,
         MSS_SPI_transfer_frame, exchange, line_
<1>2. \A g \in SpiFields \ {"overflow", "on", "autofill", "count"} : spi'[g] = spi[g]
  <2>1. ASSUME NEW cmd \in 0..MaxTransfer, NEW rd \in 0..MaxTransfer, MSS_SPI_transfer_block(cmd, rd)
        PROVE  \A g \in SpiFields \ {"overflow", "on", "autofill", "count"} : spi'[g] = spi[g]
    <3> DEFINE s == IF spi.overflow THEN recover_from_rx_overflow(spi) ELSE spi
               c == IF cmd + rd = 0 THEN 1 ELSE cmd + rd
    <3>1. spi' = [s EXCEPT !.count = c, !.on = TRUE]
      BY <2>1 DEF MSS_SPI_transfer_block
    <3>2. IsSpi(s) /\ \A g \in SpiFields \ {"overflow", "on", "autofill"} : s[g] = spi[g]
      BY <1>0, RecoveredTyped DEF SpiTyped
    <3> HIDE DEF s, c
    <3> QED BY <3>1, <3>2 DEF IsSpi, SpiFields
  <2>2. CASE drain \/ feed
    BY <2>2 DEF drain, feed
  <2>3. CASE MSS_SPI_transfer_frame \/ exchange
    <3>1. spi' = spi \/ spi' = [spi EXCEPT !.count = 1] \/ spi' = [spi EXCEPT !.overflow = TRUE]
      BY <2>3 DEF MSS_SPI_transfer_frame, exchange
    <3> QED BY ONLY <1>0, <3>1 DEF IsSpi, SpiFields
  <2> QED BY <2>1, <2>2, <2>3 DEF SpiMaster
<1>3. /\ spi'.role = spi.role /\ spi'.mode = spi.mode /\ spi'.ie = spi.ie
      /\ spi'.cmd_handler = spi.cmd_handler /\ spi'.cmd_done = spi.cmd_done
      /\ spi'.resp_size = spi.resp_size
  BY <1>2 DEF SpiFields
<1>4. spi'.mode # "block" /\ Shape(spi')
  BY <1>1, <1>3 DEF SlaveInv, Shape
<1> QED BY <1>1, <1>4, NotBlock

(* A setup that upsets nothing finds the driver at rest.                   *)
LEMMA SetupSlave ==
  ASSUME SpiTypes, SlaveInv, NEW s, Setup(s), Shape(spi'),
         /\ spiUpset = {} /\ ~spiWire.open /\ ~Pending /\ spi.resp_size = 0 /\ spi.resp_idx = 0
         /\ spi'.mode = "block"
         => "ssend" \notin spiIrq' /\ Standby'
  PROVE  SlaveInv'
<1>1. /\ UNCHANGED <<spiAt, spiWire, spiBlock>> /\ spiAt = "run"
      /\ spiUpset' = IF spiWire.open \/ Pending \/ spi.resp_size > 0 THEN spiUpset \cup {"midway"}
                     ELSE spiUpset
  BY DEF Setup
<1>2. ~(spi.resp_size > 0) => spi.resp_size = 0 /\ spi.resp_idx = 0
  BY DEF SpiTypes, SpiTyped
<1>3. Sane' => ~spiWire.open /\ "ssend" \notin spiIrq' /\ Standby'
  <2>1. Sane' => spiUpset = {} /\ ~spiWire.open /\ ~Pending /\ ~(spi.resp_size > 0)
    BY <1>1 DEF Sane
  <2> QED BY <1>2, <2>1 DEF Sane
<1>4. Stays' /\ Talks' /\ Waits'
  BY <1>1, <1>3 DEF Stays, Talks, Waits
<1>5. Totals' /\ Handles' /\ Hands'
  BY <1>1 DEF SlaveInv, Totals, Handles, Hands
<1> QED BY <1>4, <1>5 DEF SlaveInv

(* What it finds, when the mode was the block mode already.                *)
LEMMA AtRest ==
  ASSUME SlaveInv, spiUpset = {}, ~spiWire.open, ~Pending, spi.mode = "block", spiAt = "run"
  PROVE  "ssend" \notin spiIrq /\ Standby
<1>1. "ssend" \notin spiIrq
  BY DEF Pending, Raised, SlaveInv, Shape
<1> QED BY <1>1 DEF SlaveInv, Stays, Sane

LEMMA FirstFillPrimes ==
  ASSUME NEW s, NEW tx \in Nat, NEW n \in 0..FifoFrames, SpiTyped(s),
         s.tx_size = tx, s.resp_size = 0, s.resp_idx = 0,
         s.tx_idx = (IF n = FifoFrames THEN n ELSE n + 1),
         n = (IF tx >= FifoFrames \/ s.cmd_done THEN FifoFrames ELSE tx)
  PROVE  Primed(s, FirstFill(tx, n), 0)
<1>1. /\ Len(FirstFill(tx, n)) = n /\ n \in Nat /\ n <= FifoFrames /\ FifoFrames \in Nat
      /\ \A k \in 1..n : FirstFill(tx, n)[k] = IF k <= tx THEN <<"tx", k>> ELSE Zero
  BY FirstFillIs, SpiNumbers
<1>2. Standing(s, n)
  <2>1. CASE tx >= FifoFrames
    <3>1. n = FifoFrames /\ s.tx_idx = FifoFrames
      BY <2>1
    <3>2. (tx = FifoFrames => n = tx + 0) /\ (tx # FifoFrames => s.tx_idx < tx)
      BY ONLY <1>1, <2>1, <3>1, tx \in Nat
    <3>3. tx = FifoFrames => ~(s.tx_idx < tx) /\ n >= tx
      BY ONLY <1>1, <3>1
    <3> QED BY <3>1, <3>2, <3>3 DEF Standing
  <2>2. CASE ~(tx >= FifoFrames) /\ s.cmd_done
    <3>1. n = FifoFrames /\ s.tx_idx = FifoFrames
      BY <2>2
    <3>2. ~(s.tx_idx < tx) /\ n >= tx /\ n >= tx + 0
      BY ONLY <1>1, <2>2, <3>1, tx \in Nat
    <3> QED BY <2>2, <3>2 DEF Standing
  <2>3. CASE ~(tx >= FifoFrames) /\ ~s.cmd_done
    <3>1. n = tx
      BY <2>3
    <3>2. s.tx_idx = tx + 1
      BY ONLY <1>1, <2>3, <3>1, tx \in Nat, s.tx_idx = (IF n = FifoFrames THEN n ELSE n + 1)
    <3>3. ~(s.tx_idx < tx) /\ n >= tx /\ n = tx + 0
      BY ONLY <3>1, <3>2, tx \in Nat
    <3> QED BY <3>3 DEF Standing
  <2> QED BY <2>1, <2>2, <2>3
<1>3. ASSUME NEW k \in 1..n PROVE FirstFill(tx, n)[k] = AnswerOf(s, 0 + k)
  <2>1. 0 + k = k /\ tx + 0 = tx
    BY <1>1
  <2> QED BY <1>1, <2>1 DEF AnswerOf
<1>4. 0 + n = n
  BY <1>1
<1> QED BY <1>1, <1>2, <1>3, <1>4 DEF Primed

LEMMA BlockBuffersSlave ==
  ASSUME SpiTypes, SlaveInv, NEW tx \in Nat, NEW rx \in Nat, MSS_SPI_set_slave_block_buffers(tx, rx)
  PROVE  SlaveInv'
<1> DEFINE done == ~spi.cmd_handler
           most == IF tx >= FifoFrames \/ done THEN FifoFrames ELSE tx
<1>1. /\ SpiTyped(spi') /\ spi'.role = "slave" /\ spi'.mode = "block"
      /\ spi'.cmd_handler = spi.cmd_handler /\ spi'.cmd_done = done
      /\ spi'.rx_idx = 0
      /\ spi'.tx_size = tx /\ spi'.tx_idx = (IF most = FifoFrames THEN most ELSE most + 1)
      /\ spi'.resp_size = spi.resp_size /\ spi'.resp_idx = spi.resp_idx
      /\ spi'.autofill = (tx = 0)
      /\ {"ssend", "rx", "underrun", "overflow"} \subseteq spi'.ie
      /\ "cmd" \in spi'.ie => "cmd" \in spi.ie /\ ~done
      /\ spiTx' = FirstFill(tx, most) /\ spiRx' = <<>> /\ most \in 0..FifoFrames
      /\ spiIrq' \subseteq spiIrq \ {"ssend"}
  BY BlockBuffersSteps
<1> HIDE DEF most
<1>2. Shape(spi')
  BY <1>1 DEF SlaveInv, Shape
<1>3. ASSUME ~Pending, spi.resp_size = 0, spi.resp_idx = 0
      PROVE  Standby'
  <2>1. ~Raised("cmd")'
    BY <1>1, <1>3 DEF Pending, Raised
  <2>2. Primed(spi', spiTx', 0)
    <3>1. most = IF tx >= FifoFrames \/ spi'.cmd_done THEN FifoFrames ELSE tx
      BY <1>1 DEF most
    <3>2. spi'.resp_size = 0 /\ spi'.resp_idx = 0
      BY <1>1, <1>3
    <3>3. Primed(spi', FirstFill(tx, most), 0)
      BY <1>1, <3>1, <3>2, FirstFillPrimes
    <3> QED BY <1>1, <3>3
  <2> QED BY <1>1, <1>3, <2>1, <2>2 DEF Standby
<1>4. "ssend" \notin spiIrq'
  BY <1>1
<1>5. \E s : Setup(s)
  BY DEF MSS_SPI_set_slave_block_buffers
<1> QED BY <1>2, <1>3, <1>4, <1>5, SetupSlave

LEMMA CmdHandlerSlave ==
  ASSUME SpiTypes, SlaveInv, spi.role = "slave", NEW size \in Nat, MSS_SPI_set_cmd_handler(size)
  PROVE  SlaveInv'
<1>0. SpiTyped(spi) /\ (\E s : Setup(s)) /\ UNCHANGED spiWire /\ spiAt = "run"
  BY DEF SpiTypes, MSS_SPI_set_cmd_handler, Setup
<1>1. CASE size = 0
  <2>1. /\ SpiTyped(spi') /\ spi'.cmd_done /\ ~spi'.cmd_handler
        /\ spi'.ie = spi.ie \ {"cmd"} /\ spi'.resp_size = 0 /\ spi'.resp_idx = 0
        /\ \A g \in SpiFields \ {"resp_size", "resp_idx", "cmd_size", "cmd_done", "cmd_handler",
                                 "ie", "setups"} : spi'[g] = spi[g]
        /\ UNCHANGED <<spiTx, spiRx, spiIrq>>
    BY <1>1, CmdHandlerSteps
  <2>2. /\ spi'.mode = spi.mode /\ spi'.role = spi.role /\ spi'.tx_size = spi.tx_size
        /\ spi'.tx_idx = spi.tx_idx /\ spi'.rx_idx = spi.rx_idx /\ spi'.autofill = spi.autofill
    BY <2>1 DEF SpiFields
  <2>3. Shape(spi')
    BY <2>1, <2>2 DEF SlaveInv, Shape
  <2>4. ASSUME Standby, ~spiWire.open, spi.resp_size = 0, spi.resp_idx = 0 PROVE Standby'
    <3>1. ~Raised("cmd")'
      BY <2>1 DEF Raised
    <3>2. Dead => Dead'
      BY <1>0, <2>1, <2>2 DEF Dead
    <3>3. Primed(spi, spiTx, 0) => Primed(spi', spiTx', 0)
      <4>1. \A n : Standing(spi, n) => Standing(spi', n)
        BY <2>1, <2>2, <2>4 DEF Standing
      <4>2. \A k : AnswerOf(spi', k) = AnswerOf(spi, k)
        BY <2>1, <2>2, <2>4, AnswersSame
      <4> QED BY <2>1, <4>1, <4>2 DEF Primed
    <3>4. ~Excused(spi)
      BY <2>4 DEF Excused
    <3> QED BY <2>1, <2>2, <2>4, <3>1, <3>2, <3>3, <3>4 DEF Standby
  <2>5. spiUpset = {} /\ ~spiWire.open /\ ~Pending /\ spi.resp_size = 0 /\ spi.resp_idx = 0
        /\ spi'.mode = "block" => "ssend" \notin spiIrq' /\ Standby'
    BY <1>0, <2>1, <2>2, <2>4, AtRest
  <2> QED BY <1>0, <2>3, <2>5, SetupSlave
<1>2. CASE size # 0
  <2> DEFINE f == fill_slave_tx_fifo(Commanded(size), <<>>)
  <2>1. /\ SpiTyped(spi') /\ spiTx' = f.fifo /\ spiRx' = <<>>
        /\ spiIrq' = spiIrq \ {"cmd"} /\ spi'.ie = spi.ie \cup {"cmd"}
        /\ \A g \in SpiFields \ {"ie", "setups"} : spi'[g] = f.spi[g]
        /\ ~spi'.cmd_done /\ spi'.cmd_handler /\ spi'.resp_size = 0
        /\ \A g \in {"mode", "role", "autofill", "tx_size", "rx_idx", "rx_size"} : spi'[g] = spi[g]
    BY <1>2, CmdHandlerSteps
  <2>2. Primed(f.spi, f.fifo, 0)
    <3> HIDE DEF f
    <3>1. /\ SpiTyped(Commanded(size)) /\ Commanded(size).resp_idx = 0 /\ Commanded(size).tx_idx = 0
      BY CommandedTyped
    <3>2. Primed(Commanded(size), <<>>, 0)
      BY <3>1, EmptyIsPrimed
    <3> QED BY <3>1, <3>2, EmptyFifo, FillPrimes DEF f
  <2> HIDE DEF f
  <2>3. /\ spi'.mode = spi.mode /\ spi'.role = spi.role /\ spi'.tx_size = spi.tx_size
        /\ spi'.rx_idx = spi.rx_idx /\ spi'.autofill = spi.autofill
        /\ f.spi.tx_size = spi'.tx_size /\ f.spi.resp_size = spi'.resp_size
        /\ f.spi.tx_idx = spi'.tx_idx /\ f.spi.resp_idx = spi'.resp_idx
        /\ f.spi.cmd_done = spi'.cmd_done
    BY <2>1 DEF SpiFields
  <2>4. Shape(spi')
    BY <2>1, <2>3 DEF SlaveInv, Shape
  <2>5. Primed(spi', spiTx', 0)
    BY <2>1, <2>2, <2>3, PrimedSame
  <2>6. Standby => Standby'
    <3>1. ~Raised("cmd")'
      BY <2>1 DEF Raised
    <3> QED BY <2>1, <2>3, <2>5, <3>1 DEF Standby
  <2>7. spiUpset = {} /\ ~spiWire.open /\ ~Pending /\ spi.resp_size = 0 /\ spi.resp_idx = 0
        /\ spi'.mode = "block" => "ssend" \notin spiIrq' /\ Standby'
    BY <1>0, <2>1, <2>3, <2>6, AtRest
  <2> QED BY <1>0, <2>4, <2>7, SetupSlave
<1> QED BY <1>1, <1>2

(* The calls that enable, disable or time the controller leave it at rest. *)
LEMMA KeptAtRest ==
  ASSUME SpiTypes, SlaveInv, NEW s, Setup(s), UNCHANGED <<spiTx, spiRx, spiIrq>>,
         \A g \in SpiFields \ {"on", "nvic", "count", "setups"} : spi'[g] = spi[g]
  PROVE  SlaveInv'
<1>1. /\ spi'.mode = spi.mode /\ spi'.role = spi.role /\ spi'.ie = spi.ie
      /\ spi'.tx_size = spi.tx_size /\ spi'.tx_idx = spi.tx_idx /\ spi'.resp_size = spi.resp_size
      /\ spi'.resp_idx = spi.resp_idx /\ spi'.cmd_done = spi.cmd_done
      /\ spi'.cmd_handler = spi.cmd_handler /\ spi'.autofill = spi.autofill
      /\ spi'.rx_idx = spi.rx_idx
  BY DEF SpiFields
<1>2. Shape(spi')
  BY <1>1 DEF SlaveInv, Shape
<1>3. Standby => Standby'
  <2>1. Dead => Dead'
    BY <1>1 DEF Dead, Setup
  <2>2. Primed(spi, spiTx, 0) => Primed(spi', spiTx', 0)
    BY <1>1, PrimedSame
  <2> QED BY <1>1, <2>1, <2>2 DEF Standby, Excused, Raised
<1>4. spiAt = "run"
  BY DEF Setup
<1>5. spiUpset = {} /\ ~spiWire.open /\ ~Pending /\ spi.resp_size = 0 /\ spi.resp_idx = 0
      /\ spi'.mode = "block" => "ssend" \notin spiIrq' /\ Standby'
  BY <1>1, <1>3, <1>4, AtRest
<1> QED BY <1>2, <1>5, SetupSlave

LEMMA SetupsSlave ==
  ASSUME SpiTypes, SlaveInv, SpiSetups
  PROVE  SlaveInv'
<1>0. SpiTyped(spi) /\ IsSpi(spi)
  BY DEF SpiTypes, SpiTyped
<1>1. CASE MSS_SPI_init
  <2>1. spi' = [Unset EXCEPT !.setups = spi.setups + 1] /\ UNCHANGED <<spiWire, spiBlock, spiAt>>
    BY <1>1 DEF MSS_SPI_init, Setup
  <2>2. Shape(spi') /\ spi'.mode # "block"
    BY <2>1 DEF Shape, Unset
  <2> QED BY <2>1, <2>2, NotBlock
<1>2. CASE MSS_SPI_configure_slave_mode
  <2>1. /\ spi' = [spi EXCEPT !.role = "slave", !.mode = "none", !.on = TRUE, !.nvic = TRUE, !.count = 1,
                              !.setups = spi.setups + 1]
        /\ UNCHANGED <<spiWire, spiBlock, spiAt>>
    BY <1>0, <1>2 DEF MSS_SPI_configure_slave_mode, Setup, IsSpi, SpiFields
  <2>2. /\ spi'.role = "slave" /\ spi'.mode = "none" /\ spi'.ie = spi.ie
        /\ spi'.cmd_handler = spi.cmd_handler /\ spi'.cmd_done = spi.cmd_done
        /\ spi'.resp_size = spi.resp_size
    BY ONLY <1>0, <2>1 DEF IsSpi, SpiFields
  <2>3. Shape(spi')
    BY <2>2 DEF SlaveInv, Shape
  <2> QED BY <2>1, <2>2, <2>3, NotBlock
<1>3. ASSUME NEW sl \in SpiSlaves, MSS_SPI_configure_master_mode(sl) PROVE SlaveInv'
  <2>1. /\ spi' = [spi EXCEPT !.role = "master", !.mode = "none", !.on = TRUE, !.nvic = TRUE,
                              !.slaves = spi.slaves \cup {sl}, !.setups = spi.setups + 1]
        /\ UNCHANGED <<spiWire, spiBlock, spiAt>>
    BY <1>0, <1>3 DEF MSS_SPI_configure_master_mode, Setup, IsSpi, SpiFields
  <2>2. /\ spi'.mode = "none" /\ spi'.ie = spi.ie
        /\ spi'.cmd_handler = spi.cmd_handler /\ spi'.cmd_done = spi.cmd_done
        /\ spi'.resp_size = spi.resp_size
    BY ONLY <1>0, <2>1 DEF IsSpi, SpiFields
  <2>3. Shape(spi')
    BY <2>2 DEF SlaveInv, Shape
  <2> QED BY <2>1, <2>2, <2>3, NotBlock
<1>4. ASSUME NEW sl \in SpiSlaves, MSS_SPI_set_slave_select(sl) \/ MSS_SPI_clear_slave_select(sl)
      PROVE  SlaveInv'
  <2> DEFINE s == IF spi.overflow THEN recover_from_rx_overflow(spi) ELSE spi
  <2>1. /\ spi.role = "master" /\ UNCHANGED <<spiWire, spiBlock, spiAt>>
        /\ \/ spi' = [s EXCEPT !.on = TRUE, !.ie = s.ie \ CONTROL_irqs, !.count = 1,
                               !.selected = s.selected \cup {sl}]
           \/ spi' = [s EXCEPT !.selected = s.selected \ {sl}]
    BY <1>4 DEF MSS_SPI_set_slave_select, MSS_SPI_clear_slave_select, line_
  <2>2. IsSpi(s) /\ \A g \in SpiFields \ {"overflow", "on", "autofill"} : s[g] = spi[g]
    BY <1>0, RecoveredTyped DEF SpiTyped
  <2> HIDE DEF s
  <2>3. /\ spi'.role = s.role /\ spi'.mode = s.mode /\ spi'.ie \subseteq s.ie
        /\ spi'.cmd_handler = s.cmd_handler /\ spi'.cmd_done = s.cmd_done
        /\ spi'.resp_size = s.resp_size
    <3>1. CASE spi' = [s EXCEPT !.on = TRUE, !.ie = s.ie \ CONTROL_irqs, !.count = 1,
                                !.selected = s.selected \cup {sl}]
      <4>1. spi'.ie = s.ie \ CONTROL_irqs
        BY ONLY <2>2, <3>1 DEF IsSpi, SpiFields
      <4> QED BY ONLY <2>2, <3>1, <4>1 DEF IsSpi, SpiFields
    <3>2. CASE spi' = [s EXCEPT !.selected = s.selected \ {sl}]
      BY ONLY <2>2, <3>2 DEF IsSpi, SpiFields
    <3> QED BY ONLY <2>1, <3>1, <3>2
  <2>4. /\ s.role = spi.role /\ s.mode = spi.mode /\ s.ie = spi.ie
        /\ s.cmd_handler = spi.cmd_handler /\ s.cmd_done = spi.cmd_done
        /\ s.resp_size = spi.resp_size
    BY <2>2 DEF SpiFields
  <2>5. Shape(spi') /\ spi'.mode # "block"
    BY <2>1, <2>3, <2>4 DEF SlaveInv, Shape
  <2> QED BY <2>1, <2>5, NotBlock
<1>5. CASE MSS_SPI_set_frame_rx_handler \/ MSS_SPI_set_slave_tx_frame
  <2>1. /\ spi.role = "slave" /\ UNCHANGED <<spiWire, spiBlock, spiAt>>
    BY <1>5 DEF MSS_SPI_set_frame_rx_handler, MSS_SPI_set_slave_tx_frame, Setup
  <2>2. spi'.role = "slave" /\ spi'.mode = "frame" /\ "cmd" \notin spi'.ie
    <3>1. CASE MSS_SPI_set_frame_rx_handler
      <4> DEFINE auto == spi.autofill \/ spiTx = <<>>
                 ie == (spi.ie \ {"cmd", "ssend"}) \cup {"underrun", "overflow", "rx"}
      <4>1. spi' = [spi EXCEPT !.mode = "frame", !.cmd_handler = FALSE, !.count = 1,
                               !.autofill = auto, !.ie = ie, !.setups = spi.setups + 1]
        BY <1>0, <3>1 DEF MSS_SPI_set_frame_rx_handler, Setup, IsSpi, SpiFields
      <4>2. "cmd" \notin ie
        OBVIOUS
      <4> HIDE DEF auto, ie
      <4>3. spi'.role = spi.role /\ spi'.mode = "frame" /\ spi'.ie = ie
        BY ONLY <1>0, <4>1 DEF IsSpi, SpiFields
      <4> QED BY <2>1, <4>2, <4>3
    <3>2. CASE MSS_SPI_set_slave_tx_frame
      <4> DEFINE ie == (spi.ie \ {"cmd", "ssend"}) \cup {"underrun", "overflow", "tx"}
      <4>1. spi' = [spi EXCEPT !.mode = "frame", !.cmd_handler = FALSE, !.count = 1,
                               !.autofill = FALSE, !.tx_size = 0, !.tx_idx = 0, !.ie = ie,
                               !.setups = spi.setups + 1]
        BY <1>0, <3>2 DEF MSS_SPI_set_slave_tx_frame, Setup, IsSpi, SpiFields
      <4>2. "cmd" \notin ie
        OBVIOUS
      <4> HIDE DEF ie
      <4>3. spi'.role = spi.role /\ spi'.mode = "frame" /\ spi'.ie = ie
        BY ONLY <1>0, <4>1 DEF IsSpi, SpiFields
      <4> QED BY <2>1, <4>2, <4>3
    <3> QED BY <1>5, <3>1, <3>2
  <2>3. Shape(spi')
    BY <2>2 DEF Shape
  <2> QED BY <2>1, <2>2, <2>3, NotBlock
<1>6. CASE MSS_SPI_enable \/ MSS_SPI_disable \/ MSS_SPI_set_transfer_byte_count(MaxFrames)
  <2>1. /\ UNCHANGED <<spiTx, spiRx, spiIrq>>
        /\ \/ spi' = [spi EXCEPT !.on = TRUE, !.nvic = TRUE, !.setups = spi.setups + 1]
           \/ spi' = [spi EXCEPT !.on = FALSE, !.nvic = TRUE, !.setups = spi.setups + 1]
           \/ spi' = [spi EXCEPT !.count = MaxFrames, !.on = TRUE, !.nvic = TRUE,
                                 !.setups = spi.setups + 1]
    BY <1>0, <1>6 DEF MSS_SPI_enable, MSS_SPI_disable, MSS_SPI_set_transfer_byte_count, Setup,
                      IsSpi, SpiFields
  <2>2. \A g \in SpiFields \ {"on", "nvic", "count", "setups"} : spi'[g] = spi[g]
    BY ONLY <1>0, <2>1 DEF IsSpi, SpiFields
  <2>3. \E s : Setup(s)
    BY <1>6 DEF MSS_SPI_enable, MSS_SPI_disable, MSS_SPI_set_transfer_byte_count
  <2> QED BY <2>1, <2>2, <2>3, KeptAtRest
<1>7. ASSUME NEW tx \in SpiSizes, NEW rx \in SpiSizes \ {0}, MSS_SPI_set_slave_block_buffers(tx, rx)
      PROVE  SlaveInv'
  <2>1. tx \in Nat /\ rx \in Nat
    BY SpiNumbers
  <2> QED BY <1>7, <2>1, BlockBuffersSlave
<1>8. ASSUME NEW size \in 0..1, spi.role = "slave", MSS_SPI_set_cmd_handler(size)
      PROVE  SlaveInv'
  <2>1. size \in Nat
    OBVIOUS
  <2> QED BY <1>8, <2>1, CmdHandlerSlave
<1> QED BY <1>1, <1>2, <1>3, <1>4, <1>5, <1>6, <1>7, <1>8 DEF SpiSetups

LEMMA SlaveStarts == SpiInit => SlaveInv
<1> SUFFICES ASSUME SpiInit PROVE SlaveInv
  OBVIOUS
<1>1. /\ spi = Unset /\ spiAt = "run"
      /\ spiWire = [open |-> FALSE, no |-> 0, sent |-> 0, heard |-> <<>>]
      /\ spiBlock = [last |-> 0, size |-> 0, data |-> <<>>]
  BY DEF SpiInit
<1>2. Shape(spi) /\ ~Sane
  BY <1>1 DEF Shape, Unset, Sane
<1>3. Totals
  BY <1>1, EmptyFifo DEF Totals
<1> QED BY <1>1, <1>2, <1>3 DEF SlaveInv, Stays, Talks, Waits, Handles, Hands

LEMMA SlaveSteps == SpiTypes /\ MasterInv /\ SlaveInv /\ [SpiNext]_spiVars => SlaveInv'
<1> SUFFICES ASSUME SpiTypes, MasterInv, SlaveInv, [SpiNext]_spiVars PROVE SlaveInv'
  OBVIOUS
<1>1. CASE SpiIsr
  <2>1. ASSUME NEW size \in 0..1, isr_cmd(size) PROVE SlaveInv'
    <3>1. size \in Nat
      OBVIOUS
    <3> QED BY <2>1, <3>1, CmdSlave
  <2> QED BY <1>1, <2>1, EnterSlave, RxdoneSlave, TxdoneSlave, OverflowSlave, UnderrunSlave,
             SsendSlave, HandledSlave DEF SpiIsr
<1>2. CASE UNCHANGED spiVars
  <2>1. UNCHANGED <<spi, spiTx, spiRx, spiIrq, spiAt, spiWire, spiBlock, spiUpset>>
    BY <1>2 DEF spiVars
  <2>2. Standby' = Standby /\ Heard' = Heard /\ Told' = Told /\ Sane' = Sane /\ Clean' = Clean
    BY <2>1 DEF Standby, Heard, Told, Sane, Clean, Raised, Dead
  <2> QED BY <2>1, <2>2 DEF SlaveInv, Totals, Stays, Talks, Waits, Handles, Hands
<1> QED BY <1>1, <1>2, SetupsSlave, MasterSlave, SelectSlave, ClockSlave, ReleaseSlave DEF SpiNext

LEMMA SlaveHolds == SpiTypes /\ SlaveInv => RecoversAtRelease
<1> SUFFICES ASSUME SpiTypes, SlaveInv, spi.role = "slave", Sane
             PROVE  /\ spiWire.open /\ ~(spi.autofill /\ spi.cmd_handler)
                         /\ (spi.resp_size > 0 => spi.cmd_handler)
                         => \A k \in DOMAIN spiWire.heard : spiWire.heard[k] = Answer(k)
                    /\ spiAt = "handled" =>
                         /\ spiBlock.size = spiWire.sent
                         /\ spiBlock.data = [k \in 1..FewerOf(spiWire.sent, spi.rx_size) |-> <<spiWire.no, k>>]
  BY DEF RecoversAtRelease, Sane
<1>1. DOMAIN spiWire.heard = 1..Len(spiWire.heard)
  BY LenProperties DEF SpiTypes, WireRecord
<1>2. \A k : Answer(k) = AnswerOf(spi, k)
  BY DEF Answer, AnswerOf
<1>3. ASSUME spiWire.open, ~(spi.autofill /\ spi.cmd_handler), spi.resp_size > 0 => spi.cmd_handler
      PROVE  \A k \in DOMAIN spiWire.heard : spiWire.heard[k] = Answer(k)
  <2>1. Told /\ ~Excused(spi)
    BY <1>3 DEF SlaveInv, Talks, Excused
  <2>2. CASE Dead
    <3>1. spiWire.heard = <<>>
      BY <1>3, <2>2 DEF Dead
    <3> QED BY <1>1, <3>1, EmptyFifo
  <2>3. CASE ~Dead
    BY <1>1, <1>2, <1>3, <2>1, <2>3 DEF Told
  <2> QED BY <2>2, <2>3
<1> QED BY <1>3 DEF SlaveInv, Hands

(* Whatever the sizes of the FIFOs, of the buffers and of the transactions,*)
(* and whenever the master at the other end clocks, releases and selects   *)
(* while the interrupt handler runs: the master reads the answers to what  *)
(* it sent, and a slave in block mode tells what it owes and hands over    *)
(* what it heard, except around an overrun, a late handling of a release   *)
(* or a configuration in the middle, and again once the next release is    *)
(* handled.                                                                *)
THEOREM SpiAlwaysSound == SpiSpec => []SpiSound
<1>1. SpiInit => MasterInv /\ SpiTypes /\ SlaveInv
  BY MasterStarts, SpiTypesStart, SlaveStarts
<1>2. MasterInv /\ SpiTypes /\ SlaveInv /\ [SpiNext]_spiVars => (MasterInv /\ SpiTypes /\ SlaveInv)'
  BY MasterSteps, SpiTypesSteps, SlaveSteps
<1>3. MasterInv /\ SpiTypes /\ SlaveInv => SpiSound
  BY MasterHolds, SlaveHolds DEF SpiSound
<1> QED BY <1>1, <1>2, <1>3, PTL DEF SpiSpec
=============================================================================
