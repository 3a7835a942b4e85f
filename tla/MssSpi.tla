------------------------------- MODULE MssSpi -------------------------------
(***************************************************************************)
(* The SPI controllers of the MSS and their driver (mss_spi.c).            *)
(*                                                                         *)
(* As a master, the driver polls: it keeps feeding frames while fewer than *)
(* the RX FIFO holds are in flight, and reads what the slave answers.  As  *)
(* a slave, its interrupt handler reads the RX FIFO, refills the TX FIFO   *)
(* from the caller's buffer and from the response to a command, and starts *)
(* over when the master releases the slave select.                         *)
(*                                                                         *)
(* A frame the slave hears is <<transaction, position>>; one it answers is *)
(* <<"tx", position>>, <<"resp", position>> or Zero.   A frame of the     *)
(* master is its position, and so is its answer.                           *)
(***************************************************************************)
EXTENDS Integers, Sequences

CONSTANTS
  FifoFrames,     \* BIG_FIFO_SIZE
  RxFrames,       \* RX_FIFO_SIZE, at most FifoFrames
  MaxTransfer,    \* bound on the frames of a transfer of the master
  MaxFrames,      \* bound on the frames of a transaction a slave hears
  SpiSizes,       \* the sizes of the buffers of a slave
  MaxTransactions,\* bound on the transactions the other side starts
  MaxSetups       \* bound on the calls that configure the driver

ASSUME SpiAssumption ==
  /\ {FifoFrames, RxFrames} \subseteq Nat \ {0} /\ RxFrames <= FifoFrames /\ 2 <= FifoFrames
  /\ {MaxTransfer, MaxFrames, MaxTransactions, MaxSetups} \cup SpiSizes \subseteq Nat

VARIABLES
  spi,      \* mss_spi_instance_t and the registers it configures
  spiTx,    \* the TX FIFO
  spiRx,    \* the RX FIFO
  spiIrq,   \* the raw interrupts
  spiAt,    \* where the driver is: "run" in its callers
  spiXfer,  \* the locals of MSS_SPI_transfer_block
  spiWire,  \* history: the transaction of the master at the other end
  spiBlock, \* history: what the last block handler was given
  spiUpset  \* history: what went wrong since the last release was handled

spiVars == <<spi, spiTx, spiRx, spiIrq, spiAt, spiXfer, spiWire, spiBlock, spiUpset>>
line_ == <<spiXfer, spiWire, spiBlock>>

Zero == <<"zero", 0>>

(* slave_tx_frame, the one frame of the frame mode. *)
Frame == <<"frame", 0>>

FewerOf(a, b) == IF a < b THEN a ELSE b

Unset == [role |-> "reset", on |-> FALSE, nvic |-> FALSE, mode |-> "none", count |-> 1,
          ie |-> {}, autofill |-> FALSE, slaves |-> {}, selected |-> {}, overflow |-> FALSE,
          tx_size |-> 0, tx_idx |-> 0, rx_size |-> 0, rx_idx |-> 0, rx_buffer |-> <<>>,
          cmd_handler |-> FALSE, cmd_size |-> 0, cmd_done |-> TRUE, resp_size |-> 0, resp_idx |-> 0,
          setups |-> 0]

CONTROL_irqs == {"rx", "tx", "overflow", "underrun"}

(* The reset of recover_from_rx_overflow empties the FIFOs and forgets     *)
(* every interrupt; the registers are put back, COMMAND excepted.          *)
recover_from_rx_overflow(s) == [s EXCEPT !.overflow = FALSE, !.on = TRUE, !.autofill = FALSE]

(* fill_slave_tx_fifo: the buffer, then the response, then, once there is  *)
(* no command to wait for, zeros.                                          *)
fill_slave_tx_fifo(s, fifo) ==
  LET room == FifoFrames - Len(fifo)
      left == IF s.tx_idx < s.tx_size THEN s.tx_size - s.tx_idx ELSE 0
      a    == FewerOf(room, left)
      b    == IF a = left THEN FewerOf(room - a, s.resp_size - s.resp_idx) ELSE 0
      z    == IF s.cmd_done /\ a = left /\ b = s.resp_size - s.resp_idx THEN room - a - b ELSE 0
  IN  [spi  |-> [s EXCEPT !.tx_idx = @ + a, !.resp_idx = @ + b],
       fifo |-> fifo \o [k \in 1..a |-> <<"tx", s.tx_idx + k>>]
                     \o [k \in 1..b |-> <<"resp", s.resp_idx + k>>] \o [k \in 1..z |-> Zero]]

(* read_slave_rx_fifo counts the frames the buffer has no room for too. *)
read_slave_rx_fifo(s, fifo) ==
  IF s.mode # "block" THEN s
  ELSE [s EXCEPT !.rx_idx = @ + Len(fifo),
                 !.rx_buffer = SubSeq(SubSeq(@, 1, FewerOf(s.rx_idx, s.rx_size)) \o fifo, 1,
                                      FewerOf(s.rx_idx + Len(fifo), s.rx_size))]

Raised(i) == i \in spiIrq /\ i \in spi.ie

Pending == \E i \in spi.ie : Raised(i)

----------------------------------------------------------------------------
(* The calls that configure the driver, with its interrupt off: the other  *)
(* end does not hear of it, and a transaction it is in the middle of is    *)
(* upset; so is the next one by a response that no release took back, as   *)
(* none does in frame mode.  A controller keeps its role until the next    *)
(* MSS_SPI_init.                                                           *)

Setup(s) ==
  /\ spiAt = "run" /\ spi.setups < MaxSetups
  /\ spi' = [s EXCEPT !.setups = spi.setups + 1]
  /\ spiUpset' = IF spiWire.open \/ Pending \/ spi.resp_size > 0 THEN spiUpset \cup {"midway"}
               ELSE spiUpset
  /\ UNCHANGED <<spiAt, spiXfer, spiWire, spiBlock>>

MSS_SPI_init ==
  /\ Setup(Unset) /\ spiTx' = <<>> /\ spiRx' = <<>> /\ spiIrq' = {}

MSS_SPI_configure_slave_mode ==
  /\ spi.role # "master"
  /\ Setup([spi EXCEPT !.role = "slave", !.mode = "none", !.on = TRUE, !.nvic = TRUE, !.count = 1])
  /\ UNCHANGED <<spiTx, spiRx, spiIrq>>

MSS_SPI_configure_master_mode(slave) ==
  /\ spi.role # "slave"
  /\ Setup([spi EXCEPT !.role = "master", !.mode = "none", !.on = TRUE, !.nvic = TRUE,
                       !.slaves = @ \cup {slave}])
  /\ UNCHANGED <<spiTx, spiRx, spiIrq>>

(* CONTROL, and with it the interrupts it enables, becomes that of the     *)
(* slave; other slaves stay selected.                                      *)
MSS_SPI_set_slave_select(slave) ==
  /\ spi.role = "master" /\ slave \in spi.slaves \ spi.selected
  /\ spiAt = "run"
  /\ spi' = [(IF spi.overflow THEN recover_from_rx_overflow(spi) ELSE spi)
               EXCEPT !.on = TRUE, !.ie = @ \ CONTROL_irqs, !.count = 1,
                      !.selected = @ \cup {slave}]
  /\ UNCHANGED <<spiTx, spiRx, spiIrq, spiAt, spiUpset, line_>>

MSS_SPI_clear_slave_select(slave) ==
  /\ spi.role = "master" /\ slave \in spi.selected
  /\ spiAt = "run"
  /\ spi' = [(IF spi.overflow THEN recover_from_rx_overflow(spi) ELSE spi)
               EXCEPT !.selected = @ \ {slave}]
  /\ UNCHANGED <<spiTx, spiRx, spiIrq, spiAt, spiUpset, line_>>

MSS_SPI_set_frame_rx_handler ==
  /\ spi.role = "slave"
  /\ Setup([spi EXCEPT !.mode = "frame", !.cmd_handler = FALSE, !.count = 1,
                       !.autofill = @ \/ spiTx = <<>>,
                       !.ie = (@ \ {"cmd", "ssend"}) \cup {"underrun", "overflow", "rx"}])
  /\ spiIrq' = spiIrq \ {"underrun", "overflow", "rx"}
  /\ UNCHANGED <<spiTx, spiRx>>

MSS_SPI_set_slave_tx_frame ==
  /\ spi.role = "slave"
  /\ Setup([spi EXCEPT !.mode = "frame", !.cmd_handler = FALSE, !.count = 1, !.autofill = FALSE,
                       !.tx_size = 0, !.tx_idx = 0,
                       !.ie = (@ \ {"cmd", "ssend"}) \cup {"underrun", "overflow", "tx"}])
  /\ spiTx' = <<Frame>>
  /\ spiIrq' = spiIrq \ {"underrun", "overflow", "tx"}
  /\ UNCHANGED spiRx

(* The first fill is not fill_slave_tx_fifo: it knows of no response, and  *)
(* its index runs on past the buffer.  The interrupt is raised every half  *)
(* FIFO.                                                                   *)
MSS_SPI_set_slave_block_buffers(tx, rx) ==
  LET done == ~spi.cmd_handler
      most == IF tx >= FifoFrames \/ done THEN FifoFrames ELSE tx
  IN  /\ spi.role = "slave"
      /\ Setup([spi EXCEPT
           !.mode = "block", !.cmd_done = done, !.overflow = FALSE, !.on = TRUE,
           !.rx_size = rx, !.rx_idx = 0, !.rx_buffer = <<>>,
           !.tx_size = tx, !.tx_idx = IF most = FifoFrames THEN most ELSE most + 1,
           !.count = FifoFrames \div 2, !.autofill = (tx = 0),
           !.ie = (IF done THEN @ \ {"cmd"} ELSE @) \cup {"ssend", "rx", "underrun", "overflow"}
                    \cup (IF tx > 0 THEN {"tx"} ELSE {})])
      /\ spiTx' = [k \in 1..most |-> IF k <= tx THEN <<"tx", k>> ELSE Zero]
      /\ spiRx' = <<>>
      /\ spiIrq' = IF spi.overflow THEN {}
                   ELSE spiIrq \ {"ssend", "underrun", "overflow", "rx", IF tx > 0 THEN "tx" ELSE "rx"}

(* A handler of size 0 is none. *)
MSS_SPI_set_cmd_handler(size) ==
  LET s == [spi EXCEPT !.resp_size = 0, !.resp_idx = 0, !.cmd_size = size]
      f == fill_slave_tx_fifo([s EXCEPT !.cmd_done = FALSE, !.cmd_handler = TRUE, !.tx_idx = 0], <<>>)
  IN  IF size = 0
      THEN /\ Setup([s EXCEPT !.cmd_done = TRUE, !.cmd_handler = FALSE, !.ie = @ \ {"cmd"}])
           /\ UNCHANGED <<spiTx, spiRx, spiIrq>>
      ELSE /\ Setup([f.spi EXCEPT !.ie = @ \cup {"cmd"}])
           /\ spiTx' = f.fifo /\ spiRx' = <<>> /\ spiIrq' = spiIrq \ {"cmd"}

MSS_SPI_enable == ~spi.on /\ Setup([spi EXCEPT !.on = TRUE, !.nvic = TRUE]) /\ UNCHANGED <<spiTx, spiRx, spiIrq>>

MSS_SPI_disable == spi.on /\ Setup([spi EXCEPT !.on = FALSE, !.nvic = TRUE]) /\ UNCHANGED <<spiTx, spiRx, spiIrq>>

MSS_SPI_set_transfer_byte_count(n) ==
  Setup([spi EXCEPT !.count = n, !.on = TRUE, !.nvic = TRUE]) /\ UNCHANGED <<spiTx, spiRx, spiIrq>>

----------------------------------------------------------------------------
(* The transfers of the master. *)

(* No more frames are in flight than the RX FIFO has room for. *)
MayFeed(x) == x.transit < RxFrames

Fed(x) == [x EXCEPT !.tx_idx = @ + 1, !.transit = @ + 1]

MSS_SPI_transfer_block(cmd, rd) ==
  LET x == [kind |-> "block", cmd |-> cmd, rd |-> rd, tx_idx |-> 0, transfer_idx |-> 0, transit |-> 0,
            rd_buffer |-> <<>>]
      s == IF spi.overflow THEN recover_from_rx_overflow(spi) ELSE spi
  IN  /\ spi.role = "master" /\ spi.selected # {} /\ spiAt = "run"
      /\ spi' = [s EXCEPT !.count = IF cmd + rd = 0 THEN 1 ELSE cmd + rd, !.on = TRUE]
      /\ spiXfer' = IF cmd + rd > 0 THEN Fed(x) ELSE x
      /\ spiTx' = IF cmd + rd > 0 THEN <<1>> ELSE <<>>
      /\ spiRx' = <<>>
      /\ spiAt' = IF cmd + rd > 0 THEN "drain" ELSE "run"
      /\ UNCHANGED <<spiIrq, spiWire, spiBlock, spiUpset>>

drain ==
  /\ spiAt = "drain" /\ spiAt' = "feed"
  /\ spiXfer' = IF spiRx = <<>> THEN spiXfer
                ELSE [spiXfer EXCEPT
                        !.transfer_idx = @ + 1, !.transit = @ - 1,
                        !.rd_buffer = IF spiXfer.transfer_idx >= spiXfer.cmd /\ Len(@) < spiXfer.rd
                                      THEN Append(@, Head(spiRx)) ELSE @]
  /\ spiRx' = IF spiRx = <<>> THEN spiRx ELSE Tail(spiRx)
  /\ UNCHANGED <<spi, spiTx, spiIrq, spiWire, spiBlock, spiUpset>>

feed ==
  LET feeds == Len(spiTx) < FifoFrames /\ MayFeed(spiXfer) /\ spiXfer.tx_idx < spiXfer.cmd + spiXfer.rd
  IN  /\ spiAt = "feed"
      /\ spiXfer' = IF feeds THEN Fed(spiXfer) ELSE spiXfer
      /\ spiTx' = IF feeds THEN Append(spiTx, spiXfer.tx_idx + 1) ELSE spiTx
      /\ spiAt' = IF spiXfer.transfer_idx < spiXfer.cmd + spiXfer.rd THEN "drain" ELSE "run"
      /\ UNCHANGED <<spi, spiRx, spiIrq, spiWire, spiBlock, spiUpset>>

(* One frame is sent and its answer waited for. *)
MSS_SPI_transfer_frame ==
  \/ /\ spi.role = "master" /\ spi.selected # {} /\ spiAt = "run"
     /\ spi' = [spi EXCEPT !.count = 1]
     /\ spiXfer' = [spiXfer EXCEPT !.kind = "frame", !.rd = 1, !.cmd = 0, !.rd_buffer = <<>>]
     /\ spiTx' = <<1>> /\ spiRx' = <<>> /\ spiAt' = "frame"
     /\ UNCHANGED <<spiIrq, spiWire, spiBlock, spiUpset>>
  \/ /\ spiAt = "frame" /\ spiTx = <<>> /\ spiRx # <<>>
     /\ spiXfer' = [spiXfer EXCEPT !.rd_buffer = <<Head(spiRx)>>]
     /\ spiRx' = Tail(spiRx) /\ spiAt' = "run"
     /\ UNCHANGED <<spi, spiTx, spiIrq, spiWire, spiBlock, spiUpset>>

(* External: a frame is shifted out, and its answer in. *)
exchange ==
  /\ spi.role = "master" /\ spi.on /\ spiTx # <<>>
  /\ spiTx' = Tail(spiTx)
  /\ IF Len(spiRx) < RxFrames
     THEN spiRx' = Append(spiRx, Head(spiTx)) /\ UNCHANGED spi
     ELSE spi' = [spi EXCEPT !.overflow = TRUE] /\ UNCHANGED spiRx
  /\ UNCHANGED <<spiIrq, spiAt, spiUpset, line_>>

----------------------------------------------------------------------------
(* mss_spi_isr: the sources in the order it looks at them, each of them    *)
(* read when its turn comes.                                               *)

isr_enter ==
  /\ spiAt = "run" /\ spi.role = "slave" /\ spi.nvic /\ Pending
  /\ spiAt' = "rxdone"
  /\ UNCHANGED <<spi, spiTx, spiRx, spiIrq, spiUpset, line_>>

isr_rxdone ==
  /\ spiAt = "rxdone" /\ spiAt' = "txdone"
  /\ IF Raised("rx")
     THEN spi' = read_slave_rx_fifo(spi, spiRx) /\ spiRx' = <<>> /\ spiIrq' = spiIrq \ {"rx"}
     ELSE UNCHANGED <<spi, spiRx, spiIrq>>
  /\ UNCHANGED <<spiTx, spiUpset, line_>>

isr_txdone ==
  LET f == fill_slave_tx_fifo(spi, spiTx)
  IN  /\ spiAt = "txdone" /\ spiAt' = "cmd"
      /\ IF ~Raised("tx") THEN UNCHANGED <<spi, spiTx, spiIrq>>
         ELSE /\ spiIrq' = spiIrq \ {"tx"}
              /\ IF spi.mode # "frame" THEN spi' = f.spi /\ spiTx' = f.fifo
                 ELSE /\ spiTx' = IF Len(spiTx) < FifoFrames THEN Append(spiTx, Frame) ELSE spiTx
                      /\ UNCHANGED spi
      /\ UNCHANGED <<spiRx, spiUpset, line_>>

(* What the command handler is documented to do: queue its response. *)
MSS_SPI_set_cmd_response(s, fifo, size) ==
  fill_slave_tx_fifo([s EXCEPT !.resp_size = size, !.resp_idx = 0, !.cmd_done = TRUE], fifo)

isr_cmd(size) ==
  LET r == MSS_SPI_set_cmd_response(read_slave_rx_fifo(spi, spiRx), spiTx, size)
      f == fill_slave_tx_fifo(r.spi, r.fifo)
  IN  /\ spiAt = "cmd" /\ spiAt' = "overflow"
      /\ IF ~Raised("cmd") THEN size = 0 /\ UNCHANGED <<spi, spiTx, spiRx, spiIrq>>
         ELSE /\ spi' = [f.spi EXCEPT !.cmd_done = TRUE, !.ie = @ \ {"cmd"}]
              /\ spiTx' = f.fifo /\ spiRx' = <<>> /\ spiIrq' = spiIrq \ {"cmd"}
      /\ UNCHANGED <<spiUpset, line_>>

(* The reset of the block forgets a release that is not handled yet. *)
isr_overflow ==
  /\ spiAt = "overflow" /\ spiAt' = "underrun"
  /\ IF Raised("overflow")
     THEN spi' = recover_from_rx_overflow(spi) /\ spiTx' = <<>> /\ spiRx' = <<>> /\ spiIrq' = {}
     ELSE UNCHANGED <<spi, spiTx, spiRx, spiIrq>>
  /\ UNCHANGED <<spiUpset, line_>>

isr_underrun ==
  LET f == fill_slave_tx_fifo([spi EXCEPT !.tx_idx = 0], <<>>)
  IN  /\ spiAt = "underrun" /\ spiAt' = "ssend"
      /\ IF ~Raised("underrun") THEN UNCHANGED <<spi, spiTx, spiIrq>>
         ELSE /\ spiIrq' = spiIrq \ {"underrun"}
              /\ CASE spi.mode = "frame" -> spiTx' = <<Frame>> /\ spi' = [spi EXCEPT !.count = 1]
                   [] spi.mode = "block" -> spiTx' = f.fifo /\ spi' = f.spi
                   [] OTHER -> spiTx' = <<>> /\ UNCHANGED spi
      /\ UNCHANGED <<spiRx, spiUpset, line_>>

Bug_Restarted(s) ==
  [s EXCEPT !.cmd_done = ~s.cmd_handler, !.resp_size = 0, !.resp_idx = 0,
            !.rx_idx = 0, !.ie = IF s.cmd_handler THEN @ \cup {"cmd"} ELSE @]

(* What the handling of a release resets.  cmd_done stays set when there   *)
(* is no command handler: whoever takes the handler away sets it.          *)
Restarted(s) ==
  [s EXCEPT !.cmd_done = IF s.cmd_handler THEN FALSE ELSE @,
            !.resp_size = IF s.cmd_handler THEN 0 ELSE @,
            !.resp_idx = IF s.cmd_handler THEN 0 ELSE @,
            !.ie = IF s.cmd_handler THEN @ \cup {"cmd"} ELSE @,
            !.tx_idx = 0, !.rx_idx = 0]

isr_ssend ==
  LET s == read_slave_rx_fifo(spi, spiRx)
      f == fill_slave_tx_fifo(Restarted(s), <<>>)
  IN  /\ spiAt = "ssend"
      /\ IF ~Raised("ssend")
         THEN spiAt' = "run" /\ UNCHANGED <<spi, spiTx, spiRx, spiIrq, spiBlock>>
         ELSE /\ spiAt' = "handled"
              /\ spi' = f.spi /\ spiTx' = f.fifo /\ spiRx' = <<>>
              /\ spiIrq' = IF s.cmd_handler THEN spiIrq \ {"cmd"} ELSE spiIrq
              /\ spiBlock' = [last |-> IF spiWire.open THEN spiWire.no - 1 ELSE spiWire.no,
                              size |-> s.rx_idx, data |-> s.rx_buffer]
      /\ UNCHANGED <<spiXfer, spiWire, spiUpset>>

(* The block handler has run; a release that came meanwhile is cleared too.*)
isr_handled ==
  /\ spiAt = "handled" /\ spiAt' = "run"
  /\ spiIrq' = spiIrq \ {"ssend"}
  /\ spiUpset' = IF spiWire.no = spiBlock.last THEN {} ELSE spiUpset
  /\ UNCHANGED <<spi, spiTx, spiRx, line_>>

----------------------------------------------------------------------------
(* The master at the other end (external). *)

select ==
  /\ spi.role = "slave" /\ spi.on /\ spi.mode # "none"
  /\ ~spiWire.open /\ spiWire.no < MaxTransactions
  /\ spiWire' = [open |-> TRUE, no |-> spiWire.no + 1, sent |-> 0, heard |-> <<>>]
  /\ spiUpset' = IF Pending \/ spiAt # "run" THEN spiUpset \cup {"late"} ELSE spiUpset
  /\ UNCHANGED <<spi, spiTx, spiRx, spiIrq, spiAt, spiXfer, spiBlock>>

clock ==
  LET n    == spiWire.sent + 1
      lost == Len(spiRx) = FifoFrames
      dry  == spiTx = <<>> /\ ~spi.autofill
  IN  /\ spi.role = "slave" /\ spi.on /\ spiWire.open /\ n <= MaxFrames
      /\ spiWire' = [spiWire EXCEPT !.sent = n,
                       !.heard = Append(@, IF spiTx # <<>> THEN Head(spiTx)
                                           ELSE IF dry THEN <<"nothing", 0>> ELSE Zero)]
      /\ spiTx' = IF spiTx = <<>> THEN spiTx ELSE Tail(spiTx)
      /\ spiRx' = IF lost THEN spiRx ELSE Append(spiRx, <<spiWire.no, n>>)
      /\ spi' = [spi EXCEPT !.overflow = @ \/ lost]
      /\ spiIrq' = spiIrq \cup (IF n % spi.count = 0 THEN {"rx", "tx"} ELSE {})
                          \cup (IF n = spi.cmd_size THEN {"cmd"} ELSE {})
                          \cup (IF lost THEN {"overflow"} ELSE {})
                          \cup (IF dry THEN {"underrun"} ELSE {})
      /\ spiUpset' = spiUpset \cup (IF lost THEN {"overflow"} ELSE {})
                              \cup (IF dry THEN {"underrun"} ELSE {})
      /\ UNCHANGED <<spiAt, spiXfer, spiBlock>>

release ==
  /\ spiWire.open
  /\ spiWire' = [spiWire EXCEPT !.open = FALSE]
  /\ spiIrq' = spiIrq \cup {"ssend"}
  /\ UNCHANGED <<spi, spiTx, spiRx, spiAt, spiXfer, spiBlock, spiUpset>>

----------------------------------------------------------------------------
SpiSlaves == {"SLAVE_0", "SLAVE_1"}

SpiInit ==
  /\ spi = Unset /\ spiTx = <<>> /\ spiRx = <<>> /\ spiIrq = {} /\ spiAt = "run"
  /\ spiXfer = [kind |-> "none", cmd |-> 0, rd |-> 0, tx_idx |-> 0, transfer_idx |-> 0, transit |-> 0,
                rd_buffer |-> <<>>]
  /\ spiWire = [open |-> FALSE, no |-> 0, sent |-> 0, heard |-> <<>>]
  /\ spiBlock = [last |-> 0, size |-> 0, data |-> <<>>]
  /\ spiUpset = {}

SpiSetups ==
  \/ MSS_SPI_init \/ MSS_SPI_configure_slave_mode
  \/ \E sl \in SpiSlaves : \/ MSS_SPI_configure_master_mode(sl)
                            \/ MSS_SPI_set_slave_select(sl) \/ MSS_SPI_clear_slave_select(sl)
  \/ MSS_SPI_set_frame_rx_handler \/ MSS_SPI_set_slave_tx_frame
  \/ \E tx \in SpiSizes, rx \in SpiSizes \ {0} : MSS_SPI_set_slave_block_buffers(tx, rx)
  \/ \E size \in 0..1 : spi.role = "slave" /\ MSS_SPI_set_cmd_handler(size)
  \/ MSS_SPI_enable \/ MSS_SPI_disable
  \/ spi.role = "slave" /\ MSS_SPI_set_transfer_byte_count(MaxFrames)

SpiMaster ==
  \/ \E cmd, rd \in 0..MaxTransfer : cmd + rd <= MaxTransfer /\ MSS_SPI_transfer_block(cmd, rd)
  \/ drain \/ feed \/ MSS_SPI_transfer_frame \/ exchange

SpiIsr ==
  \/ isr_enter \/ isr_rxdone \/ isr_txdone \/ \E size \in 0..1 : isr_cmd(size)
  \/ isr_overflow \/ isr_underrun \/ isr_ssend \/ isr_handled

SpiNext == SpiSetups \/ SpiMaster \/ SpiIsr \/ select \/ clock \/ release

SpiSpec == SpiInit /\ [][SpiNext]_spiVars

----------------------------------------------------------------------------
(* Properties. *)

SpiTypeOK ==
  /\ spi.role \in {"reset", "slave", "master"} /\ spi.mode \in {"none", "frame", "block"}
  /\ spi.ie \subseteq CONTROL_irqs \cup {"cmd", "ssend"} /\ spi.selected \subseteq spi.slaves
  /\ Len(spiTx) <= FifoFrames /\ Len(spiRx) <= FifoFrames
  /\ Len(spi.rx_buffer) <= spi.rx_size /\ spi.resp_idx <= spi.resp_size

(* MSS_SPI_transfer_block, which polls two FIFOs the wire empties and      *)
(* fills meanwhile, returns the answers to the frames that follow the      *)
(* command, each of them once: the RX FIFO never overflows on the way.     *)
ReadsItsAnswer ==
  /\ spiAt \in {"drain", "feed"} => ~spi.overflow
  /\ spiAt = "run" => spiXfer.rd_buffer = [k \in 1..spiXfer.rd |-> spiXfer.cmd + k]

(* The k-th frame a slave in block mode owes to the master. *)
Answer(k) ==
  IF k <= spi.tx_size THEN <<"tx", k>>
  ELSE IF k <= spi.tx_size + spi.resp_size THEN <<"resp", k - spi.tx_size>> ELSE Zero

(* Unless a transaction overran a FIFO, began before the release of the    *)
(* one before was handled, or was there when the driver was configured,    *)
(* the master hears the buffer, the response and zeros, in this order, and *)
(* the block handler is given what it sent; and the one after such a       *)
(* transaction is sound again once its release is handled.  Left out is    *)
(* what the master hears where zeros fill in while a command is awaited,   *)
(* and where a response outlived its handler (frame mode takes the handler *)
(* away and leaves the response).                                          *)
RecoversAtRelease ==
  spi.role = "slave" /\ spi.mode = "block" /\ spiUpset = {} =>
    /\ spiWire.open /\ ~(spi.autofill /\ spi.cmd_handler) /\ (spi.resp_size > 0 => spi.cmd_handler)
         => \A k \in DOMAIN spiWire.heard : spiWire.heard[k] = Answer(k)
    /\ spiAt = "handled" =>
         /\ spiBlock.size = spiWire.sent
         /\ spiBlock.data = [k \in 1..FewerOf(spiWire.sent, spi.rx_size) |-> <<spiWire.no, k>>]

SpiSound == ReadsItsAnswer /\ RecoversAtRelease
=============================================================================
