------------------------------ MODULE MssUart ------------------------------
(***************************************************************************)
(* One MMUART of the MSS and its driver (mss_uart.c): the thread's calls,  *)
(* the interrupt handler that may come between any two of their steps,     *)
(* and the FIFOs that drain to the wire and fill from it (external).       *)
(*                                                                         *)
(* Every read of the line status register clears its overrun flag, so the  *)
(* driver collects the flag in the status field of the instance, in a read *)
(* and a write that an interrupt can come between.                         *)
(***************************************************************************)
EXTENDS Integers, Sequences, FiniteSets

CONSTANTS
  TxFifoSize,   \* bytes of the transmit FIFO
  RxFifoSize,   \* bytes of the receive FIFO
  MaxSize,      \* bound on the size of a message
  MaxMessages,  \* bound on the messages sent
  MaxArrivals,  \* bound on the bytes that arrive
  MaxSettings,  \* bound on the calls that change the configuration
  UsedIrqs      \* interrupts the application uses

ASSUME UartAssumption ==
  /\ {TxFifoSize, RxFifoSize} \subseteq Nat \ {0}
  /\ {MaxSize, MaxMessages, MaxArrivals, MaxSettings} \subseteq Nat
  /\ UsedIrqs \subseteq {"linests", "rx", "tx", "modemsts", "rto", "nack", "pid_pei", "break", "sync"}

VARIABLES
  uart,      \* the instance and its registers
  uartTx,    \* transmit FIFO and shift register; history: what went over the wire
  uartRx,    \* bytes held in the receive FIFO, and its overrun flag; history: arrived, lost
  uartCall,  \* the call the thread is in
  uartAsked, \* history: bytes the thread asked to send, in order
  settings,  \* calls that changed the configuration
  uartUpset  \* history: uses and races the driver does not cope with

uartVars == <<uart, uartTx, uartRx, uartCall, uartAsked, settings, uartUpset>>

Handlers == {"linests", "rx", "tx", "modemsts", "rto", "nack", "pid_pei", "break", "sync"}

(* The interrupt enable bits: of IER, and of IEM for the other modes. *)
IerBits == {"linests", "rx", "tx", "modemsts"}
IemBits == {"rto", "nack", "pid_pei", "break", "sync"}

Sending == uart.size # 0

(* What the driver sets and clears one by one: mode bits, and registers at *)
(* rest or not.                                                            *)
DuplexBits  == {"ESWM", "E_MSB_RX", "E_MSB_TX", "GFR"}
AddressBits == {"EAFM", "EAFC", "ERTO"}
GuardBits   == {"ETTG", "ADR", "RDYMODE"}
LoopBits    == {"LOOP", "RLOOP", "ECHO"}
Protocols   == {"ELIN", "EIRD", "EERR"}
ModeBits    == DuplexBits \cup AddressBits \cup GuardBits \cup LoopBits \cup Protocols
                 \cup {"SYNC", "SB"}

(* left and char_idx: bytes of the buffer to be written, and written.     *)
Free == [op |-> "none", at |-> "free", left |-> 0, char_idx |-> 0,
         thre |-> FALSE, temt |-> FALSE, dr |-> FALSE, oe |-> FALSE, seen |-> FALSE, result |-> FALSE]

----------------------------------------------------------------------------
(* Configuration. *)

(* config_baud_divisors: the divisor of the clock and its fraction in      *)
(* 64ths, for eight times the clock divided by the baud rate.              *)
config_baud_divisors(baud_value_by_128) ==
  LET baud_value_by_64 == baud_value_by_128 \div 2
      baud_value == baud_value_by_64 \div 64
      remainder  == baud_value_by_64 - (baud_value * 64)
      fractional == remainder + (baud_value_by_128 - (baud_value * 128)) - (remainder * 2)
  IN  [whole |-> baud_value, fraction |-> IF baud_value > 1 THEN fractional ELSE 0]

(* global_init with a soft reset: every register at rest, no handler. *)
global_init == [bits |-> {}, ier |-> {}, iem |-> {}, handler |-> {},
                size |-> 0, idx |-> 0, message |-> 0, status |-> FALSE]

Configure(u) ==
  /\ uartCall = Free /\ settings < MaxSettings
  /\ settings' = settings + 1
  /\ uart' = u
  /\ UNCHANGED <<uartTx, uartRx, uartCall, uartAsked, uartUpset>>

(* The four init functions also empty the FIFOs; only the first installs   *)
(* the default transmit handler.  The smart card mode needs 8 bits and two *)
(* stop bits.                                                              *)
uart_init(protocol) ==
  /\ uartCall = Free /\ settings < MaxSettings
  /\ settings' = settings + 1
  /\ uart' = [global_init EXCEPT
                !.handler = IF protocol = "none" THEN {"tx"} ELSE {},
                !.bits = CASE protocol = "none" -> {}
                           [] protocol = "EERR" -> {"EERR", "ESWM"}
                           [] OTHER -> {protocol}]
  /\ uartTx' = [uartTx EXCEPT !.fifo = <<>>, !.shift = <<>>]
  /\ uartRx' = [uartRx EXCEPT !.held = 0, !.overrun = FALSE]
  /\ uartUpset' = IF uartTx.fifo # <<>> \/ uartTx.shift # <<>> \/ uart.size # 0 \/ uartRx.lost
                  THEN uartUpset \cup {"reset"} ELSE uartUpset
  /\ UNCHANGED <<uartCall, uartAsked>>

(* Bounds: the mode bits are set and cleared before the first byte only,   *)
(* and bytes are exchanged only with none of them set.                     *)
Unused == uartAsked.messages = 0 /\ uartRx.arrived = 0
Plain  == uart.bits = {}

SetOrClear(bits, b, on) ==
  /\ b \in bits /\ Unused
  /\ Configure([uart EXCEPT !.bits = IF on THEN @ \cup {b} ELSE @ \ {b}])

set_duplex(b, on)  == SetOrClear(DuplexBits, b, on)
set_address(b, on) == SetOrClear(AddressBits, b, on)
set_guard(b, on)   == SetOrClear(GuardBits, b, on)
set_usart_mode(on) == SetOrClear({"SYNC"}, "SYNC", on)
set_break          == SetOrClear({"SB"}, "SB", TRUE)
clear_break        == SetOrClear({"SB"}, "SB", FALSE)

(* Switching the remote loopback off ends the automatic echo with it. *)
set_loopback(b, on) ==
  /\ b \in LoopBits /\ Unused
  /\ Configure([uart EXCEPT !.bits = CASE on -> @ \cup {b}
                                       [] ~on /\ b = "LOOP" -> @ \ {b}
                                       [] OTHER -> @ \ {"RLOOP", "ECHO"}])

(* A handler for reception, line or modem status.                          *)
set_handler(h) ==
  h \in IerBits \ {"tx"} /\ Configure([uart EXCEPT !.handler = @ \cup {h}, !.ier = @ \cup {h}])

(* A handler for one of the interrupts of the other modes. *)
set_mode_handler(h) ==
  h \in IemBits /\ Configure([uart EXCEPT !.handler = @ \cup {h}, !.iem = @ \cup {h}])

(* A handler of the application for transmission gives up the message that *)
(* is being sent; what it sends itself is not modelled.                    *)
set_tx_handler ==
  /\ uartCall = Free /\ settings < MaxSettings
  /\ settings' = settings + 1
  /\ uart' = [uart EXCEPT !.handler = @ \ {"tx"}, !.size = 0, !.ier = @ \cup {"tx"}]
  /\ uartUpset' = IF Sending THEN uartUpset \cup {"reset"} ELSE uartUpset
  /\ UNCHANGED <<uartTx, uartRx, uartCall, uartAsked>>

enable_irq(h) ==
  Configure([uart EXCEPT !.ier = @ \cup ({h} \cap IerBits), !.iem = @ \cup ({h} \cap IemBits)])

(* The bits of IEM are not cleared but, all of them, set. *)
disable_irq(h) == Configure([uart EXCEPT !.ier = @ \ {h}, !.iem = IemBits])

----------------------------------------------------------------------------
(* Transmission.  A byte is <<message, position>>. *)

Bytes(m, from, n) == [i \in 1..n |-> <<m, from + i>>]

(* Writing to a FIFO that is full loses the byte.                          *)
Write(fifo, bytes) == SubSeq(fifo \o bytes, 1,
  IF Len(fifo) + Len(bytes) < TxFifoSize THEN Len(fifo) + Len(bytes) ELSE TxFifoSize)

Lower(a, b) == IF a < b THEN a ELSE b

(* MSS_UART_polled_tx, and the _string variant, which counts as it goes;   *)
(* MSS_UART_fill_tx_fifo makes one attempt.  As the header asks, nothing   *)
(* is sent while a message is being sent by interrupt.                     *)
polled_tx(op, n) ==
  /\ op \in {"polled_tx", "fill_tx_fifo"}
  /\ Plain /\ uartCall = Free /\ ~Sending
  /\ uartAsked.messages < MaxMessages
  /\ uartCall' = [Free EXCEPT !.op = op, !.at = "lsr", !.left = n]
  /\ uartAsked' = [messages |-> uartAsked.messages + 1,
                   bytes |-> IF op = "polled_tx"
                             THEN uartAsked.bytes \o Bytes(uartAsked.messages + 1, 0, n)
                             ELSE uartAsked.bytes]
  /\ UNCHANGED <<uart, uartTx, uartRx, settings, uartUpset>>

(* MSS_UART_irq_tx sets the buffer and its size, then the index, then      *)
(* enables the interrupt; if that was enabled already, it can come with    *)
(* the index of the last message.                                          *)
irq_tx(n) ==
  /\ Plain /\ uartCall = Free /\ ~Sending
  /\ uartAsked.messages < MaxMessages
  /\ uart' = [uart EXCEPT !.message = uartAsked.messages + 1, !.size = n]
  /\ uartCall' = [Free EXCEPT !.op = "irq_tx", !.at = "index", !.left = n]
  /\ uartAsked' = [messages |-> uartAsked.messages + 1,
                   bytes |-> uartAsked.bytes \o Bytes(uartAsked.messages + 1, 0, n)]
  /\ uartUpset' = IF "tx" \in uart.ier THEN uartUpset \cup {"index"} ELSE uartUpset
  /\ UNCHANGED <<uartTx, uartRx, settings>>

irq_tx_enable ==
  /\ uartCall.at = "index"
  /\ uart' = [uart EXCEPT !.idx = 0, !.handler = @ \cup {"tx"}, !.ier = @ \cup {"tx"}]
  /\ uartCall' = Free
  /\ UNCHANGED <<uartTx, uartRx, uartAsked, settings, uartUpset>>

(* MSS_UART_get_rx, MSS_UART_tx_complete and MSS_UART_get_tx_status, and   *)
(* MSS_UART_get_rx_status.                                                 *)
query(op, n) ==
  /\ op \in {"get_rx", "tx_complete", "get_rx_status"}
  /\ Plain /\ uartCall = Free
  /\ uartCall' = [Free EXCEPT !.op = op, !.at = "lsr", !.left = n]
  /\ UNCHANGED <<uart, uartTx, uartRx, uartAsked, settings, uartUpset>>

(* Read LSR, which clears its overrun flag, and load the status field ...  *)
read_lsr ==
  /\ uartCall.at = "lsr"
  /\ uartCall' = [uartCall EXCEPT !.at = "store", !.thre = (uartTx.fifo = <<>>),
                    !.temt = (uartTx.fifo = <<>> /\ uartTx.shift = <<>>), !.dr = (uartRx.held > 0),
                    !.oe = uartRx.overrun, !.seen = uart.status]
  /\ uartRx' = [uartRx EXCEPT !.overrun = FALSE]
  /\ UNCHANGED <<uart, uartTx, uartAsked, settings, uartUpset>>

Bug_Collected == uartCall.oe

Collected == uartCall.seen \/ uartCall.oe

(* ... then store both, and go on with what was read. *)
store_status ==
  LET n  == Lower(uartCall.left, TxFifoSize)
      m  == uartAsked.messages
      from == uartCall.char_idx
      err == [uartRx EXCEPT !.lost = FALSE]
  IN  /\ uartCall.at = "store"
      /\ uart' = [uart EXCEPT !.status = Collected /\ uartCall.op # "get_rx_status"]
      /\ \/ /\ uartCall.op \in {"polled_tx", "fill_tx_fifo"}
            /\ IF uartCall.thre
               THEN /\ uartTx' = [uartTx EXCEPT !.fifo = Write(@, Bytes(m, from, n))]
                    /\ uartAsked' = IF uartCall.op = "fill_tx_fifo"
                                    THEN [uartAsked EXCEPT !.bytes = @ \o Bytes(m, from, n)]
                                    ELSE uartAsked
                    /\ uartCall' = IF n = uartCall.left \/ uartCall.op = "fill_tx_fifo"
                                   THEN Free
                                   ELSE [uartCall EXCEPT !.at = "lsr", !.left = @ - n,
                                                         !.char_idx = @ + n]
               ELSE /\ uartCall' = IF uartCall.op = "fill_tx_fifo" THEN Free
                                   ELSE [uartCall EXCEPT !.at = "lsr"]
                    /\ UNCHANGED <<uartTx, uartAsked>>
            /\ UNCHANGED uartRx
         \/ /\ uartCall.op = "get_rx"
            /\ IF uartCall.dr /\ uartCall.left > 0
               THEN /\ uartRx' = [uartRx EXCEPT !.held = IF @ > 0 THEN @ - 1 ELSE 0]
                    /\ uartCall' = [uartCall EXCEPT !.at = "lsr", !.left = @ - 1]
               ELSE UNCHANGED uartRx /\ uartCall' = Free
            /\ UNCHANGED <<uartTx, uartAsked>>
         \/ /\ uartCall.op = "tx_complete"
            /\ uartCall' = [Free EXCEPT !.at = "return",
                              !.result = (uart.size = 0 /\ uartCall.temt)]
            /\ UNCHANGED <<uartTx, uartRx, uartAsked>>
         \/ /\ uartCall.op = "get_rx_status"
            /\ uartRx' = IF Collected THEN err ELSE uartRx
            /\ uartCall' = Free
            /\ UNCHANGED <<uartTx, uartAsked>>
      /\ UNCHANGED <<settings, uartUpset>>

return ==
  /\ uartCall.at = "return"
  /\ uartCall' = Free
  /\ UNCHANGED <<uart, uartTx, uartRx, uartAsked, settings, uartUpset>>

----------------------------------------------------------------------------
(* MSS_UART_isr.  An interrupt whose handler is missing is not served, and *)
(* stays.                                                                  *)

Torn == IF uartCall.at = "store" THEN uartUpset \cup {"torn"} ELSE uartUpset

(* default_tx_handler: fill the empty FIFO, and after the last byte switch *)
(* the interrupt off.  With the index of the previous message, if that is  *)
(* beyond the size, it goes on past the end of the buffer (for at most     *)
(* MaxSize bytes here).                                                    *)
default_tx_handler ==
  LET n == IF uart.idx > uart.size THEN TxFifoSize ELSE Lower(uart.size - uart.idx, TxFifoSize)
  IN  /\ "tx" \in uart.ier /\ "tx" \in uart.handler
      /\ uartTx.fifo = <<>>
      /\ uart.size > 0 /\ uart.idx <= MaxSize
      /\ uartTx' = [uartTx EXCEPT !.fifo = Bytes(uart.message, uart.idx, n)]
      /\ uart' = IF uart.idx + n = uart.size
                 THEN [uart EXCEPT !.idx = @ + n, !.size = 0, !.ier = @ \ {"tx"},
                                   !.status = @ \/ uartRx.overrun]
                 ELSE [uart EXCEPT !.idx = @ + n, !.status = @ \/ uartRx.overrun]
      /\ uartRx' = [uartRx EXCEPT !.overrun = FALSE]
      /\ uartUpset' = Torn
      /\ UNCHANGED <<uartCall, uartAsked, settings>>

(* The application's receive handler, which takes what is there with       *)
(* MSS_UART_get_rx.                                                        *)
rx_handler ==
  /\ "rx" \in uart.ier /\ "rx" \in uart.handler
  /\ uartRx.held > 0
  /\ uart' = [uart EXCEPT !.status = @ \/ uartRx.overrun]
  /\ uartRx' = [uartRx EXCEPT !.held = 0, !.overrun = FALSE]
  /\ uartUpset' = Torn
  /\ UNCHANGED <<uartTx, uartCall, uartAsked, settings>>

----------------------------------------------------------------------------
(* The wire (external). *)

shift_out ==
  /\ uartTx.fifo # <<>> \/ uartTx.shift # <<>>
  /\ uartTx' = IF uartTx.fifo = <<>>
               THEN [uartTx EXCEPT !.shift = <<>>, !.wire = @ \o uartTx.shift]
               ELSE [fifo |-> Tail(uartTx.fifo), shift |-> <<Head(uartTx.fifo)>>,
                     wire |-> uartTx.wire \o uartTx.shift]
  /\ UNCHANGED <<uart, uartRx, uartCall, uartAsked, settings, uartUpset>>

arrive ==
  /\ Plain /\ uartRx.arrived < MaxArrivals
  /\ uartRx' = IF uartRx.held < RxFifoSize
               THEN [uartRx EXCEPT !.arrived = @ + 1, !.held = @ + 1]
               ELSE [uartRx EXCEPT !.arrived = @ + 1, !.overrun = TRUE, !.lost = TRUE]
  /\ UNCHANGED <<uart, uartTx, uartCall, uartAsked, settings, uartUpset>>

----------------------------------------------------------------------------
UartInit ==
  /\ uart = [global_init EXCEPT !.handler = {"tx"}]
  /\ uartTx = [fifo |-> <<>>, shift |-> <<>>, wire |-> <<>>]
  /\ uartRx = [held |-> 0, arrived |-> 0, overrun |-> FALSE, lost |-> FALSE]
  /\ uartCall = Free
  /\ uartAsked = [messages |-> 0, bytes |-> <<>>]
  /\ settings = 0
  /\ uartUpset = {}

Setting ==
  \/ \E p \in Protocols \cup {"none"} : uart_init(p)
  \/ \E b \in DuplexBits \cup AddressBits \cup GuardBits, on \in BOOLEAN :
       set_duplex(b, on) \/ set_address(b, on) \/ set_guard(b, on)
  \/ \E on \in BOOLEAN : set_usart_mode(on) \/ \E b \in LoopBits : set_loopback(b, on)
  \/ set_break \/ clear_break \/ set_tx_handler
  \/ \E h \in UsedIrqs : set_handler(h) \/ set_mode_handler(h) \/ enable_irq(h) \/ disable_irq(h)

UartCall ==
  \/ \E n \in 1..MaxSize, op \in {"polled_tx", "fill_tx_fifo"} : polled_tx(op, n)
  \/ \E n \in 1..MaxSize : irq_tx(n)
  \/ \E op \in {"tx_complete", "get_rx_status"} : query(op, 0)
  \/ query("get_rx", RxFifoSize)

UartStep == irq_tx_enable \/ read_lsr \/ store_status \/ return

UartIsr == default_tx_handler \/ rx_handler

UartNext == Setting \/ UartCall \/ UartStep \/ UartIsr \/ shift_out \/ arrive

UartSpec == UartInit /\ [][UartNext]_uartVars

----------------------------------------------------------------------------
(* Properties. *)

UartTypeOK ==
  /\ uart.bits \subseteq ModeBits /\ uart.ier \subseteq IerBits /\ uart.iem \subseteq IemBits
  /\ uart.handler \subseteq Handlers
  /\ uart.size \in 0..MaxSize /\ uart.status \in BOOLEAN
  /\ Len(uartTx.fifo) <= TxFifoSize /\ uartRx.held \in 0..RxFifoSize
  /\ Cardinality(uart.bits \cap Protocols) <= 1

(* When MSS_UART_tx_complete says so, every byte the thread asked to send  *)
(* is on the wire, whole and in order, whichever way it was sent.  A new   *)
(* initialisation or transmit handler breaks that, a transmit interrupt    *)
(* that was enabled before the message, and the interrupt that fills the   *)
(* FIFO with the last bytes between the function's look at LSR and its     *)
(* look at the size.                                                       *)
CompleteMeansSent ==
  uartCall.at = "return" /\ uartCall.result /\ uartUpset \cap {"index", "reset", "torn"} = {} =>
    uartTx.wire = uartAsked.bytes

(* A received byte that was lost is never lost silently: the overrun is in *)
(* LSR, in the status field or in the hands of the call that read it,      *)
(* until MSS_UART_get_rx_status reports it.  Only an interrupt between the *)
(* load and the store of the status field can make it disappear.           *)
NoSilentOverrun ==
  uartRx.lost /\ uartUpset \cap {"torn", "reset"} = {} =>
    \/ uartRx.overrun
    \/ uart.status
    \/ uartCall.at = "store" /\ uartCall.oe

(* Neither a byte to be sent nor the news of a lost one disappears. *)
UartSound == CompleteMeansSent /\ NoSilentOverrun
=============================================================================
