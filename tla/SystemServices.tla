--------------------------- MODULE SystemServices ---------------------------
(***************************************************************************)
(* The drivers through which the firmware asks the System Controller for a *)
(* service (mss_sys_services.c) over the communication block               *)
(* (mss_comblk.c): a thread that calls, the interrupt handler that moves   *)
(* bytes through the two FIFOs, and the controller (external), which       *)
(* answers and sends events of its own.                                    *)
(*                                                                         *)
(* A command is an opcode cell and one cell for all that follows it; a     *)
(* response is the opcode, marked as a command, and its data bytes.        *)
(***************************************************************************)
EXTENDS ClockSwitching

CONSTANTS
  Exercised,   \* the calls the thread makes
  TxFifo,      \* cells the transmit FIFO holds
  MaxPages,    \* bound on the pages of an ISP bit stream
  MaxCalls,    \* bound on the calls
  MaxEvents    \* bound on the events of the controller and on further calls of MSS_SYS_init

VARIABLES
  sys,     \* the globals of both drivers, their registers and the transmit FIFO
  rxBytes, \* receive FIFO of the communication block
  thread,  \* where the calling thread is
  ctl,     \* what the System Controller is doing
  calls, events, \* how many there were
  upset    \* history: what happened that the drivers do not cope with

sysVars == <<sys, rxBytes, thread, ctl, calls, events, upset>>

----------------------------------------------------------------------------
(* The services.  Each packs its parameters, sends its command in one of   *)
(* four ways, and expects len bytes of response.                           *)

Service(op, via, len) == [op |-> op, via |-> via, len |-> len]

DesignServices ==
  [n \in {"serial_number", "user_code", "design_version"} |-> Service(n, "ptr", 6)]
CertificateServices ==
  [n \in {"device_certificate", "secondary_device_certificate"} |-> Service(n, "ptr", 6)]
AesServices  == [n \in {"128bit_aes", "256bit_aes"} |-> Service(n, "ptr", 6)]
HashServices == [n \in {"sha256", "hmac"} |-> Service(n, "ptr", 6)]
KeyServices  == [n \in {"key_tree", "challenge_response"} |-> Service(n, "ptr", 6)]
NrbgStart ==
  [n \in {"nrbg_reset", "nrbg_self_test", "nrbg_instantiate"} |->
    IF n = "nrbg_reset" THEN Service(n, "cmd", 2)
    ELSE IF n = "nrbg_self_test" THEN Service(n, "byte", 2)
    ELSE Service(n, "ptr", 6)]
NrbgUse ==
  [n \in {"nrbg_generate", "nrbg_reseed", "nrbg_uninstantiate"} |->
    IF n = "nrbg_uninstantiate" THEN Service(n, "cmd", 3) ELSE Service(n, "ptr", 6)]
ZeroizeService == [n \in {"zeroize"} |-> Service(n, "byte", 0)]
PufActivation ==
  [n \in {"puf_create_activation_code", "puf_delete_activation_code"} |->
    Service("puf_activation_code", "ptr", 2)]
PufKeys ==
  [n \in {"puf_get_number_of_keys", "puf_enroll_key", "puf_delete_key"} |->
    Service("puf_user_key_code", "ptr", 6)]
PufUse ==
  [n \in {"puf_export_keycodes", "puf_import_keycodes", "puf_fetch_key",
          "puf_fetch_ecc_public_key", "puf_get_random_seed"} |->
    IF n \in {"puf_export_keycodes", "puf_import_keycodes"}
    THEN Service("puf_user_key_code", "ptr", 6) ELSE Service(n, "ptr", 6)]
EccServices ==
  [n \in {"ecc_point_multiplication", "ecc_point_addition"} |-> Service(n, "ptr", 6)]
ClockMonitor ==
  [n \in {"start_clock_monitor", "stop_clock_monitor", "enable_puf_power_down"} |->
    Service("tamper_control", "cmd", 2)]
TamperClear ==
  [n \in {"disable_puf_power_down", "clear_lock_parity", "clear_mesh_short"} |->
    Service("tamper_control", "cmd", 2)]
ClockedServices ==
  [n \in {"flash_freeze", "check_digest", "initiate_iap", "start_isp"} |->
    Service(n, IF n = "start_isp" THEN "paged" ELSE "cmd", 2)]

(* Each service is in one of these tables. *)
Services ==
  {DesignServices, CertificateServices, AesServices, HashServices, KeyServices, NrbgStart,
   NrbgUse, ZeroizeService, PufActivation, PufKeys, PufUse, EccServices, ClockMonitor,
   TamperClear, ClockedServices}

service ==
  [n \in UNION {DOMAIN table : table \in Services} |->
    (CHOOSE table \in Services : n \in DOMAIN table)[n]]

ProgModes == {"authenticate", "program", "verify"}

(* A call: the service with its mode, or with its options for a digest.    *)
Request(n, m) == [name |-> n, mode |-> m]

Requests ==
  [name : {"initiate_iap", "start_isp"}, mode : ProgModes]
  \cup [name : {"check_digest"}, mode : {"fabric", "other"}]
  \cup [name : DOMAIN service \ {"initiate_iap", "start_isp", "check_digest"}, mode : {"none"}]

ASSUME ServiceAssumption ==
  /\ Exercised \subseteq Requests
  /\ TxFifo \in Nat \ {0, 1}
  /\ {MaxPages, MaxCalls, MaxEvents} \subseteq Nat

(* The controller keeps eNVM-1 locked after these, and lets it go when it  *)
(* is asked for the number of keys.                                        *)
PufLocks == {"puf_create_activation_code", "puf_delete_activation_code",
             "puf_enroll_key", "puf_delete_key"}

(* The services a call is made of: to verify starts with a digest check.   *)
Plan(c) ==
  CASE c.mode = "verify"      -> <<Request("check_digest", "fabric"), c>>
    [] c.name \in PufLocks    -> <<c, Request("puf_get_number_of_keys", "none")>>
    [] OTHER                  -> <<c>>

Switches(c) == c.mode \in {"program", "verify", "fabric"} \/ c.name = "flash_freeze"

----------------------------------------------------------------------------
(* mss_comblk.c.  Its functions take and return the record sys.            *)

isp_sys_completion_handler(d) ==
  IF d.g_mode = "authenticate" THEN d
  ELSE [d EXCEPT !.envm_cr = d.initial_envm_cr, !.facc2_cr = d.initial_facc2_cr]

Bug_request_completion_handler(d, n) == [d EXCEPT !.length = n]

request_completion_handler(d, n) == [d EXCEPT !.sysBusy = FALSE, !.length = n]

complete_request(d, n) ==
  LET called == IF d.handler = "isp" THEN isp_sys_completion_handler(d)
                                     ELSE request_completion_handler(d, n)
  IN  IF d.handler = "none" THEN d
      ELSE [called EXCEPT !.handler = "none", !.in_progress = FALSE]

abort_current_cmd(d) ==
  IF d.in_progress THEN [complete_request(d, d.idx) EXCEPT !.tx = <<>>] ELSE d

Least(a, b) == IF a < b THEN a ELSE b

Push(d, kind, n) ==
  [d EXCEPT !.tx = @ \o [i \in 1..n |-> [kind |-> kind, name |-> d.name, tag |-> d.tag]]]

(* fill_tx_fifo: how many of n cells fit. *)
Fits(d, n) == Least(n, TxFifo - Len(d.tx))

(* What the three send functions have in common; the response buffer is    *)
(* the caller's.                                                           *)
Loaded(d, n, tag, handler) ==
  [abort_current_cmd(d) EXCEPT
    !.in_progress = TRUE, !.opcode = service[n].op, !.name = n, !.tag = tag, !.cmdLeft = 0, !.pages = 0,
    !.resp = <<>>, !.gone = FALSE, !.size = service[n].len, !.idx = 0, !.handler = handler,
    !.irq = {"RX"}]

MSS_COMBLK_send_cmd_with_ptr(d, name, tag) ==
  [Push(Push(Loaded(d, name, tag, "request"), "opcode", 1), "rest", 1)
    EXCEPT !.state = "WAIT_RESPONSE"]

(* The transmit interrupt stays off: what does not fit now is never sent.  *)
MSS_COMBLK_send_cmd(d, name, tag) ==
  LET n == IF service[name].via = "byte" THEN 0 ELSE 1
      e == Push(Loaded(d, name, tag, "request"), "opcode", 1)
      f == Push(e, "rest", Fits(e, n))
  IN  IF Fits(e, n) < n THEN [f EXCEPT !.state = "TX_CMD", !.cmdLeft = n]
                        ELSE [f EXCEPT !.state = "WAIT_RESPONSE"]

MSS_COMBLK_send_paged_cmd(d, name, tag) ==
  LET e == Push([Loaded(d, name, tag, "isp") EXCEPT !.irq = {"RX", "TX"}],
                "opcode", 1)
      f == Push(e, "rest", Fits(e, 1))
  IN  IF Fits(e, 1) < 1 THEN [f EXCEPT !.state = "TX_CMD", !.cmdLeft = 1]
                        ELSE [f EXCEPT !.state = "TX_PAGED_DATA"]

(* isp_page_read_handler and the page handler it calls: a page is a cell,  *)
(* and there may be no further one.                                        *)
NextPage(d, more) == IF more THEN [d EXCEPT !.pages = 1, !.pagesRead = @ + 1] ELSE d

handle_tx_okay_irq(d, more) ==
  CASE d.state = "TX_CMD" ->
         LET n == Fits(d, d.cmdLeft)
             e == [Push(d, "rest", n) EXCEPT !.cmdLeft = @ - n]
         IN  IF e.cmdLeft > 0 THEN e ELSE [e EXCEPT !.state = "WAIT_RESPONSE"]
    [] d.state = "TX_PAGED_DATA" ->
         LET e == IF d.pages = 0 THEN NextPage(d, more) ELSE d
         IN  IF e.pages = 0
             THEN [e EXCEPT !.irq = @ \ {"TX"}, !.state = "WAIT_RESPONSE"]
             ELSE [Push(e, "page", Fits(e, e.pages)) EXCEPT !.pages = @ - Fits(e, e.pages)]
    [] OTHER ->
         [complete_request([d EXCEPT !.irq = @ \ {"TX"}], 0) EXCEPT !.state = "IDLE"]

(* asynchronous_event_handler: of the events only the end of a flash       *)
(* freeze changes anything; the application's handler is not modelled.     *)
asynchronous_event_handler(d, op) ==
  IF op = "exit"
  THEN [d EXCEPT !.facc1_cr =
         revert_clk_config(d.device, d.facc1_cr, d.divisor, d.initial_facc1_cr)]
  ELSE d

process_sys_ctrl_command(d, op) == asynchronous_event_handler(d, op)

(* A store to a caller's buffer after the caller returned goes astray.     *)
Store(d, i, b) == IF d.gone THEN d ELSE [d EXCEPT !.resp = SubSeq(@, 1, i - 1) \o <<b>>]

Bug_handle_rx_wait(d, b) ==
  IF b.cmd THEN [Store(d, 1, b) EXCEPT !.idx = 1, !.state = "RX_RESPONSE"] ELSE d

handle_rx_idle(d, b) ==
  IF ~b.cmd THEN d
  ELSE IF b.val # "F1" THEN process_sys_ctrl_command(d, b.val)
  ELSE [Store(d, 1, b) EXCEPT !.idx = 1, !.state = "RX_RESPONSE"]

handle_rx_wait(d, b) ==
  IF ~b.cmd THEN d
  ELSE IF b.val # d.opcode THEN process_sys_ctrl_command(d, b.val)
  ELSE [Store(d, 1, b) EXCEPT !.idx = 1, !.state = "RX_RESPONSE"]

(* A stored byte 0xF1 is taken for the opcode of a digest error, wherever  *)
(* in the response it is: the request then never completes.  Read from a   *)
(* buffer that is gone, the byte may be anything (stray).                  *)
handle_rx_response(d, b, stray) ==
  IF b.cmd THEN process_sys_ctrl_command(d, b.val)
  ELSE IF IF d.gone THEN stray ELSE d.resp[d.idx].val = "F1"
  THEN [process_sys_ctrl_command(Store(d, d.idx + 1, b), "F1") EXCEPT !.state = "IDLE"]
  ELSE LET e == IF d.idx < d.size THEN [Store(d, d.idx + 1, b) EXCEPT !.idx = @ + 1] ELSE d
       IN  IF e.idx = e.size THEN [complete_request(e, e.idx) EXCEPT !.state = "IDLE"] ELSE e

handle_rx_paged(d, b) ==
  IF b.cmd THEN process_sys_ctrl_command(d, b.val)
  ELSE [complete_request(d, 2) EXCEPT !.state = "IDLE"]

handle_rx_okay_irq(d, b, stray) ==
  CASE d.state = "IDLE"          -> handle_rx_idle(d, b)
    [] d.state = "WAIT_RESPONSE" -> handle_rx_wait(d, b)
    [] d.state = "RX_RESPONSE"   -> handle_rx_response(d, b, stray)
    [] d.state = "TX_PAGED_DATA" -> handle_rx_paged(d, b)
    [] OTHER -> IF b.cmd THEN process_sys_ctrl_command(d, b.val) ELSE d

(* The status is read once, before either handler. *)
ComBlk_IRQHandler ==
  \E more, stray \in BOOLEAN :
    LET rcv_okay == "RX" \in sys.irq /\ rxBytes # <<>>
        tx_okay  == "TX" \in sys.irq /\ Len(sys.tx) < TxFifo
        d == IF rcv_okay THEN handle_rx_okay_irq(sys, Head(rxBytes), stray) ELSE sys
        e == IF tx_okay THEN handle_tx_okay_irq(d, more) ELSE d
    IN  /\ rcv_okay \/ tx_okay
        /\ more => tx_okay /\ d.state = "TX_PAGED_DATA" /\ d.pagesRead < MaxPages
        /\ stray => sys.gone /\ sys.state = "RX_RESPONSE"
        /\ sys' = e
        /\ rxBytes' = IF rcv_okay THEN Tail(rxBytes) ELSE rxBytes
        /\ upset' = upset
             \cup (IF /\ sys.state = "RX_RESPONSE" /\ sys.handler # "none"
                      /\ d.state = "IDLE" /\ d.handler # "none"
                   THEN {"swallowed"} ELSE {})
             \cup (IF sys.state = "IDLE" /\ d.state = "RX_RESPONSE" /\ thread.at = "wait"
                   THEN {"overwritten"} ELSE {})
        /\ UNCHANGED <<thread, ctl, calls, events>>

----------------------------------------------------------------------------
(* mss_sys_services.c: the calling thread. *)

Bug_Raise(d) == [d EXCEPT !.envm_cr = "max", !.facc2_cr = "standby"]

(* Before programming: the slowest eNVM timing and the standby clocks.     *)
Raise(d) == [d EXCEPT !.initial_envm_cr = d.envm_cr, !.initial_facc2_cr = d.facc2_cr,
                      !.envm_cr = "max", !.facc2_cr = "standby"]

Programs(c) == c.name \in {"initiate_iap", "start_isp"} /\ c.mode # "authenticate"

(* What a call does to the registers before it waits for its turn.         *)
Prepared(d, c) ==
  LET a == IF c.name = "start_isp" THEN [d EXCEPT !.g_mode = c.mode] ELSE d
      b == IF Programs(c) THEN Raise(a) ELSE a
      f == IF c.name = "flash_freeze" THEN [b EXCEPT !.initial_facc1_cr = b.facc1_cr] ELSE b
      x == clk_switching_fix(f.device, f.facc1_cr, f.divisor)
  IN  IF Switches(c) THEN [f EXCEPT !.facc1_cr = x.facc1, !.divisor = x.divisor] ELSE f

ClocksAllow(c) ==
  Switches(c) => clk_switching_fix(sys.device, sys.facc1_cr, sys.divisor).ok

Leaving(todo) == [at |-> IF Tail(todo) = <<>> THEN "free" ELSE "prepare", todo |-> Tail(todo)]

IspRuns == sys.handler = "isp"

call(c) ==
  /\ thread.at = "free"
  /\ calls < MaxCalls
  /\ thread' = [at |-> "prepare", todo |-> Plan(c)]
  /\ calls' = calls + 1
  /\ UNCHANGED <<sys, rxBytes, ctl, events, upset>>

(* The clocks of the device do not allow the service: return without       *)
(* undoing what was prepared.                                              *)
prepare ==
  LET c == Head(thread.todo)
  IN  /\ thread.at = "prepare"
      /\ sys' = Prepared(sys, c)
      /\ thread' = IF ClocksAllow(c) THEN [thread EXCEPT !.at = "start"]
                                     ELSE Leaving(thread.todo)
      /\ upset' = upset
           \cup (IF ~ClocksAllow(c) /\ Programs(c) THEN {"divisor"} ELSE {})
           \cup (IF Programs(c) /\ IspRuns THEN {"overlap"} ELSE {})
           \cup (IF Switches(c) /\ c.name # "flash_freeze" THEN {"switched"} ELSE {})
           \cup (IF c.name = "flash_freeze" /\ ctl.frozen THEN {"switched"} ELSE {})
      /\ UNCHANGED <<rxBytes, ctl, calls, events>>

signal_request_start == thread.at = "start" /\ ~sys.sysBusy

(* execute_service and its likes: take the turn and send the command, with *)
(* the interrupt off.  Sending waits for room in the transmit FIFO.        *)
start ==
  LET c == Head(thread.todo)
      s == service[c.name]
      d == [sys EXCEPT !.sysBusy = TRUE, !.length = 0]
      room == TxFifo - Len(abort_current_cmd(d).tx)
  IN  /\ signal_request_start
      /\ room >= IF s.via = "ptr" THEN 2 ELSE 1
      /\ sys' = CASE s.via = "ptr"   -> MSS_COMBLK_send_cmd_with_ptr(d, c.name, calls)
                  [] s.via = "paged" ->
                       MSS_COMBLK_send_paged_cmd([d EXCEPT !.pagesRead = 0],
                                                 c.name, calls)
                  [] OTHER           -> MSS_COMBLK_send_cmd(d, c.name, calls)
      /\ thread' = IF s.via = "paged" THEN Leaving(thread.todo)
                                      ELSE [thread EXCEPT !.at = "wait"]
      /\ UNCHANGED <<rxBytes, ctl, calls, events, upset>>

(* wait_for_request_completion returns, and with it the function whose     *)
(* local the response buffer was.                                          *)
finish ==
  LET c == Head(thread.todo)
  IN  /\ thread.at = "wait"
      /\ ~sys.sysBusy
      /\ thread' = Leaving(thread.todo)
      /\ sys' = IF Programs(c)
                THEN [sys EXCEPT !.resp = <<>>, !.gone = TRUE, !.envm_cr = sys.initial_envm_cr,
                                 !.facc2_cr = sys.initial_facc2_cr]
                ELSE [sys EXCEPT !.resp = <<>>, !.gone = TRUE]
      /\ UNCHANGED <<rxBytes, ctl, calls, events, upset>>

(* The status the caller gets: its response's, or MSS_SYS_UNEXPECTED_ERROR. *)
Answered(c) ==
  /\ sys.length = service[c.name].len
  /\ sys.length >= 2 /\ sys.resp[1].val = service[c.name].op

(* An ISP whose completion the driver has not seen, or which it took for   *)
(* complete before the controller did.                                     *)
Unfinished == IspRuns \/ sys.tx # <<>> \/ ctl.at # "idle"

MSS_SYS_init ==
  /\ thread.at = "free"
  /\ events < MaxEvents
  /\ events' = events + 1
  /\ sys' = [sys EXCEPT !.sysBusy = FALSE, !.length = 0, !.initial_facc1_cr = sys.facc1_cr,
               !.in_progress = FALSE, !.opcode = "none", !.name = "none", !.tag = 0, !.cmdLeft = 0,
               !.pages = 0, !.resp = <<>>, !.gone = FALSE, !.size = 0, !.idx = 0, !.handler = "none",
               !.state = "IDLE", !.irq = {"RX"}]
  /\ upset' = upset \cup (IF Unfinished THEN {"forgotten"} ELSE {})
                    \cup (IF ctl.frozen THEN {"switched"} ELSE {})
  /\ UNCHANGED <<rxBytes, thread, ctl, calls>>

----------------------------------------------------------------------------
(* The System Controller (external). *)

Item(cmd, val, tag) == [cmd |-> cmd, val |-> val, tag |-> tag]

OneByte(n) == service[n].via = "byte"

(* It takes the next cell; a new opcode ends whatever it was doing.        *)
ctl_take ==
  LET h == Head(sys.tx)
  IN  /\ sys.tx # <<>>
      /\ sys' = [sys EXCEPT !.tx = Tail(@)]
      /\ ctl' = CASE h.kind = "opcode" ->
                       [ctl EXCEPT !.at = IF OneByte(h.name) THEN "execute" ELSE "command",
                                   !.name = h.name, !.tag = h.tag]
                  [] h.kind = "rest" /\ ctl.at = "command" -> [ctl EXCEPT !.at = "execute"]
                  [] OTHER -> ctl
      /\ UNCHANGED <<rxBytes, thread, calls, events, upset>>

(* It answers; one data byte may be 0xF1. *)
ctl_answer ==
  LET s == service[ctl.name]
  IN  /\ ctl.at = "execute"
      /\ ctl.name # "zeroize"
      /\ \E f1 \in 1..s.len :
           rxBytes' = rxBytes \o
             [i \in 1..s.len |-> Item(i = 1, IF i = 1 THEN s.op
                                             ELSE IF i = f1 THEN "F1" ELSE "data", ctl.tag)]
      /\ ctl' = [ctl EXCEPT !.at = "idle",
                   !.frozen = @ \/ ctl.name = "flash_freeze",
                   !.locked = CASE ctl.name \in PufLocks -> TRUE
                                [] ctl.name = "puf_get_number_of_keys" -> FALSE
                                [] OTHER -> @]
      /\ UNCHANGED <<sys, thread, calls, events, upset>>

(* Events: a tamper event, a digest error with its code, and the end of a  *)
(* flash freeze.                                                           *)
ctl_event ==
  /\ events < MaxEvents
  /\ events' = events + 1
  /\ \/ /\ rxBytes' = rxBytes \o <<Item(TRUE, "tamper", 0)>>
        /\ UNCHANGED ctl
     \/ /\ rxBytes' = rxBytes \o <<Item(TRUE, "F1", 0), Item(FALSE, "data", 0)>>
        /\ UNCHANGED ctl
     \/ /\ ctl.frozen
        /\ rxBytes' = rxBytes \o <<Item(TRUE, "exit", 0)>>
        /\ UNCHANGED ctl
  /\ UNCHANGED <<sys, thread, calls, upset>>

----------------------------------------------------------------------------
(* Settings of the dividers a design may have: the workaround steps each   *)
(* its own way on one device, and on another they must be equal.           *)
Designs(device) ==
  {[div |-> d, standby |-> FALSE] :
    d \in IF device = "060" THEN {<<0, 1, 2, 4>>, <<5, 5, 5, 5>>} ELSE {<<0, 1, 2, 4>>}}

SysInit ==
  /\ \E device \in Devices : \E facc1 \in Designs(device) :
       sys = [device |-> device, design |-> facc1, facc1_cr |-> facc1, initial_facc1_cr |-> facc1,
              divisor |-> <<0, 0, 0, 0>>, envm_cr |-> "design", facc2_cr |-> "design",
              initial_envm_cr |-> "default", initial_facc2_cr |-> "default",
              g_mode |-> "authenticate", sysBusy |-> FALSE, length |-> 0,
              state |-> "IDLE", in_progress |-> FALSE, opcode |-> "none", name |-> "none", tag |-> 0,
              cmdLeft |-> 0, pages |-> 0, pagesRead |-> 0, resp |-> <<>>, gone |-> FALSE,
              size |-> 0, idx |-> 0, handler |-> "none", irq |-> {"RX"}, tx |-> <<>>]
  /\ rxBytes = <<>>
  /\ thread = [at |-> "free", todo |-> <<>>]
  /\ ctl = [at |-> "idle", name |-> "none", tag |-> 0, frozen |-> FALSE, locked |-> FALSE]
  /\ calls = 0 /\ events = 0
  /\ upset = {}

Thread == prepare \/ start \/ finish
Controller == ctl_take \/ ctl_answer

SysNext ==
  \/ \E c \in Exercised : call(c)
  \/ Thread
  \/ MSS_SYS_init
  \/ ComBlk_IRQHandler
  \/ Controller
  \/ ctl_event

(* The thread runs, an enabled interrupt is taken, and the controller does *)
(* what it is told.                                                        *)
SysFairness ==
  WF_sysVars(Thread) /\ WF_sysVars(ComBlk_IRQHandler) /\ WF_sysVars(Controller)

SysSpec == SysInit /\ [][SysNext]_sysVars /\ SysFairness

----------------------------------------------------------------------------
(* Properties. *)

(* The drivers' globals keep the values their functions give them; while a *)
(* thread waits, a completion handler is there to wake it, unless          *)
(* MSS_SYS_init forgot an ISP that ran.                                    *)
SysTypeOK ==
  /\ sys.device \in Devices /\ sys.facc1_cr \in Facc1 /\ sys.initial_facc1_cr \in Facc1
  /\ {sys.envm_cr, sys.initial_envm_cr} \subseteq {"design", "max", "default"}
  /\ sys.state \in {"IDLE", "TX_CMD", "TX_PAGED_DATA", "WAIT_RESPONSE", "RX_RESPONSE"}
  /\ sys.handler \in {"none", "request", "isp"}
  /\ sys.in_progress <=> sys.handler # "none"
  /\ sys.irq \subseteq {"RX", "TX"} /\ Len(sys.tx) <= TxFifo
  /\ thread.at \in {"free", "prepare", "start", "wait"}
  /\ thread.at = "wait" /\ sys.sysBusy => sys.handler = "request"

(* A service returns with the response of the controller to that very      *)
(* call, whatever events, unfinished ISPs and re-initialisations came in   *)
(* between: never MSS_SYS_UNEXPECTED_ERROR and never the bytes of another  *)
(* message.  Only a digest error that arrives after the response is        *)
(* complete and before the thread has read it overwrites it.               *)
AnswerIsOurs ==
  [][finish /\ "overwritten" \notin upset =>
       /\ Answered(Head(thread.todo))
       /\ \A i \in 1..sys.length : sys.resp[i].tag = calls]_sysVars

(* A thread that waits gets its answer, unless a byte 0xF1 of the response *)
(* was taken for a digest error, or MSS_SYS_init forgot a running ISP,     *)
(* whose pages are then in the way of the next command.                    *)
ServiceReturns ==
  thread.at = "wait" /\ Head(thread.todo).name # "zeroize"
    ~> thread.at # "wait" \/ upset \cap {"swallowed", "forgotten"} # {}

(* A call finds the driver busy only because of an ISP, which is never     *)
(* marked complete: not because of a service that returned.                *)
OnlyIspKeepsBusy ==
  sys.sysBusy /\ thread.at # "wait" => sys.opcode = "start_isp"

(* Programming puts the eNVM timing and the clock selection back, unless   *)
(* the clocks did not allow it, or it started while an ISP ran (what it    *)
(* saved then is what the ISP had set), or MSS_SYS_init forgot the ISP.    *)
RegistersRestored ==
  thread.at = "free" /\ ~IspRuns /\ upset \cap {"divisor", "overlap", "forgotten"} = {} =>
    sys.envm_cr = "design" /\ sys.facc2_cr = "design"

(* The end of a flash freeze puts the clock dividers back to what the      *)
(* design chose, on every device.  A digest check or an IAP switches them  *)
(* too, and nothing ever undoes that; so does, in effect, an MSS_SYS_init  *)
(* before the end of the freeze.                                           *)
ClocksRestored ==
  [][ComBlk_IRQHandler /\ rxBytes # <<>> /\ Head(rxBytes).val = "exit"
       /\ rxBytes' # rxBytes /\ "switched" \notin upset
     => sys'.facc1_cr = sys.design]_sysVars

(* No PUF service leaves eNVM-1 locked when it returns. *)
EnvmReleased == thread.at = "free" => ~ctl.locked

(* A service leaves nothing of its own behind: neither the turn, nor the   *)
(* registers it changed, nor a locked eNVM.                                *)
LeavesNothingBehind == OnlyIspKeepsBusy /\ RegistersRestored /\ EnvmReleased
=============================================================================
