----------------------- MODULE SystemServices_proofs -----------------------
(***************************************************************************)
(* What holds of the System Controller's drivers for every value of their  *)
(* constants: however large the transmit FIFO and however many calls,      *)
(* events and pages there are.                                             *)
(*                                                                         *)
(* The invariant follows the one command that is not an ISP's from the     *)
(* transmit FIFO through the controller and the receive FIFO into the      *)
(* caller's buffer: it is in one of these places and in no two of them.    *)
(***************************************************************************)
EXTENDS SystemServices, SequenceTheorems, TLAPS

Names  == DOMAIN service
Ops    == {service[n].op : n \in Names}
Events == {"F1", "tamper", "exit"}

Cells == [kind : {"opcode", "rest", "page"}, name : Names \cup {"none"}, tag : Nat]
RxSet == [cmd : BOOLEAN, val : Ops \cup Events \cup {"data"}, tag : Nat]

EnvmSettings == {"design", "max", "default"}
MuxSettings  == {"design", "standby", "default"}

SysRecord ==
  [device : Devices, design : Facc1, facc1_cr : Facc1, initial_facc1_cr : Facc1,
   divisor : [Dividers -> 0..7], envm_cr : EnvmSettings, facc2_cr : MuxSettings,
   initial_envm_cr : EnvmSettings, initial_facc2_cr : MuxSettings,
   g_mode : ProgModes, sysBusy : BOOLEAN, length : Nat,
   state : {"IDLE", "TX_CMD", "TX_PAGED_DATA", "WAIT_RESPONSE", "RX_RESPONSE"},
   in_progress : BOOLEAN, opcode : Ops \cup {"none"}, name : Names \cup {"none"}, tag : Nat,
   cmdLeft : Nat, pages : Nat, pagesRead : Nat, resp : Seq(RxSet), gone : BOOLEAN,
   size : Nat, idx : Nat, handler : {"none", "request", "isp"}, irq : SUBSET {"RX", "TX"},
   tx : Seq(Cells)]

(* Where the next byte of a response goes.                                 *)
Reading(d) == d.state = "RX_RESPONSE" => d.idx # 0 /\ (d.gone \/ Len(d.resp) = d.idx)

Types ==
  /\ sys \in SysRecord /\ Len(sys.tx) <= TxFifo /\ Reading(sys)
  /\ rxBytes \in Seq(RxSet)
  /\ thread \in [at : {"free", "prepare", "start", "wait"}, todo : Seq(Requests)]
  /\ ctl \in [at : {"idle", "command", "execute"}, name : Names \cup {"none"}, tag : Nat,
              frozen : BOOLEAN, locked : BOOLEAN]
  /\ calls \in Nat /\ events \in Nat

----------------------------------------------------------------------------
(* What is left of a call's plan: a digest check before what is verified,  *)
(* and the number of keys after what locks eNVM-1.                         *)
PlanLeft ==
  LET todo == thread.todo
  IN  IF thread.at = "free" THEN todo = <<>>
      ELSE \/ Len(todo) = 1 /\ todo[1].name \notin PufLocks
           \/ /\ Len(todo) = 2 /\ todo[2].name \notin PufLocks
              /\ todo[1].name = "check_digest"
           \/ /\ Len(todo) = 2 /\ todo[2].name = "puf_get_number_of_keys"
              /\ todo[1].name \in PufLocks

(* The request in hand. *)
Now == thread.todo[1]

(* Who keeps the driver busy: the thread that waits, or an ISP.            *)
Turn ==
  /\ sys.in_progress <=> sys.handler # "none"
  /\ sys.handler = "isp" => sys.sysBusy /\ thread.at # "wait"
  /\ thread.at = "wait" /\ sys.sysBusy <=> sys.handler = "request"
  /\ sys.sysBusy /\ thread.at # "wait" => sys.opcode = "start_isp"
  /\ thread.at = "wait" =>
       /\ service[Now.name].via # "paged"
       /\ sys.opcode = service[Now.name].op /\ sys.size = service[Now.name].len
       /\ sys.irq = {"RX"} /\ ~sys.gone
       /\ sys.state \in {"IDLE", "TX_CMD", "WAIT_RESPONSE", "RX_RESPONSE"}
       /\ sys.state \in {"TX_CMD", "WAIT_RESPONSE"} => sys.sysBusy

(* Where the command of the thread is, on its way and back.                *)
Commands(tx) == {i \in 1..Len(tx) : tx[i].kind = "opcode" /\ tx[i].name # "start_isp"}
Replies(rx)  == {i \in 1..Len(rx) : rx[i].cmd /\ rx[i].val \notin Events \cup {"start_isp"}}

InTx  == Commands(sys.tx)
InCtl == ctl.at # "idle" /\ ctl.name # "start_isp"
InRx  == Replies(rxBytes)

Unanswered == thread.at = "wait" /\ sys.state \in {"TX_CMD", "WAIT_RESPONSE"} /\ InRx = {}

Sent ==
  /\ InTx # {} => Unanswered /\ ~InCtl
  /\ InCtl     => Unanswered /\ ctl.name = Now.name /\ ctl.tag = calls
  /\ InRx # {} => thread.at = "wait" /\ sys.state \in {"TX_CMD", "WAIT_RESPONSE"}
  /\ \A i, j \in InTx : i = j
  /\ \A i \in InTx : sys.tx[i].name = Now.name /\ sys.tx[i].tag = calls
  /\ \A i, j \in InRx : i = j

(* The data bytes of a response follow its opcode.                         *)
DataAt(rx, from, n, tag) ==
  /\ from + n <= Len(rx)
  /\ \A i \in 1..n : ~rx[from + i].cmd /\ rx[from + i].tag = tag

Ours(n) ==
  /\ Now.name # "zeroize" /\ Len(sys.resp) = n /\ sys.resp[1].val = sys.opcode
  /\ \A i \in 1..n : sys.resp[i].tag = calls

Result ==
  /\ \A i \in InRx :
       /\ rxBytes[i].val = sys.opcode /\ rxBytes[i].tag = calls
       /\ Now.name # "zeroize" /\ DataAt(rxBytes, i, sys.size - 1, calls)
  /\ thread.at = "wait" /\ sys.sysBusy /\ sys.state = "RX_RESPONSE" =>
       \/ sys.idx = 1 /\ Len(sys.resp) = 1 /\ sys.resp[1].val = "F1"
       \/ /\ sys.idx \in 1..sys.size - 1 /\ Ours(sys.idx) /\ DataAt(rxBytes, 0, sys.size - sys.idx, calls)
  /\ thread.at = "wait" /\ ~sys.sysBusy =>
       /\ Now.name # "zeroize"
       /\ "overwritten" \notin upset =>
            sys.state = "IDLE" /\ sys.length = sys.size /\ Ours(sys.size)

(* eNVM-1 is locked only between the two services of a plan.               *)
Locked ==
  ctl.locked =>
    /\ thread.at # "free" /\ Now.name \in PufLocks \cup {"puf_get_number_of_keys"}
    /\ thread.at = "wait" /\ Now.name = "puf_get_number_of_keys" => Unanswered

(* The timing and the clock selection are raised while something programs. *)
Lifted == /\ sys.envm_cr = "max" /\ sys.initial_envm_cr = "design"
          /\ sys.facc2_cr = "standby" /\ sys.initial_facc2_cr = "design"
Design == sys.envm_cr = "design" /\ sys.facc2_cr = "design"

Registers ==
  /\ thread.at = "start" /\ Now.name = "start_isp" => sys.g_mode = Now.mode
  /\ upset \cap {"divisor", "overlap", "forgotten"} = {} =>
       /\ thread.at \in {"free", "prepare"} =>
            IF IspRuns /\ sys.g_mode # "authenticate" THEN Lifted ELSE Design
       /\ thread.at = "start" /\ Programs(Now) => Lifted /\ ~IspRuns
       /\ thread.at = "start" /\ ~Programs(Now) /\ ~sys.sysBusy => Design
       /\ thread.at = "wait" => IF Programs(Now) THEN Lifted ELSE Design

(* The dividers can be put back from what was remembered of them.          *)
Freezing == thread.at \in {"start", "wait"} /\ Now.name = "flash_freeze"

Undoable ==
  /\ sys.device = "010-150" => sys.initial_facc1_cr = sys.design
  /\ sys.device = "005" => sys.divisor = sys.design.div
  /\ sys.device = "060" => sys.facc1_cr = sys.design

Clocks ==
  /\ sys.design \in Designs(sys.device)
  /\ \A i \in 1..Len(rxBytes) : rxBytes[i].val = "exit" => rxBytes[i].cmd /\ ctl.frozen
  /\ "switched" \notin upset =>
       /\ ~ctl.frozen /\ ~Freezing => sys.facc1_cr = sys.design
       /\ ctl.frozen \/ Freezing => Undoable
       /\ thread.at = "wait" /\ Freezing /\ ~ctl.frozen => Unanswered

SysInv ==
  /\ Types /\ PlanLeft /\ Turn /\ Sent /\ Result /\ Locked /\ Registers /\ Clocks
----------------------------------------------------------------------------
(* What the tables say of every service.                                   *)
Fine(n, s) ==
  /\ s.len \in {0, 2, 3, 6} /\ (s.len = 0 <=> n = "zeroize")
  /\ s.via \in {"ptr", "cmd", "byte", "paged"} /\ (s.via = "paged" <=> n = "start_isp")
  /\ s.op = "start_isp" <=> n = "start_isp"
  /\ s.op \notin Events \cup {"data", "none"}

AllFine(f) == \A n \in DOMAIN f : Fine(n, f[n])

LEMMA TablesFine == \A table \in Services : AllFine(table)
<1> USE DEF AllFine, Fine, Service, Events
<1>1. AllFine(DesignServices) /\ AllFine(CertificateServices) /\ AllFine(AesServices)
  BY DEF DesignServices, CertificateServices, AesServices
<1>2. AllFine(HashServices) /\ AllFine(KeyServices) /\ AllFine(EccServices)
  BY DEF HashServices, KeyServices, EccServices
<1>3. AllFine(NrbgStart) /\ AllFine(NrbgUse) /\ AllFine(ZeroizeService)
  BY DEF NrbgStart, NrbgUse, ZeroizeService
<1>4. AllFine(PufActivation) /\ AllFine(PufKeys) /\ AllFine(PufUse)
  BY DEF PufActivation, PufKeys, PufUse
<1>5. AllFine(ClockMonitor) /\ AllFine(TamperClear) /\ AllFine(ClockedServices)
  BY DEF ClockMonitor, TamperClear, ClockedServices
<1> HIDE DEF AllFine
<1> QED BY <1>1, <1>2, <1>3, <1>4, <1>5 DEF Services

LEMMA ServiceFine == ASSUME NEW n \in Names PROVE Fine(n, service[n])
<1>1. PICK t \in Services : n \in DOMAIN t
  BY DEF Names, service
<1> DEFINE c == CHOOSE table \in Services : n \in DOMAIN table
<1>2. c \in Services /\ n \in DOMAIN c
  BY <1>1
<1>3. service[n] = c[n]
  BY <1>1 DEF service
<1> HIDE DEF c
<1> QED BY <1>2, <1>3, TablesFine DEF AllFine

LEMMA SomeNames ==
  PufLocks \cup {"puf_get_number_of_keys", "start_isp", "initiate_iap", "check_digest",
                 "flash_freeze", "zeroize"} \subseteq Names
<1>1. DOMAIN PufActivation \cup DOMAIN PufKeys \cup DOMAIN ClockedServices \cup DOMAIN ZeroizeService \subseteq Names
  BY DEF Names, service, Services
<1> QED BY <1>1 DEF PufActivation, PufKeys, ClockedServices, PufLocks, ZeroizeService

----------------------------------------------------------------------------
(* The functions of mss_comblk.c.                                          *)

LEMMA RecordIs ==
  ASSUME NEW d \in SysRecord
  PROVE  /\ d.device \in Devices /\ d.design \in Facc1 /\ d.facc1_cr \in Facc1
         /\ d.initial_facc1_cr \in Facc1 /\ d.divisor \in [Dividers -> 0..7]
         /\ d.envm_cr \in EnvmSettings /\ d.facc2_cr \in MuxSettings
         /\ d.tx \in Seq(Cells) /\ d.resp \in Seq(RxSet) /\ d.irq \subseteq {"RX", "TX"}
         /\ d.idx \in Nat /\ d.size \in Nat /\ d.cmdLeft \in Nat /\ d.pages \in Nat
         /\ d.pagesRead \in Nat /\ d.name \in Names \cup {"none"} /\ d.tag \in Nat
BY DEF SysRecord

LEMMA Pushed ==
  ASSUME NEW d \in SysRecord, NEW kind, kind \in {"opcode", "rest", "page"}, NEW n \in Nat
  PROVE  /\ Push(d, kind, n) = [d EXCEPT !.tx = Push(d, kind, n).tx]
         /\ Push(d, kind, n) \in SysRecord
         /\ Len(Push(d, kind, n).tx) = Len(d.tx) + n
         /\ \A i \in 1..Len(d.tx) : Push(d, kind, n).tx[i] = d.tx[i]
         /\ \A i \in 1..n : Push(d, kind, n).tx[Len(d.tx) + i]
                              = [kind |-> kind, name |-> d.name, tag |-> d.tag]
<1> DEFINE new == [i \in 1..n |-> [kind |-> kind, name |-> d.name, tag |-> d.tag]]
           s   == d.tx \o new
<1>1. d.tx \in Seq(Cells) /\ d.name \in Names \cup {"none"} /\ d.tag \in Nat
  BY RecordIs
<1>2. new \in Seq(Cells) /\ Len(new) = n
      /\ \A i \in 1..n : new[i] = [kind |-> kind, name |-> d.name, tag |-> d.tag]
  BY <1>1 DEF Cells
<1>3. Push(d, kind, n) = [d EXCEPT !.tx = s]
  BY DEF Push
<1>4. /\ s \in Seq(Cells) /\ Len(s) = Len(d.tx) + n
      /\ \A i \in 1..Len(d.tx) + n : s[i] = IF i <= Len(d.tx) THEN d.tx[i] ELSE new[i - Len(d.tx)]
  <2> DEFINE old == d.tx
  <2>1. old \in Seq(Cells)
    BY <1>1
  <2> HIDE DEF old, new
  <2>2. /\ old \o new \in Seq(Cells) /\ Len(old \o new) = Len(old) + n
        /\ \A i \in 1..Len(old) + n : (old \o new)[i] = IF i <= Len(old) THEN old[i] ELSE new[i - Len(old)]
    BY <1>2, <2>1, ConcatProperties
  <2> QED BY <2>2 DEF old
<1> HIDE DEF new
<1> HIDE DEF s
<1>5. [d EXCEPT !.tx = s] \in SysRecord /\ [d EXCEPT !.tx = s].tx = s
  BY <1>4 DEF SysRecord
<1>6. Len(d.tx) \in Nat
  BY <1>1, LenProperties
<1>7. \A i \in 1..Len(d.tx) : s[i] = d.tx[i]
  BY <1>4, <1>6
<1>8. ASSUME NEW i \in 1..n PROVE s[Len(d.tx) + i] = new[i]
  <2>1. Len(d.tx) + i \in 1..Len(d.tx) + n /\ ~(Len(d.tx) + i <= Len(d.tx))
        /\ (Len(d.tx) + i) - Len(d.tx) = i
    BY <1>6
  <2> QED BY <1>4, <2>1
<1> QED BY <1>2, <1>3, <1>4, <1>5, <1>7, <1>8

LEMMA StepBackRange ==
  ASSUME NEW val \in 0..7, NEW now \in 0..7
  PROVE  /\ StepBack(val, now) \in 0..7 /\ StepDown(val) \in 0..7
         /\ val \in {0, 1, 2, 4, 5, 6} => StepBack(val, now) = val
BY DEF StepBack, StepDown, determine_seq

Reverted(d) == revert_clk_config(d.device, d.facc1_cr, d.divisor, d.initial_facc1_cr)

LEMMA RevertType == ASSUME NEW d \in SysRecord PROVE Reverted(d) \in Facc1
<1>1. /\ d.device \in Devices /\ d.facc1_cr \in Facc1 /\ d.initial_facc1_cr \in Facc1
      /\ d.divisor \in [Dividers -> 0..7]
  BY RecordIs
<1>2. CASE d.device = "005"
  <2> DEFINE div == [i \in Dividers |-> StepBack(d.divisor[i], d.facc1_cr.div[i])]
  <2>1. \A i \in Dividers : StepBack(d.divisor[i], d.facc1_cr.div[i]) \in 0..7
    BY <1>1, StepBackRange DEF Facc1
  <2>2. div \in [Dividers -> 0..7]
    BY <2>1
  <2> HIDE DEF div
  <2>3. [div |-> div, standby |-> FALSE] \in Facc1
    BY <2>2 DEF Facc1
  <2> QED BY <1>2, <2>3 DEF Reverted, revert_clk_config, div
<1>3. CASE d.device # "005"
  BY <1>1, <1>3 DEF Reverted, revert_clk_config, Devices
<1> QED BY <1>2, <1>3

LEMMA EventIs ==
  ASSUME NEW d \in SysRecord, NEW op
  PROVE  /\ process_sys_ctrl_command(d, op) =
              [d EXCEPT !.facc1_cr = IF op = "exit" THEN Reverted(d) ELSE d.facc1_cr]
         /\ process_sys_ctrl_command(d, op) \in SysRecord
<1>1. [d EXCEPT !.facc1_cr = d.facc1_cr] = d /\ d.facc1_cr \in Facc1
  BY DEF SysRecord
<1>2. \A x \in Facc1 : [d EXCEPT !.facc1_cr = x] \in SysRecord
  BY DEF SysRecord
<1> QED BY <1>1, <1>2, RevertType
        DEF process_sys_ctrl_command, asynchronous_event_handler, Reverted

Resp(d, i, b) == Store(d, i, b).resp

LEMMA StoredAt ==
  ASSUME NEW d \in SysRecord, NEW i \in Nat \ {0}, NEW b \in RxSet,
         ~d.gone, i - 1 <= Len(d.resp)
  PROVE  /\ Resp(d, i, b) \in Seq(RxSet) /\ Len(Resp(d, i, b)) = i /\ Resp(d, i, b)[i] = b
         /\ \A j \in 1..i - 1 : Resp(d, i, b)[j] = d.resp[j]
<1> DEFINE old == d.resp
           first == SubSeq(old, 1, i - 1)
           r == first \o <<b>>
<1>1. old \in Seq(RxSet)
  BY RecordIs
<1>2. i - 1 <= Len(old) /\ Len(old) \in Nat
  BY <1>1, LenProperties
<1> HIDE DEF old
<1>3. /\ first \in Seq(RxSet) /\ Len(first) = i - 1 /\ \A j \in 1..i - 1 : first[j] = old[j]
  <2>1. \A j \in 1..i - 1 : j \in 1..Len(old) /\ old[j] \in RxSet
    BY <1>1, <1>2
  <2>2. /\ first \in Seq(RxSet) /\ Len(first) = IF 1 <= i - 1 THEN i - 1 - 1 + 1 ELSE 0
        /\ \A j \in 1..i - 1 - 1 + 1 : first[j] = old[1 + j - 1]
    BY <2>1, <1>1, SubSeqProperties
  <2> HIDE DEF first
  <2> QED BY <2>2
<1> HIDE DEF first
<1>4. <<b>> \in Seq(RxSet) /\ Len(<<b>>) = 1 /\ <<b>>[1] = b
  OBVIOUS
<1>5. /\ first \o <<b>> \in Seq(RxSet) /\ Len(first \o <<b>>) = Len(first) + Len(<<b>>)
      /\ \A j \in 1..Len(first) + Len(<<b>>) :
           (first \o <<b>>)[j] = IF j <= Len(first) THEN first[j] ELSE <<b>>[j - Len(first)]
  <2> HIDE DEF RxSet
  <2> QED BY <1>3, <1>4, ConcatProperties
<1>6. r \in Seq(RxSet) /\ Len(r) = i /\ r[i] = b /\ \A j \in 1..i - 1 : r[j] = old[j]
  BY <1>3, <1>4, <1>5
<1>7. Resp(d, i, b) = r
  BY DEF Resp, Store, SysRecord, first, old
<1> HIDE DEF r
<1> QED BY <1>6, <1>7 DEF old

LEMMA StoreIs ==
  ASSUME NEW d \in SysRecord, NEW i \in Nat \ {0}, NEW b \in RxSet,
         d.gone \/ i - 1 <= Len(d.resp)
  PROVE  /\ Store(d, i, b) = [d EXCEPT !.resp = Resp(d, i, b)]
         /\ Store(d, i, b) \in SysRecord
         /\ d.gone => Resp(d, i, b) = d.resp
<1>1. CASE d.gone
  BY <1>1 DEF Store, Resp, SysRecord
<1>2. CASE ~d.gone
  <2> DEFINE r == Resp(d, i, b)
  <2>1. r \in Seq(RxSet)
    BY <1>2, StoredAt
  <2>2. Store(d, i, b) = [d EXCEPT !.resp = r]
    BY <1>2 DEF Store, Resp, SysRecord
  <2> HIDE DEF r
  <2>3. [d EXCEPT !.resp = r] \in SysRecord
    BY <2>1 DEF SysRecord
  <2> QED BY <1>2, <2>2, <2>3 DEF r
<1> QED BY <1>1, <1>2

(* What an interrupt may do to the record while no thread waits: the       *)
(* request, the turn and what was saved stay, an ISP may complete, and of  *)
(* the cells it sends none begins a command.                               *)
Steady(d, e) ==
  /\ e.device = d.device /\ e.design = d.design /\ e.sysBusy = d.sysBusy
  /\ e.length = d.length /\ e.opcode = d.opcode /\ e.name = d.name /\ e.tag = d.tag
  /\ e.divisor = d.divisor /\ e.initial_facc1_cr = d.initial_facc1_cr
  /\ e.initial_envm_cr = d.initial_envm_cr /\ e.initial_facc2_cr = d.initial_facc2_cr
  /\ e.g_mode = d.g_mode /\ e.size = d.size /\ e.gone = d.gone

Ends(d, e) ==
  /\ d.handler = "isp" /\ e.handler = "none" /\ ~e.in_progress
  /\ IF d.g_mode = "authenticate"
     THEN e.envm_cr = d.envm_cr /\ e.facc2_cr = d.facc2_cr
     ELSE e.envm_cr = d.initial_envm_cr /\ e.facc2_cr = d.initial_facc2_cr

Runs(d, e) ==
  /\ e.handler = d.handler /\ e.in_progress = d.in_progress
  /\ e.envm_cr = d.envm_cr /\ e.facc2_cr = d.facc2_cr

NoCommand(d, e) ==
  \A i \in 1..Len(e.tx) : e.tx[i].kind = "opcode" => \E j \in 1..Len(d.tx) : e.tx[i] = d.tx[j]

Impact(d, e) ==
  /\ Steady(d, e) /\ (Ends(d, e) \/ Runs(d, e)) /\ NoCommand(d, e)
  /\ Len(d.tx) <= TxFifo => Len(e.tx) <= TxFifo

LEMMA EffectIdle == ASSUME NEW d \in SysRecord PROVE Impact(d, d)
BY DEF Impact, Steady, Runs, NoCommand

LEMMA EffectJoins ==
  ASSUME NEW d, NEW e, NEW f, Impact(d, e), Impact(e, f)
  PROVE  Impact(d, f)
<1>1. Steady(d, f)
  BY DEF Impact, Steady
<1>2. Ends(d, f) \/ Runs(d, f)
  BY DEF Impact, Steady, Ends, Runs
<1>3. NoCommand(d, f)
  BY DEF Impact, NoCommand
<1> QED BY <1>1, <1>2, <1>3 DEF Impact

LEMMA IspCompletes ==
  ASSUME NEW d \in SysRecord, d.handler # "request", d.in_progress <=> d.handler # "none",
         NEW n \in Nat
  PROVE  LET e == complete_request(d, n)
         IN  /\ e \in SysRecord /\ Impact(d, e)
             /\ e.state = d.state /\ e.idx = d.idx /\ e.resp = d.resp /\ e.tx = d.tx
             /\ e.facc1_cr = d.facc1_cr /\ e.handler = "none"
<1>1. CASE d.handler = "none"
  BY <1>1, EffectIdle DEF complete_request
<1>2. CASE d.handler = "isp"
  <2> DEFINE e == complete_request(d, n)
  <2>1. e = IF d.g_mode = "authenticate" THEN [d EXCEPT !.handler = "none", !.in_progress = FALSE]
            ELSE [d EXCEPT !.handler = "none", !.in_progress = FALSE,
                           !.envm_cr = d.initial_envm_cr, !.facc2_cr = d.initial_facc2_cr]
    BY <1>2 DEF complete_request, isp_sys_completion_handler, SysRecord
  <2> HIDE DEF e
  <2>2. e \in SysRecord
    BY ZenonT(60), <2>1 DEF SysRecord
  <2>3. Steady(d, e) /\ Ends(d, e)
    BY <1>2, <2>1 DEF SysRecord, Steady, Ends
  <2>4. /\ e.state = d.state /\ e.idx = d.idx /\ e.resp = d.resp /\ e.tx = d.tx
        /\ e.facc1_cr = d.facc1_cr /\ e.handler = "none"
    BY <2>1 DEF SysRecord
  <2>5. Impact(d, e)
    BY <2>3, <2>4 DEF Impact, NoCommand
  <2> QED BY <2>2, <2>4, <2>5 DEF e
<1>3. d.handler \in {"none", "request", "isp"}
  BY DEF SysRecord
<1> QED BY <1>1, <1>2, <1>3

LEMMA RequestCompletes ==
  ASSUME NEW d \in SysRecord, d.handler = "request", NEW n \in Nat
  PROVE  /\ complete_request(d, n) = [d EXCEPT !.sysBusy = FALSE, !.length = n,
                                               !.handler = "none", !.in_progress = FALSE]
         /\ complete_request(d, n) \in SysRecord
BY ZenonT(60) DEF complete_request, request_completion_handler, SysRecord

(* A byte is received.                                                     *)
Begun(d, b) == [Store(d, 1, b) EXCEPT !.idx = 1, !.state = "RX_RESPONSE"]
Event(d, b) == process_sys_ctrl_command(d, b.val)
Exits(b) == b.cmd /\ b.val = "exit"

LEMMA OpsAreNoEvents ==
  \A op \in Ops \cup {"none"} : op \notin Events \cup {"data"}
BY ServiceFine DEF Ops, Fine, Events

LEMMA StoredFirst ==
  ASSUME NEW d \in SysRecord, NEW b \in RxSet
  PROVE  Store(d, 1, b) = [d EXCEPT !.resp = IF d.gone THEN d.resp ELSE <<b>>]
<1> DEFINE old == d.resp
           first == SubSeq(old, 1, 1 - 1)
<1>1. old \in Seq(RxSet)
  BY RecordIs
<1> HIDE DEF old
<1>2. first \in Seq(RxSet) /\ Len(first) = 0
  BY <1>1, SubSeqProperties
<1>3. first = <<>>
  BY <1>2, EmptySeq
<1> HIDE DEF first
<1>4. first \o <<b>> = <<b>>
  BY <1>3, ConcatEmptySeq
<1>5. CASE d.gone
  BY <1>5 DEF Store, SysRecord
<1>6. CASE ~d.gone
  BY <1>4, <1>6 DEF Store, first, old
<1> QED BY <1>5, <1>6

LEMMA BegunIs ==
  ASSUME NEW d \in SysRecord, NEW b \in RxSet
  PROVE  LET e == Begun(d, b)
         IN  /\ e = [d EXCEPT !.resp = e.resp, !.idx = 1, !.state = "RX_RESPONSE"]
             /\ e \in SysRecord /\ Reading(e)
             /\ ~d.gone => e.resp = <<b>>
<1> DEFINE r == IF d.gone THEN d.resp ELSE <<b>>
           e == [d EXCEPT !.resp = r, !.idx = 1, !.state = "RX_RESPONSE"]
<1>1. r \in Seq(RxSet) /\ (~d.gone => r = <<b>> /\ Len(r) = 1)
  BY RecordIs
<1>2. Store(d, 1, b) = [d EXCEPT !.resp = r]
  BY StoredFirst
<1> HIDE DEF r
<1>3. Begun(d, b) = e
  BY <1>2 DEF Begun, SysRecord
<1>4. e \in SysRecord /\ e.resp = r /\ e.idx = 1 /\ e.state = "RX_RESPONSE" /\ e.gone = d.gone
  BY <1>1 DEF SysRecord
<1>5. e = [d EXCEPT !.resp = e.resp, !.idx = 1, !.state = "RX_RESPONSE"]
  BY <1>4
<1> HIDE DEF e
<1>6. Reading(e)
  BY <1>1, <1>4 DEF Reading
<1> QED BY <1>1, <1>3, <1>4, <1>5, <1>6

(* The data bytes: the one before was 0xF1, there is room, or there is not.*)
Swallows(d, b) == [Store(d, d.idx + 1, b) EXCEPT !.state = "IDLE"]
Grows(d, b)    == [Store(d, d.idx + 1, b) EXCEPT !.idx = d.idx + 1]

LEMMA GrowsIs ==
  ASSUME NEW d \in SysRecord, Reading(d), d.state = "RX_RESPONSE", NEW b \in RxSet
  PROVE  LET r == Resp(d, d.idx + 1, b)
         IN  /\ Swallows(d, b) = [d EXCEPT !.resp = r, !.state = "IDLE"]
             /\ Grows(d, b) = [d EXCEPT !.resp = r, !.idx = d.idx + 1]
             /\ Swallows(d, b) \in SysRecord /\ Grows(d, b) \in SysRecord
             /\ Reading(Swallows(d, b)) /\ Reading(Grows(d, b))
             /\ ~d.gone => /\ Len(r) = d.idx + 1 /\ r[d.idx + 1] = b
                           /\ \A j \in 1..d.idx : r[j] = d.resp[j]
<1> DEFINE i == d.idx + 1
           r == Resp(d, i, b)
<1>1. d.idx \in Nat
  BY RecordIs
<1>2. i \in Nat \ {0} /\ i - 1 = d.idx /\ i = d.idx + 1
  BY <1>1
<1>3. d.gone \/ i - 1 <= Len(d.resp)
  BY <1>1, <1>2 DEF Reading
<1> HIDE DEF i
<1>4. Store(d, i, b) = [d EXCEPT !.resp = r] /\ Store(d, i, b) \in SysRecord
  BY <1>2, <1>3, StoreIs
<1>5. ASSUME ~d.gone
      PROVE  Len(r) = i /\ r[i] = b /\ \A j \in 1..i - 1 : r[j] = d.resp[j]
  BY <1>2, <1>3, <1>5, StoredAt
<1>6. r \in Seq(RxSet)
  <2>1. Store(d, i, b).resp = r
    BY <1>4 DEF SysRecord
  <2> QED BY <1>4, <2>1, RecordIs
<1> HIDE DEF r
<1>7. Swallows(d, b) = [d EXCEPT !.resp = r, !.state = "IDLE"]
  BY <1>2, <1>4 DEF Swallows, SysRecord
<1>8. Grows(d, b) = [d EXCEPT !.resp = r, !.idx = i]
  BY <1>2, <1>4 DEF Grows, SysRecord
<1>9. Swallows(d, b) \in SysRecord /\ Reading(Swallows(d, b))
  <2>1. [d EXCEPT !.resp = r, !.state = "IDLE"] \in SysRecord
    BY <1>6 DEF SysRecord
  <2>2. Swallows(d, b).state = "IDLE"
    BY <1>7 DEF SysRecord
  <2> QED BY <1>7, <2>1, <2>2 DEF Reading
<1>10. Grows(d, b) \in SysRecord
  <2>1. i \in Nat
    BY <1>2
  <2>2. [d EXCEPT !.resp = r, !.idx = i] \in SysRecord
    BY <1>6, <2>1 DEF SysRecord
  <2> QED BY <1>8, <2>2
<1>11. Reading(Grows(d, b))
  <2>1. Grows(d, b).resp = r /\ Grows(d, b).idx = i /\ Grows(d, b).gone = d.gone
    BY <1>8 DEF SysRecord
  <2> QED BY <1>2, <1>5, <2>1 DEF Reading
<1> QED BY <1>2, <1>5, <1>7, <1>8, <1>9, <1>10, <1>11 DEF r

LEMMA ResponseSteps ==
  ASSUME NEW d \in SysRecord, Reading(d), d.state = "RX_RESPONSE", NEW b \in RxSet, ~b.cmd,
         NEW stray \in BOOLEAN
  PROVE  LET e == handle_rx_response(d, b, stray)
         IN  IF IF d.gone THEN stray ELSE d.resp[d.idx].val = "F1" THEN e = Swallows(d, b)
             ELSE IF d.idx < d.size
             THEN e = IF d.idx + 1 = d.size
                      THEN [complete_request(Grows(d, b), d.size) EXCEPT !.state = "IDLE"]
                      ELSE Grows(d, b)
             ELSE e = IF d.idx = d.size THEN [complete_request(d, d.size) EXCEPT !.state = "IDLE"]
                      ELSE d
<1> DEFINE f == Store(d, d.idx + 1, b)
           r == f.resp
<1>1. f = [d EXCEPT !.resp = r] /\ f \in SysRecord
  <2>1. d.idx \in Nat
    BY RecordIs
  <2>2. d.idx + 1 \in Nat \ {0} /\ (d.idx + 1) - 1 = d.idx
    BY <2>1
  <2>3. d.gone \/ d.idx <= Len(d.resp)
    BY <2>1 DEF Reading
  <2> QED BY <2>2, <2>3, StoreIs DEF Resp
<1> HIDE DEF f
<1>2. process_sys_ctrl_command(f, "F1") = f
  BY DEF process_sys_ctrl_command, asynchronous_event_handler
<1>3. f.idx = d.idx /\ f.size = d.size
  BY <1>1 DEF SysRecord
<1>4. [f EXCEPT !.idx = @ + 1] = [f EXCEPT !.idx = d.idx + 1]
      /\ [f EXCEPT !.idx = d.idx + 1].idx = d.idx + 1 /\ [f EXCEPT !.idx = d.idx + 1].size = d.size
  BY <1>1, <1>3 DEF SysRecord
<1> DEFINE F1 == IF d.gone THEN stray ELSE d.resp[d.idx].val = "F1"
           g  == IF d.idx < d.size THEN Grows(d, b) ELSE d
<1>5. handle_rx_response(d, b, stray) =
        IF F1 THEN Swallows(d, b)
        ELSE IF g.idx = g.size THEN [complete_request(g, g.idx) EXCEPT !.state = "IDLE"] ELSE g
  <2>1. g = IF d.idx < d.size THEN [f EXCEPT !.idx = @ + 1] ELSE d
    BY <1>4 DEF Grows, f
  <2> HIDE DEF g
  <2>2. Swallows(d, b) = [process_sys_ctrl_command(f, "F1") EXCEPT !.state = "IDLE"]
    BY <1>2 DEF Swallows, f
  <2> QED BY <2>1, <2>2 DEF handle_rx_response, f
<1>6. g.idx = (IF d.idx < d.size THEN d.idx + 1 ELSE d.idx) /\ g.size = d.size
  BY <1>4 DEF Grows, f
<1> HIDE DEF F1
<1>7. CASE d.idx < d.size
  BY <1>5, <1>6, <1>7 DEF F1
<1>8. CASE ~(d.idx < d.size)
  BY <1>5, <1>6, <1>8 DEF F1
<1> QED BY <1>7, <1>8

(* Whoever waits, a byte changes the response and at most the dividers.    *)
LEMMA RxElsewhere ==
  ASSUME NEW d \in SysRecord, Reading(d), NEW b \in RxSet, NEW stray \in BOOLEAN,
         d.handler # "request", d.in_progress <=> d.handler # "none"
  PROVE  LET e == handle_rx_okay_irq(d, b, stray)
         IN  /\ e \in SysRecord /\ Reading(e) /\ Impact(d, e)
             /\ e.facc1_cr = IF Exits(b) THEN Reverted(d) ELSE d.facc1_cr
             /\ e.tx = d.tx /\ e.irq = d.irq
             /\ d.state \in {"IDLE", "RX_RESPONSE"} => e.state \in {"IDLE", "RX_RESPONSE"}
             /\ d.state = "IDLE" => e.state = "RX_RESPONSE" \/ e.resp = d.resp
<1> DEFINE e == handle_rx_okay_irq(d, b, stray)
           Good(x) == /\ x \in SysRecord /\ Reading(x) /\ Impact(d, x)
                      /\ x.facc1_cr = IF Exits(b) THEN Reverted(d) ELSE d.facc1_cr
                      /\ x.tx = d.tx /\ x.irq = d.irq
<1>1. d.opcode \notin Events
  BY OpsAreNoEvents DEF SysRecord
<1>2. ASSUME b.cmd PROVE Good(Event(d, b)) /\ Event(d, b).state = d.state /\ Event(d, b).resp = d.resp
  <2> DEFINE x == Event(d, b)
             c == IF Exits(b) THEN Reverted(d) ELSE d.facc1_cr
  <2>1. x = [d EXCEPT !.facc1_cr = c] /\ x \in SysRecord
    BY <1>2, EventIs DEF Event, Exits
  <2> HIDE DEF x, c
  <2>2. Reading(x) /\ x.facc1_cr = c /\ x.tx = d.tx /\ x.irq = d.irq /\ x.state = d.state
        /\ x.resp = d.resp
    BY <2>1 DEF SysRecord, Reading
  <2>3. Impact(d, x)
    BY <2>1, <2>2 DEF SysRecord, Impact, Steady, Runs, NoCommand
  <2> QED BY <2>1, <2>2, <2>3 DEF x, c
<1>3. ASSUME ~Exits(b) PROVE Good(d)
  BY <1>3, EffectIdle
<1>4. ASSUME b.cmd, ~Exits(b) PROVE Good(Begun(d, b)) /\ Begun(d, b).state = "RX_RESPONSE"
  <2> DEFINE x == Begun(d, b)
  <2>1. /\ x = [d EXCEPT !.resp = x.resp, !.idx = 1, !.state = "RX_RESPONSE"]
        /\ x \in SysRecord /\ Reading(x)
    BY BegunIs
  <2> HIDE DEF x
  <2>2. x.facc1_cr = d.facc1_cr /\ x.tx = d.tx /\ x.irq = d.irq /\ x.state = "RX_RESPONSE"
    BY <2>1 DEF SysRecord
  <2>3. Impact(d, x)
    BY ZenonT(60), <2>1, <2>2 DEF SysRecord, Impact, Steady, Runs, NoCommand
  <2> QED BY <1>4, <2>1, <2>2, <2>3 DEF x
<1> HIDE DEF Good
<1>5. CASE d.state = "IDLE"
  <2>1. e = IF ~b.cmd THEN d ELSE IF b.val # "F1" THEN Event(d, b) ELSE Begun(d, b)
    BY <1>5 DEF handle_rx_okay_irq, handle_rx_idle, Event, Begun
  <2>2. b.val = "F1" => ~Exits(b)
    BY DEF Exits
  <2>3. ~b.cmd => ~Exits(b)
    BY DEF Exits
  <2> QED BY <1>2, <1>3, <1>4, <1>5, <2>1, <2>2, <2>3 DEF Good
<1>6. CASE d.state = "WAIT_RESPONSE"
  <2>1. e = IF ~b.cmd THEN d ELSE IF b.val # d.opcode THEN Event(d, b) ELSE Begun(d, b)
    BY <1>6 DEF handle_rx_okay_irq, handle_rx_wait, Event, Begun
  <2>2. b.val = d.opcode => ~Exits(b)
    BY <1>1 DEF Exits, Events
  <2>3. ~b.cmd => ~Exits(b)
    BY DEF Exits
  <2> QED BY <1>2, <1>3, <1>4, <1>6, <2>1, <2>2, <2>3 DEF Good
<1>7. CASE d.state = "TX_CMD"
  <2>1. e = IF b.cmd THEN Event(d, b) ELSE d
    BY <1>7 DEF handle_rx_okay_irq, Event
  <2>2. ~b.cmd => ~Exits(b)
    BY DEF Exits
  <2> QED BY <1>2, <1>3, <1>7, <2>1, <2>2 DEF Good
<1>8. ASSUME NEW x \in SysRecord, Reading(x), Impact(d, x), x.handler # "request",
             x.in_progress <=> x.handler # "none", NEW n \in Nat, ~Exits(b),
             x.facc1_cr = d.facc1_cr, x.tx = d.tx, x.irq = d.irq
      PROVE  Good([complete_request(x, n) EXCEPT !.state = "IDLE"])
             /\ [complete_request(x, n) EXCEPT !.state = "IDLE"].state = "IDLE"
  <2> DEFINE y == complete_request(x, n)
             z == [y EXCEPT !.state = "IDLE"]
  <2>1. /\ y \in SysRecord /\ Impact(x, y) /\ y.state = x.state /\ y.idx = x.idx /\ y.resp = x.resp
        /\ y.tx = x.tx /\ y.facc1_cr = x.facc1_cr /\ y.handler = "none"
    BY <1>8, IspCompletes
  <2> HIDE DEF y
  <2>2. y.irq = x.irq
    BY <1>8 DEF y, complete_request, isp_sys_completion_handler, SysRecord
  <2>3. z \in SysRecord /\ z.state = "IDLE" /\ z.facc1_cr = y.facc1_cr /\ z.tx = y.tx /\ z.irq = y.irq
    BY ZenonT(60), <2>1 DEF SysRecord
  <2>4. Impact(y, z)
    BY <2>1, <2>3 DEF SysRecord, Impact, Steady, Runs, NoCommand
  <2> HIDE DEF z
  <2>5. Impact(d, z)
    BY <1>8, <2>1, <2>4, EffectJoins
  <2>6. Reading(z)
    BY <2>3 DEF Reading
  <2> QED BY <1>8, <2>1, <2>2, <2>3, <2>5, <2>6 DEF Good, y, z
<1>9. CASE d.state = "TX_PAGED_DATA"
  <2>1. e = IF b.cmd THEN Event(d, b) ELSE [complete_request(d, 2) EXCEPT !.state = "IDLE"]
    BY <1>9 DEF handle_rx_okay_irq, handle_rx_paged, Event
  <2>2. ~b.cmd => Good([complete_request(d, 2) EXCEPT !.state = "IDLE"])
    BY <1>8, EffectIdle DEF Exits
  <2> QED BY <1>2, <1>9, <2>1, <2>2 DEF Good
<1>10. CASE d.state = "RX_RESPONSE" /\ b.cmd
  <2>1. e = Event(d, b)
    BY <1>10 DEF handle_rx_okay_irq, handle_rx_response, Event
  <2> QED BY <1>2, <1>10, <2>1 DEF Good
<1>11. CASE d.state = "RX_RESPONSE" /\ ~b.cmd
  <2> DEFINE r == Resp(d, d.idx + 1, b)
             f == Swallows(d, b)
             g == Grows(d, b)
  <2>1. /\ f = [d EXCEPT !.resp = r, !.state = "IDLE"] /\ f \in SysRecord /\ Reading(f)
        /\ g = [d EXCEPT !.resp = r, !.idx = d.idx + 1] /\ g \in SysRecord /\ Reading(g)
    <3> HIDE DEF f, g, r
    <3>1. /\ Swallows(d, b) = [d EXCEPT !.resp = Resp(d, d.idx + 1, b), !.state = "IDLE"]
          /\ Grows(d, b) = [d EXCEPT !.resp = Resp(d, d.idx + 1, b), !.idx = d.idx + 1]
          /\ Swallows(d, b) \in SysRecord /\ Grows(d, b) \in SysRecord
          /\ Reading(Swallows(d, b)) /\ Reading(Grows(d, b))
      BY ZenonT(60), <1>11, GrowsIs
    <3> QED BY <3>1 DEF f, g, r
  <2>2. \/ e = f \/ e = g \/ e = d
        \/ e = [complete_request(g, d.size) EXCEPT !.state = "IDLE"]
        \/ e = [complete_request(d, d.size) EXCEPT !.state = "IDLE"]
    BY <1>11, ResponseSteps DEF handle_rx_okay_irq
  <2> HIDE DEF f, g, r
  <2>3. ~Exits(b) /\ d.size \in Nat
    BY <1>11, RecordIs DEF Exits
  <2>4. Impact(d, f) /\ f.state = "IDLE" /\ f.facc1_cr = d.facc1_cr /\ f.tx = d.tx /\ f.irq = d.irq
    BY <2>1 DEF SysRecord, Impact, Steady, Runs, NoCommand
  <2>5. Impact(d, g) /\ g.state = d.state /\ g.facc1_cr = d.facc1_cr /\ g.tx = d.tx /\ g.irq = d.irq
        /\ g.handler = d.handler /\ g.in_progress = d.in_progress
    BY <2>1 DEF SysRecord, Impact, Steady, Runs, NoCommand
  <2>6. Good(f) /\ Good(g)
    BY <2>1, <2>3, <2>4, <2>5 DEF Good
  <2>7. Good([complete_request(g, d.size) EXCEPT !.state = "IDLE"])
        /\ [complete_request(g, d.size) EXCEPT !.state = "IDLE"].state = "IDLE"
    BY <1>8, <2>1, <2>3, <2>5
  <2>8. Good([complete_request(d, d.size) EXCEPT !.state = "IDLE"])
        /\ [complete_request(d, d.size) EXCEPT !.state = "IDLE"].state = "IDLE"
    BY <1>8, <2>3, EffectIdle
  <2>9. Good(e) /\ e.state \in {"IDLE", "RX_RESPONSE"}
    BY <1>3, <1>11, <2>2, <2>3, <2>4, <2>5, <2>6, <2>7, <2>8
  <2> QED BY <1>11, <2>9 DEF Good
<1>12. d.state \in {"IDLE", "TX_CMD", "TX_PAGED_DATA", "WAIT_RESPONSE", "RX_RESPONSE"}
  BY DEF SysRecord
<1> QED BY <1>5, <1>6, <1>7, <1>9, <1>10, <1>11, <1>12

(* What a byte does to a request whose caller waits.                       *)
Same(d, e) ==
  /\ e.device = d.device /\ e.design = d.design /\ e.divisor = d.divisor
  /\ e.initial_facc1_cr = d.initial_facc1_cr /\ e.envm_cr = d.envm_cr /\ e.facc2_cr = d.facc2_cr
  /\ e.initial_envm_cr = d.initial_envm_cr /\ e.initial_facc2_cr = d.initial_facc2_cr
  /\ e.g_mode = d.g_mode /\ e.opcode = d.opcode /\ e.name = d.name /\ e.tag = d.tag
  /\ e.gone = d.gone /\ e.size = d.size /\ e.irq = d.irq /\ e.tx = d.tx

Pends(d, e) ==
  /\ e.sysBusy = d.sysBusy /\ e.length = d.length /\ e.handler = d.handler
  /\ e.in_progress = d.in_progress

Passes(d, b, e) ==
  /\ Pends(d, e) /\ e.state = d.state /\ e.idx = d.idx /\ e.resp = d.resp
  /\ ~(d.state = "WAIT_RESPONSE" /\ b.cmd /\ b.val = d.opcode)
  /\ ~(d.state = "IDLE" /\ b.cmd /\ b.val = "F1")
  /\ d.state = "RX_RESPONSE" => b.cmd

Begins(d, b, e) ==
  /\ Pends(d, e) /\ b.cmd
  /\ \/ d.state = "IDLE" /\ b.val = "F1"
     \/ d.state = "WAIT_RESPONSE" /\ b.val = d.opcode
  /\ e.state = "RX_RESPONSE" /\ e.idx = 1 /\ e.resp = <<b>>

Swallowed(d, b, e) == Pends(d, e) /\ d.state = "RX_RESPONSE" /\ ~b.cmd /\ e.state = "IDLE"

Longer(d, b, e) ==
  /\ d.state = "RX_RESPONSE" /\ ~b.cmd /\ d.resp[d.idx].val # "F1"
  /\ e.idx = d.idx + 1 /\ Len(e.resp) = d.idx + 1 /\ e.resp[d.idx + 1] = b
  /\ \A j \in 1..d.idx : e.resp[j] = d.resp[j]

Continues(d, b, e) ==
  Longer(d, b, e) /\ Pends(d, e) /\ d.idx + 1 # d.size /\ e.state = "RX_RESPONSE"

Completes(d, b, e) ==
  /\ Longer(d, b, e) /\ d.idx + 1 = d.size /\ e.state = "IDLE"
  /\ ~e.sysBusy /\ e.length = d.size /\ e.handler = "none" /\ ~e.in_progress

LEMMA RxRequest ==
  ASSUME NEW d \in SysRecord, Reading(d), NEW b \in RxSet, NEW stray \in BOOLEAN,
         d.handler = "request", ~d.gone,
         d.state \in {"IDLE", "TX_CMD", "WAIT_RESPONSE", "RX_RESPONSE"},
         d.state = "RX_RESPONSE" => d.idx < d.size \/ d.resp[d.idx].val = "F1"
  PROVE  LET e == handle_rx_okay_irq(d, b, stray)
         IN  /\ e \in SysRecord /\ Reading(e) /\ Same(d, e)
             /\ e.facc1_cr = IF Exits(b) THEN Reverted(d) ELSE d.facc1_cr
             /\ \/ Passes(d, b, e) \/ Begins(d, b, e) \/ Swallowed(d, b, e)
                \/ Continues(d, b, e) \/ Completes(d, b, e)
<1> DEFINE e == handle_rx_okay_irq(d, b, stray)
           Good(x) == /\ x \in SysRecord /\ Reading(x) /\ Same(d, x)
                      /\ x.facc1_cr = IF Exits(b) THEN Reverted(d) ELSE d.facc1_cr
<1>1. d.opcode \notin Events
  BY OpsAreNoEvents DEF SysRecord
<1>2. ASSUME b.cmd
      PROVE  /\ Good(Event(d, b)) /\ Pends(d, Event(d, b)) /\ Event(d, b).state = d.state
             /\ Event(d, b).resp = d.resp /\ Event(d, b).idx = d.idx
  <2> DEFINE x == Event(d, b)
             c == IF Exits(b) THEN Reverted(d) ELSE d.facc1_cr
  <2>1. x = [d EXCEPT !.facc1_cr = c] /\ x \in SysRecord
    BY <1>2, EventIs DEF Event, Exits
  <2> HIDE DEF x, c
  <2>2. Reading(x) /\ x.facc1_cr = c /\ x.state = d.state /\ x.resp = d.resp /\ x.idx = d.idx
    BY <2>1 DEF SysRecord, Reading
  <2>3. Same(d, x) /\ Pends(d, x)
    BY <2>1 DEF SysRecord, Same, Pends
  <2> QED BY <2>1, <2>2, <2>3 DEF x, c
<1>3. ASSUME ~Exits(b) PROVE Good(d) /\ Pends(d, d)
  BY <1>3 DEF Same, Pends
<1>4. ASSUME b.cmd, ~Exits(b)
      PROVE  /\ Good(Begun(d, b)) /\ Pends(d, Begun(d, b)) /\ Begun(d, b).state = "RX_RESPONSE"
             /\ Begun(d, b).idx = 1 /\ Begun(d, b).resp = <<b>>
  <2> DEFINE x == Begun(d, b)
  <2>1. /\ x = [d EXCEPT !.resp = x.resp, !.idx = 1, !.state = "RX_RESPONSE"]
        /\ x \in SysRecord /\ Reading(x) /\ x.resp = <<b>>
    BY BegunIs
  <2> HIDE DEF x
  <2>2. x.facc1_cr = d.facc1_cr /\ x.state = "RX_RESPONSE" /\ x.idx = 1
    BY <2>1 DEF SysRecord
  <2>3. Same(d, x) /\ Pends(d, x)
    BY ZenonT(60), <2>1 DEF SysRecord, Same, Pends
  <2> QED BY <1>4, <2>1, <2>2, <2>3 DEF x
<1> HIDE DEF Good
<1>0. (~b.cmd => ~Exits(b)) /\ (b.val \in {"F1", d.opcode} => ~Exits(b))
  BY <1>1 DEF Exits, Events
<1>5. CASE d.state = "IDLE"
  <2>1. e = IF ~b.cmd THEN d ELSE IF b.val # "F1" THEN Event(d, b) ELSE Begun(d, b)
    BY <1>5 DEF handle_rx_okay_irq, handle_rx_idle, Event, Begun
  <2> HIDE DEF e
  <2>2. Good(e) /\ (Passes(d, b, e) \/ Begins(d, b, e))
    <3>1. CASE ~b.cmd
      BY <1>0, <1>3, <1>5, <2>1, <3>1 DEF Passes
    <3>2. CASE b.cmd /\ b.val # "F1"
      BY <1>2, <1>5, <2>1, <3>2 DEF Passes
    <3>3. CASE b.cmd /\ b.val = "F1"
      BY <1>0, <1>4, <1>5, <2>1, <3>3 DEF Begins
    <3> QED BY <2>1, <3>1, <3>2, <3>3
  <2> QED BY <2>2 DEF Good, e
<1>6. CASE d.state = "WAIT_RESPONSE"
  <2>1. e = IF ~b.cmd THEN d ELSE IF b.val # d.opcode THEN Event(d, b) ELSE Begun(d, b)
    BY <1>6 DEF handle_rx_okay_irq, handle_rx_wait, Event, Begun
  <2> HIDE DEF e
  <2>2. Good(e) /\ (Passes(d, b, e) \/ Begins(d, b, e))
    <3>1. CASE ~b.cmd
      BY <1>0, <1>3, <1>6, <2>1, <3>1 DEF Passes
    <3>2. CASE b.cmd /\ b.val # d.opcode
      BY <1>2, <1>6, <2>1, <3>2 DEF Passes
    <3>3. CASE b.cmd /\ b.val = d.opcode
      BY <1>0, <1>4, <1>6, <2>1, <3>3 DEF Begins
    <3> QED BY <2>1, <3>1, <3>2, <3>3
  <2> QED BY <2>2 DEF Good, e
<1>7. CASE d.state = "TX_CMD"
  <2>1. e = IF b.cmd THEN Event(d, b) ELSE d
    BY <1>7 DEF handle_rx_okay_irq, Event
  <2> HIDE DEF e
  <2>2. Good(e) /\ Passes(d, b, e)
    BY <1>0, <1>2, <1>3, <1>7, <2>1 DEF Passes
  <2> QED BY <2>2 DEF Good, e
<1>8. CASE d.state = "RX_RESPONSE" /\ b.cmd
  <2>1. e = Event(d, b)
    BY <1>8 DEF handle_rx_okay_irq, handle_rx_response, Event
  <2> HIDE DEF e
  <2>2. Good(e) /\ Passes(d, b, e)
    BY <1>2, <1>8, <2>1 DEF Passes
  <2> QED BY <2>2 DEF Good, e
<1>9. CASE d.state = "RX_RESPONSE" /\ ~b.cmd
  <2> DEFINE r == Resp(d, d.idx + 1, b)
             f == Swallows(d, b)
             g == Grows(d, b)
             h == [complete_request(g, d.size) EXCEPT !.state = "IDLE"]
  <2>1. e = IF d.resp[d.idx].val = "F1" THEN f ELSE IF d.idx + 1 = d.size THEN h ELSE g
    <3>1. e = handle_rx_response(d, b, stray)
      BY <1>9 DEF handle_rx_okay_irq
    <3>2. CASE d.resp[d.idx].val = "F1"
      BY <1>9, <3>1, <3>2, ResponseSteps
    <3>3. CASE d.resp[d.idx].val # "F1"
      BY <1>9, <3>1, <3>3, ResponseSteps
    <3> QED BY <3>2, <3>3
  <2> HIDE DEF e, f, g, r
  <2>2. /\ Swallows(d, b) = [d EXCEPT !.resp = Resp(d, d.idx + 1, b), !.state = "IDLE"]
        /\ Grows(d, b) = [d EXCEPT !.resp = Resp(d, d.idx + 1, b), !.idx = d.idx + 1]
        /\ Swallows(d, b) \in SysRecord /\ Grows(d, b) \in SysRecord
        /\ Reading(Swallows(d, b)) /\ Reading(Grows(d, b))
        /\ Len(Resp(d, d.idx + 1, b)) = d.idx + 1 /\ Resp(d, d.idx + 1, b)[d.idx + 1] = b
        /\ \A j \in 1..d.idx : Resp(d, d.idx + 1, b)[j] = d.resp[j]
    BY <1>9, GrowsIs
  <2>3. /\ f = [d EXCEPT !.resp = r, !.state = "IDLE"] /\ f \in SysRecord /\ Reading(f)
        /\ g = [d EXCEPT !.resp = r, !.idx = d.idx + 1] /\ g \in SysRecord /\ Reading(g)
        /\ Len(r) = d.idx + 1 /\ r[d.idx + 1] = b /\ \A j \in 1..d.idx : r[j] = d.resp[j]
    BY <2>2 DEF f, g, r
  <2>4. ~Exits(b) /\ d.size \in Nat
    BY <1>9, RecordIs DEF Exits
  <2>5. Good(f) /\ Swallowed(d, b, f)
    <3>1. Same(d, f)
      BY <2>3 DEF Same, SysRecord
    <3>2. Pends(d, f) /\ f.state = "IDLE" /\ f.facc1_cr = d.facc1_cr
      BY <2>3 DEF Pends, SysRecord
    <3> QED BY <1>9, <2>3, <2>4, <3>1, <3>2 DEF Good, Swallowed
  <2>6. /\ Good(g) /\ g.handler = "request" /\ Pends(d, g) /\ g.state = "RX_RESPONSE"
        /\ g.idx = d.idx + 1 /\ g.resp = r
    <3>1. Same(d, g)
      BY <2>3 DEF Same, SysRecord
    <3>2. Pends(d, g) /\ g.facc1_cr = d.facc1_cr /\ g.state = d.state /\ g.handler = d.handler
      BY <2>3 DEF Pends, SysRecord
    <3>3. g.idx = d.idx + 1 /\ g.resp = r
      BY <2>3 DEF SysRecord
    <3> QED BY <1>9, <2>3, <2>4, <3>1, <3>2, <3>3 DEF Good
  <2>7. h = [g EXCEPT !.sysBusy = FALSE, !.length = d.size, !.handler = "none",
                      !.in_progress = FALSE, !.state = "IDLE"]
    <3>1. complete_request(g, d.size) = [g EXCEPT !.sysBusy = FALSE, !.length = d.size,
                                                  !.handler = "none", !.in_progress = FALSE]
      BY <2>3, <2>4, <2>6, RequestCompletes
    <3> QED BY <2>3, <3>1 DEF SysRecord
  <2> HIDE DEF h
  <2>8. /\ h \in SysRecord /\ h.state = "IDLE" /\ ~h.sysBusy /\ h.length = d.size
        /\ h.handler = "none" /\ ~h.in_progress /\ h.idx = g.idx /\ h.resp = g.resp
        /\ h.facc1_cr = g.facc1_cr /\ Same(g, h)
    <3>1. g \in SysRecord
      BY <2>3
    <3>2. h \in SysRecord
      BY ZenonT(60), <2>4, <2>7, <3>1 DEF SysRecord
    <3>3. /\ h.state = "IDLE" /\ ~h.sysBusy /\ h.length = d.size
          /\ h.handler = "none" /\ ~h.in_progress /\ h.idx = g.idx /\ h.resp = g.resp
          /\ h.facc1_cr = g.facc1_cr
      BY <2>7, <3>1 DEF SysRecord
    <3>4. Same(g, h)
      BY <2>7, <3>1 DEF SysRecord, Same
    <3> QED BY <3>2, <3>3, <3>4
  <2>9. Good(h)
    BY <2>6, <2>8 DEF Good, Same, Reading
  <2>10. CASE d.resp[d.idx].val = "F1"
    BY <2>1, <2>5, <2>10 DEF Good, e
  <2>11. CASE d.resp[d.idx].val # "F1" /\ d.idx + 1 = d.size
    <3>1. Completes(d, b, h)
      BY <1>9, <2>3, <2>6, <2>8, <2>11 DEF Completes, Longer
    <3> QED BY <2>1, <2>9, <2>11, <3>1 DEF Good, e
  <2>12. CASE d.resp[d.idx].val # "F1" /\ d.idx + 1 # d.size
    <3>1. Continues(d, b, g)
      BY <1>9, <2>3, <2>6, <2>12 DEF Continues, Longer
    <3> QED BY <2>1, <2>6, <2>12, <3>1 DEF Good, e
  <2> QED BY <2>10, <2>11, <2>12
<1> QED BY <1>5, <1>6, <1>7, <1>8, <1>9

(* There is room in the transmit FIFO.                                     *)
LEMMA FitsIs ==
  ASSUME NEW d \in SysRecord, NEW n \in Nat, Len(d.tx) <= TxFifo
  PROVE  Fits(d, n) \in Nat /\ Fits(d, n) <= n /\ Len(d.tx) + Fits(d, n) <= TxFifo
<1> DEFINE l == Len(d.tx)
<1>1. l \in Nat /\ TxFifo \in Nat /\ l <= TxFifo
  BY RecordIs, LenProperties, ServiceAssumption
<1>2. Fits(d, n) = IF n < TxFifo - l THEN n ELSE TxFifo - l
  BY DEF Fits, Least
<1> HIDE DEF l
<1>3. Fits(d, n) \in Nat /\ Fits(d, n) <= n /\ l + Fits(d, n) <= TxFifo
  BY <1>1, <1>2
<1> QED BY <1>3 DEF l

LEMMA PushEffect ==
  ASSUME NEW d \in SysRecord, Reading(d), NEW kind, kind \in {"rest", "page"}, NEW n \in Nat,
         Len(d.tx) + n <= TxFifo
  PROVE  /\ Push(d, kind, n) = [d EXCEPT !.tx = Push(d, kind, n).tx]
         /\ Push(d, kind, n) \in SysRecord /\ Reading(Push(d, kind, n))
         /\ Impact(d, Push(d, kind, n)) /\ Len(Push(d, kind, n).tx) <= TxFifo
<1> DEFINE e == Push(d, kind, n)
           l == Len(d.tx)
<1> HIDE DEF e, l
<1>0. kind \in {"opcode", "rest", "page"}
  OBVIOUS
<1>1. /\ Push(d, kind, n) = [d EXCEPT !.tx = Push(d, kind, n).tx]
      /\ Push(d, kind, n) \in SysRecord
      /\ Len(Push(d, kind, n).tx) = Len(d.tx) + n
      /\ \A i \in 1..Len(d.tx) : Push(d, kind, n).tx[i] = d.tx[i]
      /\ \A i \in 1..n : Push(d, kind, n).tx[Len(d.tx) + i]
                           = [kind |-> kind, name |-> d.name, tag |-> d.tag]
  BY <1>0, Pushed
<1>2. /\ e = [d EXCEPT !.tx = e.tx] /\ e \in SysRecord /\ Len(e.tx) = l + n
      /\ \A i \in 1..l : e.tx[i] = d.tx[i]
      /\ \A i \in 1..n : e.tx[l + i] = [kind |-> kind, name |-> d.name, tag |-> d.tag]
  BY <1>1 DEF e, l
<1>3. l \in Nat /\ l + n <= TxFifo
  BY RecordIs, LenProperties DEF l
<1>4. ASSUME NEW i \in 1..Len(e.tx), e.tx[i].kind = "opcode"
      PROVE  \E j \in 1..l : e.tx[i] = d.tx[j]
  <2>1. CASE i <= l
    <3>1. i \in 1..l
      BY <1>2, <1>3, <2>1
    <3> QED BY <1>2, <3>1
  <2>2. CASE ~(i <= l)
    <3>1. i - l \in 1..n /\ l + (i - l) = i
      BY <1>2, <1>3, <2>2
    <3>2. e.tx[i] = [kind |-> kind, name |-> d.name, tag |-> d.tag]
      BY <1>2, <3>1
    <3> QED BY <1>4, <3>2
  <2> QED BY <2>1, <2>2
<1>5. NoCommand(d, e)
  BY <1>4 DEF NoCommand, l
<1>6. Steady(d, e) /\ Runs(d, e)
  BY ZenonT(60), <1>2 DEF SysRecord, Steady, Runs
<1>7. Reading(e)
  BY ZenonT(60), <1>2 DEF SysRecord, Reading
<1>8. Len(e.tx) <= TxFifo
  BY <1>2, <1>3
<1> QED BY <1>2, <1>5, <1>6, <1>7, <1>8 DEF Impact, e

(* The record with another state of the transmit handler.                  *)
Tweak(d, i, s, c, p, q) ==
  [d EXCEPT !.irq = i, !.state = s, !.cmdLeft = c, !.pages = p, !.pagesRead = q]

LEMMA Tweaked ==
  ASSUME NEW d \in SysRecord, Reading(d), NEW i \in SUBSET {"RX", "TX"},
         NEW s, s \in {"IDLE", "WAIT_RESPONSE"} \/ s = d.state,
         NEW c \in Nat, NEW p \in Nat, NEW q \in Nat
  PROVE  /\ Tweak(d, i, s, c, p, q) \in SysRecord /\ Reading(Tweak(d, i, s, c, p, q))
         /\ Impact(d, Tweak(d, i, s, c, p, q))
         /\ Tweak(d, i, s, c, p, q).facc1_cr = d.facc1_cr
         /\ Tweak(d, i, s, c, p, q).tx = d.tx
         /\ Tweak(d, i, s, c, p, q).handler = d.handler
         /\ Tweak(d, i, s, c, p, q).in_progress = d.in_progress
<1> DEFINE e == Tweak(d, i, s, c, p, q)
<1>1. e = [d EXCEPT !.irq = i, !.state = s, !.cmdLeft = c, !.pages = p, !.pagesRead = q]
  BY DEF Tweak
<1>2. s \in {"IDLE", "TX_CMD", "TX_PAGED_DATA", "WAIT_RESPONSE", "RX_RESPONSE"}
  BY DEF SysRecord
<1> HIDE DEF e
<1>3. e \in SysRecord
  BY ZenonT(60), <1>1, <1>2 DEF SysRecord
<1>4. e.facc1_cr = d.facc1_cr /\ e.tx = d.tx /\ e.idx = d.idx /\ e.resp = d.resp /\ e.state = s
      /\ e.gone = d.gone /\ e.handler = d.handler /\ e.in_progress = d.in_progress
  BY <1>1 DEF SysRecord
<1>5. Steady(d, e)
  BY <1>1 DEF SysRecord, Steady
<1>6. Runs(d, e)
  BY <1>1 DEF SysRecord, Runs
<1>7. Reading(e)
  BY <1>4 DEF Reading
<1>8. Impact(d, e)
  BY <1>4, <1>5, <1>6 DEF Impact, NoCommand
<1> QED BY <1>3, <1>4, <1>7, <1>8 DEF e

LEMMA TxElsewhere ==
  ASSUME NEW d \in SysRecord, Reading(d), NEW more \in BOOLEAN, Len(d.tx) <= TxFifo,
         d.handler # "request", d.in_progress <=> d.handler # "none"
  PROVE  /\ handle_tx_okay_irq(d, more) \in SysRecord /\ Reading(handle_tx_okay_irq(d, more))
         /\ Impact(d, handle_tx_okay_irq(d, more))
         /\ handle_tx_okay_irq(d, more).facc1_cr = d.facc1_cr
<1> DEFINE Good(x) == x \in SysRecord /\ Reading(x) /\ Impact(d, x) /\ x.facc1_cr = d.facc1_cr
<1>0. /\ d.irq \in SUBSET {"RX", "TX"} /\ d.cmdLeft \in Nat /\ d.pages \in Nat
      /\ d.pagesRead \in Nat
  BY RecordIs
<1>1. CASE d.state = "TX_CMD"
  <2> DEFINE n == Fits(d, d.cmdLeft)
             f == Push(d, "rest", n)
             k == f.cmdLeft - n
             e == [f EXCEPT !.cmdLeft = k]
             g == [e EXCEPT !.state = "WAIT_RESPONSE"]
  <2>0. handle_tx_okay_irq(d, more) \in {e, g}
    BY <1>1 DEF handle_tx_okay_irq
  <2>1. n \in Nat /\ n <= d.cmdLeft /\ Len(d.tx) + n <= TxFifo
    BY <1>0, FitsIs
  <2> HIDE DEF n
  <2>2. f \in SysRecord /\ Reading(f) /\ Impact(d, f) /\ f = [d EXCEPT !.tx = f.tx]
    BY <2>1, PushEffect
  <2> HIDE DEF f
  <2>3. f.cmdLeft = d.cmdLeft /\ f.facc1_cr = d.facc1_cr /\ f.state = d.state
        /\ f.irq \in SUBSET {"RX", "TX"} /\ f.pages \in Nat /\ f.pagesRead \in Nat
    BY <2>2 DEF SysRecord
  <2>4. k \in Nat
    BY <1>0, <2>1, <2>3
  <2> HIDE DEF k
  <2>5. e = Tweak(f, f.irq, f.state, k, f.pages, f.pagesRead)
        /\ g = Tweak(f, f.irq, "WAIT_RESPONSE", k, f.pages, f.pagesRead)
    BY ZenonT(60), <2>2 DEF SysRecord, Tweak
  <2> HIDE DEF e, g
  <2>6. e \in SysRecord /\ Reading(e) /\ Impact(f, e) /\ e.facc1_cr = f.facc1_cr
    BY <2>2, <2>3, <2>4, <2>5, Tweaked
  <2>7. g \in SysRecord /\ Reading(g) /\ Impact(f, g) /\ g.facc1_cr = f.facc1_cr
    BY <2>2, <2>3, <2>4, <2>5, Tweaked
  <2>8. Impact(d, e) /\ Impact(d, g)
    BY <2>2, <2>6, <2>7, EffectJoins
  <2> QED BY <2>0, <2>3, <2>6, <2>7, <2>8
<1>2. CASE d.state = "TX_PAGED_DATA"
  <2> DEFINE e == IF d.pages = 0 THEN NextPage(d, more) ELSE d
             n == Fits(e, e.pages)
             f == Push(e, "page", n)
             k == f.pages - n
             g == [e EXCEPT !.irq = @ \ {"TX"}, !.state = "WAIT_RESPONSE"]
             h == [f EXCEPT !.pages = k]
  <2>0. handle_tx_okay_irq(d, more) \in {g, h}
    BY <1>2 DEF handle_tx_okay_irq
  <2>1. e = d \/ e = Tweak(d, d.irq, d.state, d.cmdLeft, 1, d.pagesRead + 1)
    BY DEF NextPage, Tweak, SysRecord
  <2> HIDE DEF e
  <2>2. e \in SysRecord /\ Reading(e) /\ Impact(d, e) /\ e.facc1_cr = d.facc1_cr /\ e.tx = d.tx
    <3>1. CASE e = d
      BY <3>1, EffectIdle
    <3>2. CASE e = Tweak(d, d.irq, d.state, d.cmdLeft, 1, d.pagesRead + 1)
      <4>1. 1 \in Nat /\ d.pagesRead + 1 \in Nat
        BY <1>0
      <4> QED BY <1>0, <3>2, <4>1, Tweaked
    <3> QED BY <2>1, <3>1, <3>2
  <2>3. /\ e.pages \in Nat /\ e.irq \in SUBSET {"RX", "TX"} /\ e.cmdLeft \in Nat
        /\ e.pagesRead \in Nat /\ e.irq \ {"TX"} \in SUBSET {"RX", "TX"}
    BY <2>2, RecordIs
  <2>4. n \in Nat /\ n <= e.pages /\ Len(e.tx) + n <= TxFifo
    BY <2>2, <2>3, FitsIs
  <2> HIDE DEF n
  <2>5. f \in SysRecord /\ Reading(f) /\ Impact(e, f) /\ f = [e EXCEPT !.tx = f.tx]
    BY <2>2, <2>4, PushEffect
  <2> HIDE DEF f
  <2>6. f.pages = e.pages /\ f.facc1_cr = e.facc1_cr /\ f.irq \in SUBSET {"RX", "TX"}
        /\ f.cmdLeft \in Nat /\ f.pagesRead \in Nat
    BY <2>2, <2>3, <2>5 DEF SysRecord
  <2>7. k \in Nat
    BY <2>3, <2>4, <2>6
  <2> HIDE DEF k
  <2>8. h = Tweak(f, f.irq, f.state, f.cmdLeft, k, f.pagesRead)
        /\ g = Tweak(e, e.irq \ {"TX"}, "WAIT_RESPONSE", e.cmdLeft, e.pages, e.pagesRead)
    BY ZenonT(60), <2>2, <2>5 DEF SysRecord, Tweak
  <2> HIDE DEF g, h
  <2>9. h \in SysRecord /\ Reading(h) /\ Impact(f, h) /\ h.facc1_cr = f.facc1_cr
    BY <2>5, <2>6, <2>7, <2>8, Tweaked
  <2>10. g \in SysRecord /\ Reading(g) /\ Impact(e, g) /\ g.facc1_cr = e.facc1_cr
    BY <2>2, <2>3, <2>8, Tweaked
  <2>11. Impact(d, g) /\ Impact(d, h)
    BY <2>2, <2>5, <2>9, <2>10, EffectJoins
  <2> QED BY <2>0, <2>2, <2>6, <2>9, <2>10, <2>11
<1>3. CASE d.state \notin {"TX_CMD", "TX_PAGED_DATA"}
  <2> DEFINE e == [d EXCEPT !.irq = @ \ {"TX"}]
             f == complete_request(e, 0)
             g == [f EXCEPT !.state = "IDLE"]
  <2>1. handle_tx_okay_irq(d, more) = g
    BY <1>3 DEF handle_tx_okay_irq
  <2>2. e = Tweak(d, d.irq \ {"TX"}, d.state, d.cmdLeft, d.pages, d.pagesRead)
        /\ d.irq \ {"TX"} \in SUBSET {"RX", "TX"}
    BY <1>0 DEF SysRecord, Tweak
  <2> HIDE DEF e
  <2>3. e \in SysRecord /\ Reading(e) /\ Impact(d, e) /\ e.facc1_cr = d.facc1_cr
        /\ e.handler = d.handler /\ e.in_progress = d.in_progress
    BY <1>0, <2>2, Tweaked
  <2>4. f \in SysRecord /\ Impact(e, f) /\ f.facc1_cr = e.facc1_cr
    BY <2>3, IspCompletes
  <2> HIDE DEF f
  <2>5. g \in SysRecord /\ g.facc1_cr = f.facc1_cr /\ g.state = "IDLE"
    BY ZenonT(60), <2>4 DEF SysRecord
  <2>6. Impact(f, g)
    BY <2>4 DEF SysRecord, Impact, Steady, Runs, NoCommand
  <2> HIDE DEF g
  <2>7. Impact(d, g) /\ Reading(g)
    BY <2>3, <2>4, <2>5, <2>6, EffectJoins DEF Reading
  <2> QED BY <2>1, <2>3, <2>4, <2>5, <2>7
<1> QED BY <1>1, <1>2, <1>3
----------------------------------------------------------------------------
(* The two FIFOs: what taking the first element and appending do to the    *)
(* commands, the replies and the data in them.                             *)
LEMMA TailIs ==
  ASSUME NEW S, NEW r \in Seq(S), r # <<>>
  PROVE  /\ Tail(r) \in Seq(S) /\ Len(r) \in Nat \ {0} /\ Len(Tail(r)) = Len(r) - 1
         /\ Head(r) = r[1] /\ 1 \in 1..Len(r) /\ Head(r) \in S
         /\ \A i \in 1..Len(r) - 1 : Tail(r)[i] = r[i + 1]
<1>1. /\ Head(r) \in S /\ Tail(r) \in Seq(S) /\ Len(Tail(r)) = Len(r) - 1
      /\ \A i \in 1..Len(Tail(r)) : Tail(r)[i] = r[i + 1]
  BY HeadTailProperties
<1>2. Len(r) \in Nat \ {0}
  BY EmptySeq
<1>3. Head(r) = r[1]
  OBVIOUS
<1> QED BY <1>1, <1>2, <1>3

LEMMA TailCommands ==
  ASSUME NEW r \in Seq(Cells), r # <<>>
  PROVE  /\ \A i \in Commands(Tail(r)) : i + 1 \in Commands(r) /\ Tail(r)[i] = r[i + 1]
         /\ r[1].kind = "opcode" /\ r[1].name # "start_isp" => 1 \in Commands(r)
<1> DEFINE t == Tail(r)
<1>1. /\ Len(r) \in Nat \ {0} /\ Len(t) = Len(r) - 1 /\ \A i \in 1..Len(r) - 1 : t[i] = r[i + 1]
  BY TailIs
<1> HIDE DEF t
<1>2. ASSUME NEW i \in 1..Len(t), t[i].kind = "opcode", t[i].name # "start_isp"
      PROVE  i + 1 \in Commands(r) /\ t[i] = r[i + 1]
  <2>1. i \in 1..Len(r) - 1 /\ i + 1 \in 1..Len(r)
    BY <1>1
  <2> QED BY <1>1, <1>2, <2>1 DEF Commands
<1>3. \A i \in Commands(t) : i \in 1..Len(t) /\ t[i].kind = "opcode" /\ t[i].name # "start_isp"
  BY DEF Commands
<1>4. 1 \in 1..Len(r)
  BY <1>1
<1> QED BY <1>2, <1>3, <1>4 DEF Commands, t

LEMMA TailReplies ==
  ASSUME NEW r \in Seq(RxSet), r # <<>>
  PROVE  \A i \in Replies(Tail(r)) : i \in Nat /\ i + 1 \in Replies(r) /\ Tail(r)[i] = r[i + 1]
<1> DEFINE t == Tail(r)
<1>1. /\ Len(r) \in Nat \ {0} /\ Len(t) = Len(r) - 1 /\ \A i \in 1..Len(r) - 1 : t[i] = r[i + 1]
  BY TailIs
<1> HIDE DEF t
<1>2. ASSUME NEW i \in 1..Len(t), t[i].cmd, t[i].val \notin Events \cup {"start_isp"}
      PROVE  i \in Nat /\ i + 1 \in Replies(r) /\ t[i] = r[i + 1]
  <2>1. i \in 1..Len(r) - 1 /\ i + 1 \in 1..Len(r) /\ i \in Nat
    BY <1>1
  <2> QED BY <1>1, <1>2, <2>1 DEF Replies
<1>3. \A i \in Replies(t) :
        i \in 1..Len(t) /\ t[i].cmd /\ t[i].val \notin Events \cup {"start_isp"}
  BY DEF Replies
<1> QED BY <1>2, <1>3 DEF t

LEMMA HeadReplies ==
  ASSUME NEW r \in Seq(RxSet), r # <<>>, Head(r).cmd, Head(r).val \notin Events \cup {"start_isp"}
  PROVE  1 \in Replies(r)
BY TailIs DEF Replies

LEMMA TailData ==
  ASSUME NEW r \in Seq(RxSet), r # <<>>, NEW from \in Nat, NEW n \in Int, NEW c,
         DataAt(r, from + 1, n, c)
  PROVE  DataAt(Tail(r), from, n, c)
<1> DEFINE t == Tail(r)
<1>1. /\ Len(r) \in Nat \ {0} /\ Len(t) = Len(r) - 1 /\ \A i \in 1..Len(r) - 1 : t[i] = r[i + 1]
  BY TailIs
<1> HIDE DEF t
<1>2. from + n <= Len(t)
  BY <1>1 DEF DataAt
<1>3. ASSUME NEW i \in 1..n PROVE ~t[from + i].cmd /\ t[from + i].tag = c
  <2>1. from + i \in 1..Len(r) - 1 /\ (from + i) + 1 = from + 1 + i
    BY <1>1, <1>2
  <2>2. t[from + i] = r[from + 1 + i]
    BY <1>1, <2>1
  <2> QED BY <2>2 DEF DataAt
<1> QED BY <1>2, <1>3 DEF DataAt, t

LEMMA JoinIs ==
  ASSUME NEW S, NEW r \in Seq(S), NEW a \in Seq(S)
  PROVE  /\ r \o a \in Seq(S) /\ Len(r) \in Nat /\ Len(a) \in Nat
         /\ Len(r \o a) = Len(r) + Len(a)
         /\ \A i \in 1..Len(r) : (r \o a)[i] = r[i]
         /\ \A i \in 1..Len(a) : (r \o a)[Len(r) + i] = a[i]
<1> DEFINE m == Len(r)
           n == Len(a)
<1>1. m \in Nat /\ n \in Nat
  BY LenProperties
<1>2. /\ r \o a \in Seq(S) /\ Len(r \o a) = m + n
      /\ \A i \in 1..m + n : (r \o a)[i] = IF i <= m THEN r[i] ELSE a[i - m]
  BY ConcatProperties
<1> HIDE DEF m, n
<1>3. \A i \in 1..m : (r \o a)[i] = r[i]
  BY <1>1, <1>2
<1>4. ASSUME NEW i \in 1..n PROVE (r \o a)[m + i] = a[i]
  <2>1. m + i \in 1..m + n /\ ~(m + i <= m) /\ (m + i) - m = i
    BY <1>1
  <2> QED BY <1>2, <2>1
<1> QED BY <1>1, <1>2, <1>3, <1>4 DEF m, n

LEMMA JoinReplies ==
  ASSUME NEW r \in Seq(RxSet), NEW a \in Seq(RxSet)
  PROVE  /\ \A i \in Replies(r) : i \in Replies(r \o a) /\ (r \o a)[i] = r[i]
         /\ \A i \in Replies(r \o a) :
              i \in Replies(r) \/ \E j \in Replies(a) : i = Len(r) + j /\ (r \o a)[i] = a[j]
<1> DEFINE m == Len(r)
           n == Len(a)
           t == r \o a
<1>1. /\ m \in Nat /\ n \in Nat /\ Len(t) = m + n
      /\ \A i \in 1..m : t[i] = r[i]
      /\ \A i \in 1..n : t[m + i] = a[i]
  BY JoinIs
<1> HIDE DEF m, n, t
<1>2. ASSUME NEW i \in Replies(r) PROVE i \in Replies(t) /\ t[i] = r[i]
  <2>1. i \in 1..m /\ r[i].cmd /\ r[i].val \notin Events \cup {"start_isp"}
    BY DEF Replies, m
  <2>2. i \in 1..Len(t)
    BY <1>1, <2>1
  <2> QED BY <1>1, <2>1, <2>2 DEF Replies
<1>3. ASSUME NEW i \in Replies(t)
      PROVE  i \in Replies(r) \/ \E j \in Replies(a) : i = m + j /\ t[i] = a[j]
  <2>1. i \in 1..m + n /\ t[i].cmd /\ t[i].val \notin Events \cup {"start_isp"}
    BY <1>1 DEF Replies
  <2>2. CASE i <= m
    <3>1. i \in 1..m /\ t[i] = r[i]
      BY <1>1, <2>1, <2>2
    <3> QED BY <2>1, <3>1 DEF Replies, m
  <2>3. CASE ~(i <= m)
    <3>1. i - m \in 1..n /\ i = m + (i - m)
      BY <1>1, <2>1, <2>3
    <3>2. t[i] = a[i - m]
      BY <1>1, <3>1
    <3>3. i - m \in Replies(a)
      BY <2>1, <3>1, <3>2 DEF Replies, n
    <3> QED BY <3>1, <3>2, <3>3
  <2> QED BY <2>2, <2>3
<1> QED BY <1>2, <1>3 DEF m, t

LEMMA JoinData ==
  ASSUME NEW r \in Seq(RxSet), NEW a \in Seq(RxSet), NEW from \in Nat, NEW n \in Int, NEW c
  PROVE  /\ DataAt(r, from, n, c) => DataAt(r \o a, from, n, c)
         /\ DataAt(a, from, n, c) => DataAt(r \o a, Len(r) + from, n, c)
<1> DEFINE m == Len(r)
           k == Len(a)
           t == r \o a
<1>1. /\ m \in Nat /\ k \in Nat /\ Len(t) = m + k
      /\ \A i \in 1..m : t[i] = r[i]
      /\ \A i \in 1..k : t[m + i] = a[i]
  BY JoinIs
<1> HIDE DEF m, k, t
<1>2. ASSUME DataAt(r, from, n, c) PROVE DataAt(t, from, n, c)
  <2>1. from + n <= m
    BY <1>2 DEF DataAt, m
  <2>2. ASSUME NEW i \in 1..n PROVE ~t[from + i].cmd /\ t[from + i].tag = c
    <3>1. from + i \in 1..m
      BY <1>1, <2>1
    <3>2. t[from + i] = r[from + i]
      BY <1>1, <3>1
    <3> QED BY <1>2, <3>2 DEF DataAt
  <2>3. from + n <= Len(t)
    BY <1>1, <2>1
  <2> QED BY <2>2, <2>3 DEF DataAt
<1>3. ASSUME DataAt(a, from, n, c) PROVE DataAt(t, m + from, n, c)
  <2>1. from + n <= k
    BY <1>3 DEF DataAt, k
  <2>2. ASSUME NEW i \in 1..n PROVE ~t[m + from + i].cmd /\ t[m + from + i].tag = c
    <3>1. from + i \in 1..k /\ m + (from + i) = m + from + i
      BY <1>1, <2>1
    <3>2. t[m + from + i] = a[from + i]
      BY <1>1, <3>1
    <3> QED BY <1>3, <3>2 DEF DataAt
  <2>3. m + from + n <= Len(t)
    BY <1>1, <2>1
  <2> QED BY <2>2, <2>3 DEF DataAt
<1> QED BY <1>2, <1>3 DEF m, t

LEMMA FirstData ==
  ASSUME NEW r \in Seq(RxSet), r # <<>>, NEW n \in Nat \ {0}, NEW c, DataAt(r, 0, n, c)
  PROVE  ~Head(r).cmd /\ Head(r).tag = c /\ DataAt(Tail(r), 0, n - 1, c)
<1>1. ~r[1].cmd /\ r[1].tag = c
  <2>1. 1 \in 1..n /\ 0 + 1 = 1
    OBVIOUS
  <2> QED BY <2>1 DEF DataAt
<1>2. DataAt(r, 0 + 1, n - 1, c)
  <2>1. 0 + 1 + (n - 1) <= Len(r)
    BY TailIs DEF DataAt
  <2>2. ASSUME NEW i \in 1..n - 1 PROVE ~r[0 + 1 + i].cmd /\ r[0 + 1 + i].tag = c
    <3>1. i + 1 \in 1..n /\ 0 + 1 + i = 0 + (i + 1)
      OBVIOUS
    <3> QED BY <3>1 DEF DataAt
  <2> QED BY <2>1, <2>2 DEF DataAt
<1>3. 0 \in Nat /\ n - 1 \in Int
  OBVIOUS
<1>4. DataAt(Tail(r), 0, n - 1, c)
  BY <1>2, <1>3, TailData
<1> QED BY <1>1, <1>4, TailIs

LEMMA NextData ==
  ASSUME NEW r \in Seq(RxSet), r # <<>>, NEW n \in Int, NEW c, DataAt(r, 1, n, c)
  PROVE  DataAt(Tail(r), 0, n, c)
<1>1. 0 \in Nat /\ 0 + 1 = 1
  OBVIOUS
<1>2. DataAt(r, 0 + 1, n, c)
  BY <1>1
<1> QED BY <1>1, <1>2, TailData

----------------------------------------------------------------------------
(* The requests of a call.                                                 *)
LEMMA RequestIs ==
  ASSUME NEW c \in Requests
  PROVE  /\ c.name \in Names
         /\ c.name \in {"initiate_iap", "start_isp"} => c.mode \in ProgModes
         /\ c.name = "check_digest" => c.mode \in {"fabric", "other"}
         /\ c.name \notin {"initiate_iap", "start_isp", "check_digest"} => c.mode = "none"
BY SomeNames DEF Requests, Names

LEMMA LocksSwitchNothing ==
  ASSUME NEW c \in Requests, c.name \in PufLocks \cup {"puf_get_number_of_keys"}
  PROVE  ~Switches(c) /\ ~Programs(c) /\ c.mode = "none" /\ c.name # "flash_freeze"
         /\ c.name # "start_isp"
BY RequestIs DEF PufLocks, Switches, Programs

LEMMA PlanIs ==
  ASSUME NEW c \in Requests
  PROVE  /\ Plan(c) \in Seq(Requests)
         /\ \/ Len(Plan(c)) = 1 /\ Plan(c)[1].name \notin PufLocks
            \/ /\ Len(Plan(c)) = 2 /\ Plan(c)[2].name \notin PufLocks
               /\ Plan(c)[1].name = "check_digest"
            \/ /\ Len(Plan(c)) = 2 /\ Plan(c)[2].name = "puf_get_number_of_keys"
               /\ Plan(c)[1].name \in PufLocks
<1> DEFINE digest == Request("check_digest", "fabric")
           keys   == Request("puf_get_number_of_keys", "none")
<1>1. digest \in Requests /\ digest.name = "check_digest"
  BY DEF Request, Requests
<1>2. keys \in Requests /\ keys.name = "puf_get_number_of_keys"
  BY SomeNames DEF Request, Requests, Names
<1>3. /\ c.mode = "verify" /\ c.name \notin PufLocks => Plan(c) = <<digest, c>>
      /\ c.mode # "verify" /\ c.name \in PufLocks => Plan(c) = <<c, keys>>
      /\ c.mode # "verify" /\ c.name \notin PufLocks => Plan(c) = <<c>>
  BY DEF Plan
<1> HIDE DEF digest, keys
<1>4. CASE c.mode = "verify"
  <2>1. c.name \notin PufLocks
    BY <1>4, LocksSwitchNothing
  <2>2. Plan(c) = <<digest, c>>
    BY <1>3, <1>4, <2>1
  <2> QED BY <1>1, <2>1, <2>2
<1>5. CASE c.mode # "verify" /\ c.name \in PufLocks
  <2>1. Plan(c) = <<c, keys>>
    BY <1>3, <1>5
  <2> QED BY <1>2, <1>5, <2>1
<1>6. CASE c.mode # "verify" /\ c.name \notin PufLocks
  <2>1. Plan(c) = <<c>>
    BY <1>3, <1>6
  <2> QED BY <1>6, <2>1
<1> QED BY <1>4, <1>5, <1>6

LEMMA InHand ==
  ASSUME Types, PlanLeft, thread.at # "free"
  PROVE  /\ thread.todo # <<>> /\ Head(thread.todo) = Now /\ Now \in Requests
         /\ Now.name \in Names /\ Fine(Now.name, service[Now.name])
         /\ thread.todo \in Seq(Requests)
<1> DEFINE todo == thread.todo
<1>1. todo \in Seq(Requests) /\ Len(todo) \in {1, 2}
  BY DEF Types, PlanLeft
<1> HIDE DEF todo
<1>2. todo # <<>> /\ Head(todo) = todo[1] /\ todo[1] \in Requests
  BY <1>1
<1>3. todo[1].name \in Names
  BY <1>2, RequestIs
<1> QED BY <1>1, <1>2, <1>3, ServiceFine DEF todo, Now

LEMMA LeavingIs ==
  ASSUME Types, PlanLeft, thread.at # "free", thread' = Leaving(thread.todo)
  PROVE  /\ thread' \in [at : {"free", "prepare", "start", "wait"}, todo : Seq(Requests)]
         /\ PlanLeft' /\ thread'.at \in {"free", "prepare"}
         /\ Now.name \in PufLocks =>
              thread'.at = "prepare" /\ (Now.name)' = "puf_get_number_of_keys"
<1> DEFINE todo == thread.todo
           rest == Tail(todo)
<1>1. /\ todo \in Seq(Requests)
      /\ \/ Len(todo) = 1 /\ todo[1].name \notin PufLocks
         \/ /\ Len(todo) = 2 /\ todo[2].name \notin PufLocks
            /\ todo[1].name = "check_digest"
         \/ /\ Len(todo) = 2 /\ todo[2].name = "puf_get_number_of_keys"
            /\ todo[1].name \in PufLocks
  BY DEF Types, PlanLeft
<1>2. thread' = [at |-> IF rest = <<>> THEN "free" ELSE "prepare", todo |-> rest]
  BY DEF Leaving
<1> HIDE DEF todo
<1>3. "check_digest" \notin PufLocks /\ "puf_get_number_of_keys" \notin PufLocks
  BY DEF PufLocks
<1>4. todo # <<>>
  BY <1>1
<1>5. rest \in Seq(Requests) /\ Len(rest) = Len(todo) - 1
      /\ \A i \in 1..Len(todo) - 1 : rest[i] = todo[i + 1]
  BY <1>1, <1>4, TailIs
<1> HIDE DEF rest
<1>6. CASE Len(todo) = 1
  <2>1. rest = <<>>
    BY <1>5, <1>6
  <2> QED BY <1>1, <1>2, <1>5, <1>6, <2>1 DEF PlanLeft, Now, todo
<1>7. CASE Len(todo) = 2
  <2>1. rest # <<>> /\ Len(rest) = 1 /\ rest[1] = todo[2]
    BY <1>5, <1>7
  <2>2. todo[2].name \notin PufLocks
        /\ (todo[1].name \in PufLocks => todo[2].name = "puf_get_number_of_keys")
    BY <1>1, <1>3, <1>7
  <2>3. thread'.at = "prepare" /\ thread'.todo = rest
        /\ thread' \in [at : {"free", "prepare", "start", "wait"}, todo : Seq(Requests)]
    BY <1>2, <1>5, <2>1
  <2> QED BY <2>1, <2>2, <2>3 DEF PlanLeft, Now, todo
<1> QED BY <1>1, <1>6, <1>7

----------------------------------------------------------------------------
(* While no thread waits, nothing of a request is on its way.              *)
LEMMA IdleMeans ==
  ASSUME SysInv, thread.at # "wait"
  PROVE  InTx = {} /\ ~InCtl /\ InRx = {}
BY DEF SysInv, Sent, Unanswered

LEMMA StaysIdle ==
  ASSUME SysInv, thread.at # "wait" \/ ~sys.sysBusy, thread'.at # "wait",
         sys'.tx = sys.tx, ctl' = ctl, rxBytes' = rxBytes
  PROVE  Sent' /\ Result'
<1>1. InTx = {} /\ ~InCtl /\ InRx = {}
  BY DEF SysInv, Sent, Unanswered, Turn
<1>2. InTx' = {} /\ ~InCtl' /\ InRx' = {}
  BY <1>1 DEF InTx, InCtl, InRx
<1> QED BY <1>2 DEF Sent, Result

LEMMA Initially == ASSUME SysInit PROVE SysInv
<1>1. PICK device, facc1 :
       /\ device \in Devices /\ facc1 \in Designs(device)
       /\ sys = [device |-> device, design |-> facc1, facc1_cr |-> facc1, initial_facc1_cr |-> facc1,
              divisor |-> <<0, 0, 0, 0>>, envm_cr |-> "design", facc2_cr |-> "design",
              initial_envm_cr |-> "default", initial_facc2_cr |-> "default",
              g_mode |-> "authenticate", sysBusy |-> FALSE, length |-> 0,
              state |-> "IDLE", in_progress |-> FALSE, opcode |-> "none", name |-> "none", tag |-> 0,
              cmdLeft |-> 0, pages |-> 0, pagesRead |-> 0, resp |-> <<>>, gone |-> FALSE,
              size |-> 0, idx |-> 0, handler |-> "none", irq |-> {"RX"}, tx |-> <<>>]
  BY DEF SysInit
<1>2. facc1 \in Facc1
  <2>1. <<0, 1, 2, 4>> \in [Dividers -> 0..7] /\ <<5, 5, 5, 5>> \in [Dividers -> 0..7]
    BY DEF Dividers
  <2>2. \E d \in {<<0, 1, 2, 4>>, <<5, 5, 5, 5>>} : facc1 = [div |-> d, standby |-> FALSE]
    BY <1>1 DEF Designs
  <2> QED BY <2>1, <2>2 DEF Facc1
<1>3. <<0, 0, 0, 0>> \in [Dividers -> 0..7]
  BY DEF Dividers
<1>4. /\ rxBytes = <<>> /\ thread = [at |-> "free", todo |-> <<>>]
      /\ ctl = [at |-> "idle", name |-> "none", tag |-> 0, frozen |-> FALSE, locked |-> FALSE]
      /\ calls = 0 /\ events = 0 /\ upset = {}
  BY DEF SysInit
<1>5. sys \in SysRecord
  BY <1>1, <1>2, <1>3 DEF SysRecord, EnvmSettings, MuxSettings, ProgModes
<1>6. /\ sys.device = device /\ sys.design = facc1 /\ sys.facc1_cr = facc1 /\ sys.state = "IDLE"
      /\ sys.tx = <<>> /\ ~sys.sysBusy /\ ~sys.in_progress /\ sys.handler = "none"
      /\ sys.envm_cr = "design" /\ sys.facc2_cr = "design"
  BY <1>1
<1>7. Types
  BY <1>4, <1>5, <1>6, ServiceAssumption DEF Types, Reading
<1>8. InTx = {} /\ ~InCtl /\ InRx = {}
  BY <1>4, <1>6 DEF InTx, InCtl, InRx, Commands, Replies
<1>9. Sent /\ Result /\ PlanLeft /\ Locked
  BY <1>4, <1>8 DEF Sent, Result, PlanLeft, Locked
<1>10. Turn /\ Registers
  BY <1>4, <1>6 DEF Turn, Registers, Design, IspRuns
<1>11. Clocks
  <2>1. sys.design \in Designs(sys.device) /\ sys.facc1_cr = sys.design
    BY <1>1, <1>6
  <2>2. \A i \in 1..Len(rxBytes) : FALSE
    BY <1>4
  <2>3. ~ctl.frozen /\ thread.at = "free"
    BY <1>4
  <2> QED BY <2>1, <2>2, <2>3 DEF Clocks, Freezing
<1> QED BY <1>7, <1>9, <1>10, <1>11 DEF SysInv

LEMMA Stutters == ASSUME SysInv, UNCHANGED sysVars PROVE SysInv'
<1> USE DEF sysVars
<1>1. Types' /\ PlanLeft' /\ Turn'
  BY DEF SysInv, Types, Reading, PlanLeft, Turn, Now
<1>2. InTx' = InTx /\ InCtl' = InCtl /\ InRx' = InRx /\ Unanswered' = Unanswered /\ Now' = Now
  BY DEF InTx, InCtl, InRx, Unanswered, Now
<1>3. Sent'
  BY <1>2 DEF SysInv, Sent
<1>4. Result'
  BY <1>2 DEF SysInv, Result, Ours, DataAt, Now
<1>5. Locked' /\ Registers'
  BY <1>2 DEF SysInv, Locked, Registers, Lifted, Design, IspRuns
<1>6. Clocks'
  BY <1>2 DEF SysInv, Clocks, Freezing, Undoable
<1> QED BY <1>1, <1>3, <1>4, <1>5, <1>6 DEF SysInv

LEMMA CallSteps == ASSUME SysInv, NEW c \in Exercised, call(c) PROVE SysInv'
<1>1. /\ thread.at = "free" /\ thread' = [at |-> "prepare", todo |-> Plan(c)]
      /\ calls' = calls + 1
      /\ sys' = sys /\ rxBytes' = rxBytes /\ ctl' = ctl /\ events' = events /\ upset' = upset
  BY DEF call
<1>2. c \in Requests
  BY ServiceAssumption
<1>3. Types'
  <2>1. calls' \in Nat
    BY <1>1 DEF SysInv, Types
  <2>2. thread' \in [at : {"free", "prepare", "start", "wait"}, todo : Seq(Requests)]
    BY <1>1, <1>2, PlanIs
  <2> QED BY <1>1, <2>1, <2>2 DEF SysInv, Types, Reading
<1>4. PlanLeft'
  BY <1>1, <1>2, PlanIs DEF PlanLeft
<1>5. Turn'
  BY <1>1 DEF SysInv, Turn
<1>6. Sent' /\ Result'
  BY <1>1, StaysIdle
<1>7. Locked' /\ Registers'
  BY <1>1 DEF SysInv, Locked, Registers, Lifted, Design, IspRuns
<1>8. Clocks'
  BY <1>1 DEF SysInv, Clocks, Freezing, Undoable
<1> QED BY <1>3, <1>4, <1>5, <1>6, <1>7, <1>8 DEF SysInv

----------------------------------------------------------------------------
(* Preparing a request changes registers only.                             *)
LEMMA SwitchIs ==
  ASSUME NEW device \in Devices, NEW facc1 \in Facc1, NEW divisor \in [Dividers -> 0..7]
  PROVE  /\ clk_switching_fix(device, facc1, divisor).facc1 \in Facc1
         /\ clk_switching_fix(device, facc1, divisor).divisor \in [Dividers -> 0..7]
         /\ ~clk_switching_fix(device, facc1, divisor).ok => device = "060"
         /\ device = "060" => clk_switching_fix(device, facc1, divisor).facc1 = facc1
         /\ device = "005" => clk_switching_fix(device, facc1, divisor).divisor = facc1.div
<1>1. facc1.div \in [Dividers -> 0..7]
  BY DEF Facc1
<1>2. CASE device = "010-150"
  <2>1. [i \in Dividers |-> 6] \in [Dividers -> 0..7]
    OBVIOUS
  <2> QED BY <1>2, <2>1 DEF clk_switching_fix, Facc1
<1>3. CASE device = "005"
  <2>1. [i \in Dividers |-> StepDown(facc1.div[i])] \in [Dividers -> 0..7]
    BY <1>1, StepBackRange
  <2> QED BY <1>1, <1>3, <2>1 DEF clk_switching_fix, Facc1
<1>4. CASE device = "060"
  BY <1>1, <1>4 DEF clk_switching_fix
<1> QED BY <1>2, <1>3, <1>4 DEF Devices

Quiet(d, e) ==
  /\ e.device = d.device /\ e.design = d.design /\ e.sysBusy = d.sysBusy /\ e.state = d.state
  /\ e.in_progress = d.in_progress /\ e.opcode = d.opcode /\ e.handler = d.handler
  /\ e.size = d.size /\ e.idx = d.idx /\ e.irq = d.irq /\ e.gone = d.gone /\ e.resp = d.resp
  /\ e.tx = d.tx

LEMMA PreparedIs ==
  ASSUME NEW d \in SysRecord, NEW c \in Requests
  PROVE  /\ Prepared(d, c) \in SysRecord /\ Quiet(d, Prepared(d, c))
         /\ Prepared(d, c).g_mode = IF c.name = "start_isp" THEN c.mode ELSE d.g_mode
         /\ IF Programs(c)
            THEN /\ Prepared(d, c).envm_cr = "max" /\ Prepared(d, c).facc2_cr = "standby"
                 /\ Prepared(d, c).initial_envm_cr = d.envm_cr
                 /\ Prepared(d, c).initial_facc2_cr = d.facc2_cr
            ELSE /\ Prepared(d, c).envm_cr = d.envm_cr /\ Prepared(d, c).facc2_cr = d.facc2_cr
                 /\ Prepared(d, c).initial_envm_cr = d.initial_envm_cr
                 /\ Prepared(d, c).initial_facc2_cr = d.initial_facc2_cr
         /\ Prepared(d, c).initial_facc1_cr =
              IF c.name = "flash_freeze" THEN d.facc1_cr ELSE d.initial_facc1_cr
         /\ IF Switches(c)
            THEN /\ Prepared(d, c).facc1_cr = clk_switching_fix(d.device, d.facc1_cr, d.divisor).facc1
                 /\ Prepared(d, c).divisor = clk_switching_fix(d.device, d.facc1_cr, d.divisor).divisor
            ELSE Prepared(d, c).facc1_cr = d.facc1_cr /\ Prepared(d, c).divisor = d.divisor
<1> DEFINE a == IF c.name = "start_isp" THEN [d EXCEPT !.g_mode = c.mode] ELSE d
           b == IF Programs(c) THEN Raise(a) ELSE a
           f == IF c.name = "flash_freeze" THEN [b EXCEPT !.initial_facc1_cr = b.facc1_cr] ELSE b
           x == clk_switching_fix(f.device, f.facc1_cr, f.divisor)
           e == IF Switches(c) THEN [f EXCEPT !.facc1_cr = x.facc1, !.divisor = x.divisor] ELSE f
           Rest(u, v) == /\ v.facc1_cr = u.facc1_cr /\ v.divisor = u.divisor /\ Quiet(u, v)
<1>0. Prepared(d, c) = e
  BY DEF Prepared
<1> HIDE DEF e, x
<1>1. a \in SysRecord
  BY ZenonT(60), RequestIs DEF SysRecord
<1>2. /\ Rest(d, a) /\ a.g_mode = IF c.name = "start_isp" THEN c.mode ELSE d.g_mode
      /\ a.envm_cr = d.envm_cr /\ a.facc2_cr = d.facc2_cr
      /\ a.initial_envm_cr = d.initial_envm_cr /\ a.initial_facc2_cr = d.initial_facc2_cr
      /\ a.initial_facc1_cr = d.initial_facc1_cr
  BY DEF SysRecord, Quiet
<1> HIDE DEF a
<1>3. b \in SysRecord
  <2>1. a.envm_cr \in EnvmSettings /\ a.facc2_cr \in MuxSettings /\ "max" \in EnvmSettings
        /\ "standby" \in MuxSettings
    BY <1>1 DEF SysRecord, EnvmSettings, MuxSettings
  <2>2. ASSUME NEW u \in EnvmSettings, NEW v \in MuxSettings, NEW w \in EnvmSettings,
               NEW y \in MuxSettings
        PROVE  [a EXCEPT !.initial_envm_cr = u, !.initial_facc2_cr = v, !.envm_cr = w,
                         !.facc2_cr = y] \in SysRecord
    BY <1>1 DEF SysRecord
  <2>3. Raise(a) \in SysRecord
    BY <2>1, <2>2 DEF Raise
  <2> QED BY <1>1, <2>3
<1>4. /\ Rest(a, b) /\ b.g_mode = a.g_mode /\ b.initial_facc1_cr = a.initial_facc1_cr
      /\ IF Programs(c)
         THEN /\ b.envm_cr = "max" /\ b.facc2_cr = "standby"
              /\ b.initial_envm_cr = a.envm_cr /\ b.initial_facc2_cr = a.facc2_cr
         ELSE /\ b.envm_cr = a.envm_cr /\ b.facc2_cr = a.facc2_cr
              /\ b.initial_envm_cr = a.initial_envm_cr /\ b.initial_facc2_cr = a.initial_facc2_cr
  BY <1>1 DEF SysRecord, Raise, Quiet
<1> HIDE DEF b
<1>5. f \in SysRecord
  <2>1. \A u \in Facc1 : [b EXCEPT !.initial_facc1_cr = u] \in SysRecord
    BY <1>3 DEF SysRecord
  <2> QED BY <1>3, <2>1, RecordIs
<1>6. /\ Rest(b, f) /\ f.g_mode = b.g_mode /\ f.envm_cr = b.envm_cr /\ f.facc2_cr = b.facc2_cr
      /\ f.initial_envm_cr = b.initial_envm_cr /\ f.initial_facc2_cr = b.initial_facc2_cr
      /\ f.initial_facc1_cr = IF c.name = "flash_freeze" THEN b.facc1_cr ELSE b.initial_facc1_cr
  BY <1>3 DEF SysRecord, Quiet
<1> HIDE DEF f
<1>7. x.facc1 \in Facc1 /\ x.divisor \in [Dividers -> 0..7]
  BY <1>5, RecordIs, SwitchIs DEF x
<1>8. e \in SysRecord
  <2>1. ASSUME NEW u \in Facc1, NEW v \in [Dividers -> 0..7]
        PROVE  [f EXCEPT !.facc1_cr = u, !.divisor = v] \in SysRecord
    BY <1>5 DEF SysRecord
  <2> QED BY <1>5, <1>7, <2>1 DEF e
<1>9. /\ Quiet(f, e) /\ e.g_mode = f.g_mode /\ e.envm_cr = f.envm_cr /\ e.facc2_cr = f.facc2_cr
      /\ e.initial_envm_cr = f.initial_envm_cr /\ e.initial_facc2_cr = f.initial_facc2_cr
      /\ e.initial_facc1_cr = f.initial_facc1_cr
      /\ IF Switches(c) THEN e.facc1_cr = x.facc1 /\ e.divisor = x.divisor
         ELSE e.facc1_cr = f.facc1_cr /\ e.divisor = f.divisor
  BY <1>5 DEF SysRecord, Quiet, e
<1>10. f.device = d.device /\ f.facc1_cr = d.facc1_cr /\ f.divisor = d.divisor
       /\ b.facc1_cr = d.facc1_cr
  BY <1>2, <1>4, <1>6 DEF Quiet
<1>11. x = clk_switching_fix(d.device, d.facc1_cr, d.divisor)
  BY <1>10 DEF x
<1>12. Quiet(d, e)
  BY <1>2, <1>4, <1>6, <1>9 DEF Quiet
<1> QED BY <1>0, <1>2, <1>4, <1>6, <1>8, <1>9, <1>10, <1>11, <1>12

LEMMA PrepareSteps == ASSUME SysInv, prepare PROVE SysInv'
<1> DEFINE c == Head(thread.todo)
<1>1. /\ thread.at = "prepare" /\ sys' = Prepared(sys, c)
      /\ thread' = IF ClocksAllow(c) THEN [thread EXCEPT !.at = "start"] ELSE Leaving(thread.todo)
      /\ upset' = upset
           \cup (IF ~ClocksAllow(c) /\ Programs(c) THEN {"divisor"} ELSE {})
           \cup (IF Programs(c) /\ IspRuns THEN {"overlap"} ELSE {})
           \cup (IF Switches(c) /\ c.name # "flash_freeze" THEN {"switched"} ELSE {})
           \cup (IF c.name = "flash_freeze" /\ ctl.frozen THEN {"switched"} ELSE {})
      /\ rxBytes' = rxBytes /\ ctl' = ctl /\ calls' = calls /\ events' = events
  BY DEF prepare
<1>2. Types /\ PlanLeft /\ Turn
  BY DEF SysInv
<1>3. /\ c = Now /\ c \in Requests /\ sys \in SysRecord /\ thread.todo \in Seq(Requests)
  BY <1>1, <1>2, InHand DEF Types
<1> HIDE DEF c
<1>4. sys' \in SysRecord /\ Quiet(sys, sys')
  BY <1>1, <1>3, PreparedIs
<1>5. /\ thread' \in [at : {"free", "prepare", "start", "wait"}, todo : Seq(Requests)]
      /\ PlanLeft'
      /\ \/ ClocksAllow(c) /\ thread'.at = "start" /\ Now' = Now
         \/ ~ClocksAllow(c) /\ thread'.at \in {"free", "prepare"}
  <2>1. CASE ClocksAllow(c)
    <3>1. /\ thread'.at = "start" /\ thread'.todo = thread.todo
          /\ thread' \in [at : {"free", "prepare", "start", "wait"}, todo : Seq(Requests)]
      BY <1>1, <1>2, <2>1 DEF Types
    <3> QED BY <1>1, <1>2, <2>1, <3>1 DEF PlanLeft, Now
  <2>2. CASE ~ClocksAllow(c)
    <3>1. thread' = Leaving(thread.todo) /\ thread.at # "free"
      BY <1>1, <2>2
    <3> QED BY <1>2, <2>2, <3>1, LeavingIs
  <2> QED BY <2>1, <2>2
<1>6. ~ClocksAllow(c) => Switches(c) /\ sys.device = "060"
  BY <1>3, RecordIs, SwitchIs DEF ClocksAllow
<1>7. Types'
  BY <1>1, <1>2, <1>4, <1>5 DEF Types, Reading, Quiet
<1>8. Turn'
  BY <1>1, <1>2, <1>4, <1>5 DEF Turn, Quiet
<1>9. Sent' /\ Result'
  BY <1>1, <1>4, <1>5, StaysIdle DEF Quiet
<1>10. Locked'
  <2>1. SUFFICES ASSUME ctl.locked PROVE Locked'
    BY <1>1 DEF Locked
  <2>2. Now.name \in PufLocks \cup {"puf_get_number_of_keys"}
    BY <2>1 DEF SysInv, Locked
  <2>3. ~Switches(c)
    BY <1>3, <2>2, LocksSwitchNothing
  <2> QED BY <1>5, <1>6, <2>2, <2>3 DEF Locked
<1>11. Registers'
  <2>1. sys'.g_mode = IF c.name = "start_isp" THEN c.mode ELSE sys.g_mode
    BY <1>1, <1>3, PreparedIs
  <2>2. IF Programs(c)
        THEN /\ sys'.envm_cr = "max" /\ sys'.facc2_cr = "standby"
             /\ sys'.initial_envm_cr = sys.envm_cr /\ sys'.initial_facc2_cr = sys.facc2_cr
        ELSE /\ sys'.envm_cr = sys.envm_cr /\ sys'.facc2_cr = sys.facc2_cr
             /\ sys'.initial_envm_cr = sys.initial_envm_cr
             /\ sys'.initial_facc2_cr = sys.initial_facc2_cr
    BY <1>1, <1>3, PreparedIs
  <2>3. sys'.handler = sys.handler /\ sys'.sysBusy = sys.sysBusy
    BY <1>4 DEF Quiet
  <2>4. thread'.at = "start" /\ (Now.name)' = "start_isp" => sys'.g_mode = (Now.mode)'
    BY <1>3, <1>5, <2>1
  <2>5. ASSUME upset' \cap {"divisor", "overlap", "forgotten"} = {}
        PROVE  /\ IF IspRuns /\ sys.g_mode # "authenticate" THEN Lifted ELSE Design
               /\ Programs(c) => ~IspRuns /\ ClocksAllow(c)
    BY <1>1, <2>5 DEF SysInv, Registers
  <2>6. ASSUME upset' \cap {"divisor", "overlap", "forgotten"} = {}, Programs(c)
        PROVE  Lifted' /\ ~IspRuns' /\ thread'.at = "start" /\ Now' = c
    BY <1>3, <1>5, <2>2, <2>3, <2>5, <2>6 DEF Lifted, Design, IspRuns
  <2>7. ASSUME upset' \cap {"divisor", "overlap", "forgotten"} = {}, ~Programs(c)
        PROVE  /\ thread'.at = "start" => Now' = c
               /\ thread'.at = "start" /\ ~sys'.sysBusy => Design'
               /\ thread'.at # "start" =>
                    IF IspRuns' /\ sys'.g_mode # "authenticate" THEN Lifted' ELSE Design'
    <3>1. IspRuns' = IspRuns /\ (IspRuns => sys.sysBusy) /\ Design' = Design /\ Lifted' = Lifted
      BY <1>2, <2>2, <2>3, <2>7 DEF IspRuns, Turn, Design, Lifted
    <3>2. thread'.at # "start" => c.name # "start_isp"
      BY <1>5, <1>6, <2>5, <2>7 DEF Switches, Programs
    <3> QED BY <1>3, <1>5, <2>1, <2>3, <2>5, <2>7, <3>1, <3>2
  <2>8. (Programs(Now))' = Programs(Now')
    BY DEF Programs
  <2> QED BY <1>5, <2>4, <2>6, <2>7, <2>8 DEF Registers
<1>12. Clocks'
  <2>1. /\ sys'.initial_facc1_cr = IF c.name = "flash_freeze" THEN sys.facc1_cr
                                   ELSE sys.initial_facc1_cr
        /\ IF Switches(c)
           THEN /\ sys'.facc1_cr = clk_switching_fix(sys.device, sys.facc1_cr, sys.divisor).facc1
                /\ sys'.divisor = clk_switching_fix(sys.device, sys.facc1_cr, sys.divisor).divisor
           ELSE sys'.facc1_cr = sys.facc1_cr /\ sys'.divisor = sys.divisor
    BY <1>1, <1>3, PreparedIs
  <2>2. sys'.device = sys.device /\ sys'.design = sys.design
    BY <1>4 DEF Quiet
  <2>3. ASSUME "switched" \notin upset'
        PROVE  /\ ~ctl'.frozen /\ ~Freezing' => sys'.facc1_cr = sys'.design
               /\ ctl'.frozen \/ Freezing' => Undoable'
    <3>1. /\ "switched" \notin upset /\ (Switches(c) => c.name = "flash_freeze")
          /\ (c.name = "flash_freeze" => ~ctl.frozen)
      BY <1>1, <2>3
    <3>2. ~Freezing
      BY <1>1 DEF Freezing
    <3>3. (~ctl.frozen => sys.facc1_cr = sys.design) /\ (ctl.frozen => Undoable)
      BY <3>1, <3>2 DEF SysInv, Clocks
    <3>4. CASE c.name = "flash_freeze"
      <4>1. Switches(c) /\ ~ctl.frozen /\ sys.facc1_cr = sys.design
        BY <3>1, <3>3, <3>4 DEF Switches
      <4>2. /\ sys.device = "060" => sys'.facc1_cr = sys.facc1_cr
            /\ sys.device = "005" => sys'.divisor = sys.facc1_cr.div
        <5>1. /\ sys.device \in Devices /\ sys.facc1_cr \in Facc1
              /\ sys.divisor \in [Dividers -> 0..7]
          BY <1>3, RecordIs
        <5>2. /\ sys.device = "060" =>
                   clk_switching_fix(sys.device, sys.facc1_cr, sys.divisor).facc1 = sys.facc1_cr
              /\ sys.device = "005" =>
                   clk_switching_fix(sys.device, sys.facc1_cr, sys.divisor).divisor = sys.facc1_cr.div
          BY <5>1, SwitchIs
        <5> QED BY <2>1, <4>1, <5>2
      <4>3. Undoable'
        BY <2>1, <2>2, <3>4, <4>1, <4>2 DEF Undoable
      <4>4. thread'.at = "start" => Freezing'
        BY <1>3, <1>5, <3>4 DEF Freezing
      <4>5. thread'.at # "start" => sys'.facc1_cr = sys'.design
        BY <1>5, <1>6, <2>2, <4>1, <4>2
      <4> QED BY <4>3, <4>4, <4>5 DEF Freezing
    <3>5. CASE c.name # "flash_freeze"
      <4>1. ~Switches(c) /\ sys'.facc1_cr = sys.facc1_cr /\ sys'.divisor = sys.divisor
            /\ sys'.initial_facc1_cr = sys.initial_facc1_cr
        BY <2>1, <3>1, <3>5
      <4>2. ~Freezing'
        BY <1>3, <1>5, <3>5 DEF Freezing
      <4> QED BY <1>1, <2>2, <3>3, <4>1, <4>2 DEF Undoable
    <3> QED BY <3>4, <3>5
  <2>4. \A i \in 1..Len(rxBytes') : rxBytes'[i].val = "exit" => rxBytes'[i].cmd /\ ctl'.frozen
    BY <1>1 DEF SysInv, Clocks
  <2>5. sys'.design \in Designs(sys'.device) /\ thread'.at # "wait"
    BY <1>5, <2>2 DEF SysInv, Clocks
  <2> QED BY <2>3, <2>4, <2>5 DEF Clocks
<1> QED BY <1>5, <1>7, <1>8, <1>9, <1>10, <1>11, <1>12 DEF SysInv

----------------------------------------------------------------------------
(* Sending a command: it is loaded, and its cells go into the FIFO.        *)
Keeps(d, e) ==
  /\ e.device = d.device /\ e.design = d.design /\ e.facc1_cr = d.facc1_cr
  /\ e.initial_facc1_cr = d.initial_facc1_cr /\ e.divisor = d.divisor
  /\ e.envm_cr = d.envm_cr /\ e.facc2_cr = d.facc2_cr
  /\ e.initial_envm_cr = d.initial_envm_cr /\ e.initial_facc2_cr = d.initial_facc2_cr
  /\ e.g_mode = d.g_mode /\ e.sysBusy = d.sysBusy

Loads(e, n, tag, h) ==
  /\ e.in_progress /\ e.handler = h /\ e.opcode = service[n].op /\ e.size = service[n].len
  /\ e.name = n /\ e.tag = tag /\ ~e.gone

(* At most one command is in the FIFO, and it is this one.                 *)
Only(e, k) ==
  \A i \in Commands(e.tx) : i = k /\ e.tx[i].name = e.name /\ e.tx[i].tag = e.tag

LEMMA LoadedIs ==
  ASSUME NEW d \in SysRecord, ~d.in_progress, NEW n \in Names, NEW tag \in Nat,
         NEW h, h \in {"request", "isp"}
  PROVE  /\ Loaded(d, n, tag, h) \in SysRecord /\ Keeps(d, Loaded(d, n, tag, h))
         /\ Loads(Loaded(d, n, tag, h), n, tag, h) /\ Loaded(d, n, tag, h).tx = d.tx
         /\ Loaded(d, n, tag, h).irq = {"RX"}
<1> DEFINE e == Loaded(d, n, tag, h)
           op == service[n].op
           len == service[n].len
<1>1. op \in Ops /\ len \in Nat
  BY ServiceFine DEF Ops, Fine
<1>2. e = [d EXCEPT !.in_progress = TRUE, !.opcode = op, !.name = n, !.tag = tag, !.cmdLeft = 0,
             !.pages = 0, !.resp = <<>>, !.gone = FALSE, !.size = len, !.idx = 0, !.handler = h,
             !.irq = {"RX"}]
  BY DEF Loaded, abort_current_cmd
<1> HIDE DEF e, op, len
<1>3. e \in SysRecord
  <2>1. /\ op \in Ops \cup {"none"} /\ n \in Names \cup {"none"} /\ <<>> \in Seq(RxSet)
        /\ {"RX"} \in SUBSET {"RX", "TX"} /\ h \in {"none", "request", "isp"}
    BY <1>1
  <2> DEFINE f == [d EXCEPT !.in_progress = TRUE, !.opcode = op, !.name = n, !.tag = tag,
                            !.handler = h, !.irq = {"RX"}]
  <2>2. f \in SysRecord
    BY ZenonT(60), <2>1 DEF SysRecord
  <2>3. e = [f EXCEPT !.cmdLeft = 0, !.pages = 0, !.resp = <<>>, !.gone = FALSE, !.size = len,
                      !.idx = 0]
    BY ZenonT(60), <1>2 DEF SysRecord
  <2> HIDE DEF f
  <2> QED BY ZenonT(60), <1>1, <2>1, <2>2, <2>3 DEF SysRecord
<1>4. Keeps(d, e) /\ e.tx = d.tx
  BY <1>2 DEF SysRecord, Keeps
<1>5. Loads(e, n, tag, h) /\ e.irq = {"RX"}
  BY <1>2 DEF SysRecord, Loads, op, len
<1> QED BY <1>3, <1>4, <1>5 DEF e

LEMMA PushKeeps ==
  ASSUME NEW d \in SysRecord, NEW kind, kind \in {"opcode", "rest", "page"}, NEW m \in Nat,
         NEW n, NEW tag, NEW h, Loads(d, n, tag, h)
  PROVE  /\ Push(d, kind, m) \in SysRecord /\ Keeps(d, Push(d, kind, m))
         /\ Loads(Push(d, kind, m), n, tag, h)
         /\ Push(d, kind, m).irq = d.irq /\ Len(Push(d, kind, m).tx) = Len(d.tx) + m
<1> DEFINE e == Push(d, kind, m)
<1> HIDE DEF e
<1>1. e = [d EXCEPT !.tx = e.tx] /\ e \in SysRecord /\ Len(e.tx) = Len(d.tx) + m
  <2>1. /\ Push(d, kind, m) = [d EXCEPT !.tx = Push(d, kind, m).tx]
        /\ Push(d, kind, m) \in SysRecord
        /\ Len(Push(d, kind, m).tx) = Len(d.tx) + m
        /\ \A i \in 1..Len(d.tx) : Push(d, kind, m).tx[i] = d.tx[i]
        /\ \A i \in 1..m : Push(d, kind, m).tx[Len(d.tx) + i]
                             = [kind |-> kind, name |-> d.name, tag |-> d.tag]
    BY Pushed
  <2> QED BY <2>1 DEF e
<1>2. Keeps(d, e) /\ Loads(e, n, tag, h) /\ e.irq = d.irq
  BY ZenonT(60), <1>1 DEF SysRecord, Keeps, Loads
<1> QED BY <1>1, <1>2 DEF e

(* Where the commands are after a push.                                    *)
LEMMA PushCommands ==
  ASSUME NEW d \in SysRecord, NEW kind, kind \in {"opcode", "rest", "page"}, NEW m \in Nat,
         NEW i \in Commands(Push(d, kind, m).tx)
  PROVE  \/ i \in Commands(d.tx) /\ Push(d, kind, m).tx[i] = d.tx[i]
         \/ /\ kind = "opcode" /\ \E j \in 1..m : i = Len(d.tx) + j
            /\ Push(d, kind, m).tx[i].name = d.name /\ Push(d, kind, m).tx[i].tag = d.tag
<1> DEFINE e == Push(d, kind, m)
           l == Len(d.tx)
<1>1. /\ Len(e.tx) = l + m /\ \A j \in 1..l : e.tx[j] = d.tx[j]
      /\ \A j \in 1..m : e.tx[l + j] = [kind |-> kind, name |-> d.name, tag |-> d.tag]
  BY Pushed
<1>2. l \in Nat
  BY RecordIs, LenProperties
<1> HIDE DEF e, l
<1>3. i \in 1..Len(e.tx) /\ e.tx[i].kind = "opcode" /\ e.tx[i].name # "start_isp"
  BY DEF Commands, e
<1>4. CASE i <= l
  <2>1. i \in 1..l
    BY <1>1, <1>2, <1>3, <1>4
  <2> QED BY <1>1, <1>3, <2>1 DEF Commands, l, e
<1>5. CASE ~(i <= l)
  <2>1. i - l \in 1..m /\ i = l + (i - l)
    BY <1>1, <1>2, <1>3, <1>5
  <2>2. e.tx[i] = [kind |-> kind, name |-> d.name, tag |-> d.tag]
    BY <1>1, <2>1
  <2>3. kind = "opcode" /\ e.tx[i].name = d.name /\ e.tx[i].tag = d.tag
    BY <1>3, <2>2
  <2> QED BY <2>1, <2>3 DEF l, e
<1> QED BY <1>4, <1>5

LEMMA OpcodePushed ==
  ASSUME NEW d \in SysRecord, Commands(d.tx) = {}, NEW n, NEW tag, NEW h, Loads(d, n, tag, h)
  PROVE  Only(Push(d, "opcode", 1), Len(d.tx) + 1)
<1> DEFINE e == Push(d, "opcode", 1)
<1>1. Loads(e, n, tag, h)
  <2>1. 1 \in Nat /\ "opcode" \in {"opcode", "rest", "page"}
    OBVIOUS
  <2> QED BY <2>1, PushKeeps
<1>2. ASSUME NEW i \in Commands(e.tx)
      PROVE  i = Len(d.tx) + 1 /\ e.tx[i].name = d.name /\ e.tx[i].tag = d.tag
  <2>1. 1 \in Nat /\ "opcode" \in {"opcode", "rest", "page"}
    OBVIOUS
  <2>2. /\ \E j \in 1..1 : i = Len(d.tx) + j
        /\ e.tx[i].name = d.name /\ e.tx[i].tag = d.tag
    BY <1>2, <2>1, PushCommands
  <2>3. \A j \in 1..1 : j = 1
    OBVIOUS
  <2> QED BY <2>2, <2>3
<1> HIDE DEF e
<1>3. e.name = d.name /\ e.tag = d.tag
  BY <1>1 DEF Loads
<1> QED BY <1>2, <1>3 DEF Only, e

LEMMA RestPushed ==
  ASSUME NEW d \in SysRecord, NEW k, Only(d, k), NEW m \in Nat,
         NEW n, NEW tag, NEW h, Loads(d, n, tag, h)
  PROVE  Only(Push(d, "rest", m), k)
<1> DEFINE e == Push(d, "rest", m)
<1>0. "rest" \in {"opcode", "rest", "page"} /\ "rest" # "opcode"
  OBVIOUS
<1>1. Loads(e, n, tag, h)
  BY <1>0, PushKeeps
<1>2. \A i \in Commands(e.tx) : i \in Commands(d.tx) /\ e.tx[i] = d.tx[i]
  BY <1>0, PushCommands
<1> HIDE DEF e
<1>3. e.name = d.name /\ e.tag = d.tag
  BY <1>1 DEF Loads
<1> QED BY <1>2, <1>3 DEF Only, e

(* A command has been sent.                                                *)
SentAs(d, e, n, tag, h) ==
  /\ e \in SysRecord /\ Keeps(d, e) /\ Loads(e, n, tag, h) /\ Len(e.tx) <= TxFifo
  /\ Only(e, Len(d.tx) + 1)
  /\ e.state \in {"TX_CMD", "TX_PAGED_DATA", "WAIT_RESPONSE"}
  /\ h = "request" => e.state # "TX_PAGED_DATA" /\ e.irq = {"RX"}

LEMMA Launched ==
  ASSUME NEW d \in SysRecord, NEW e \in SysRecord, NEW n, NEW tag, NEW h,
         Keeps(d, e), Loads(e, n, tag, h), Len(e.tx) <= TxFifo, Only(e, Len(d.tx) + 1),
         NEW s \in {"TX_CMD", "TX_PAGED_DATA", "WAIT_RESPONSE"}, NEW l \in Nat,
         h = "request" => s # "TX_PAGED_DATA" /\ e.irq = {"RX"}
  PROVE  SentAs(d, [e EXCEPT !.state = s, !.cmdLeft = l], n, tag, h)
<1> DEFINE f == [e EXCEPT !.state = s, !.cmdLeft = l]
<1>1. f \in SysRecord /\ f.state = s /\ f.irq = e.irq /\ f.tx = e.tx
  BY ZenonT(60) DEF SysRecord
<1>2. Keeps(d, f)
  BY DEF SysRecord, Keeps
<1>3. Loads(f, n, tag, h) /\ f.name = e.name /\ f.tag = e.tag
  BY DEF SysRecord, Loads
<1> HIDE DEF f
<1>4. Only(f, Len(d.tx) + 1)
  BY <1>1, <1>3 DEF Only
<1>5. SentAs(d, f, n, tag, h)
  BY <1>1, <1>2, <1>3, <1>4 DEF SentAs
<1> QED BY <1>5 DEF f

LEMMA OpcodeFits ==
  ASSUME NEW d \in SysRecord, Commands(d.tx) = {}, Len(d.tx) + 1 <= TxFifo,
         NEW e \in SysRecord, NEW n, NEW tag, NEW h, Keeps(d, e), Loads(e, n, tag, h), e.tx = d.tx
  PROVE  /\ Push(e, "opcode", 1) \in SysRecord /\ Keeps(d, Push(e, "opcode", 1))
         /\ Loads(Push(e, "opcode", 1), n, tag, h) /\ Push(e, "opcode", 1).irq = e.irq
         /\ Len(Push(e, "opcode", 1).tx) = Len(d.tx) + 1
         /\ Only(Push(e, "opcode", 1), Len(d.tx) + 1)
<1>1. 1 \in Nat /\ "opcode" \in {"opcode", "rest", "page"}
  OBVIOUS
<1>2. /\ Push(e, "opcode", 1) \in SysRecord /\ Keeps(e, Push(e, "opcode", 1))
      /\ Loads(Push(e, "opcode", 1), n, tag, h) /\ Push(e, "opcode", 1).irq = e.irq
      /\ Len(Push(e, "opcode", 1).tx) = Len(e.tx) + 1
  BY <1>1, PushKeeps
<1>3. Keeps(d, Push(e, "opcode", 1))
  BY <1>2 DEF Keeps
<1>4. Only(Push(e, "opcode", 1), Len(e.tx) + 1)
  BY OpcodePushed
<1> QED BY <1>2, <1>3, <1>4

LEMMA RestFits ==
  ASSUME NEW d \in SysRecord, NEW e \in SysRecord, NEW n, NEW tag, NEW h, NEW k, NEW m \in Nat,
         Keeps(d, e), Loads(e, n, tag, h), Only(e, k), Len(e.tx) + m <= TxFifo
  PROVE  /\ Push(e, "rest", m) \in SysRecord /\ Keeps(d, Push(e, "rest", m))
         /\ Loads(Push(e, "rest", m), n, tag, h) /\ Push(e, "rest", m).irq = e.irq
         /\ Len(Push(e, "rest", m).tx) <= TxFifo
         /\ Only(Push(e, "rest", m), k)
<1>1. "rest" \in {"opcode", "rest", "page"}
  OBVIOUS
<1>2. /\ Push(e, "rest", m) \in SysRecord /\ Keeps(e, Push(e, "rest", m))
      /\ Loads(Push(e, "rest", m), n, tag, h) /\ Push(e, "rest", m).irq = e.irq
      /\ Len(Push(e, "rest", m).tx) = Len(e.tx) + m
  BY <1>1, PushKeeps
<1>3. Keeps(d, Push(e, "rest", m))
  BY <1>2 DEF Keeps
<1>4. Only(Push(e, "rest", m), k)
  BY RestPushed
<1> QED BY <1>2, <1>3, <1>4

LEMMA PtrSent ==
  ASSUME NEW d \in SysRecord, ~d.in_progress, NEW n \in Names, NEW tag \in Nat,
         Commands(d.tx) = {}, Len(d.tx) + 2 <= TxFifo
  PROVE  SentAs(d, MSS_COMBLK_send_cmd_with_ptr(d, n, tag), n, tag, "request")
<1> DEFINE h == "request"
           L == Loaded(d, n, tag, h)
           P == Push(L, "opcode", 1)
           R == Push(P, "rest", 1)
<1>0. MSS_COMBLK_send_cmd_with_ptr(d, n, tag) = [R EXCEPT !.state = "WAIT_RESPONSE"]
  BY DEF MSS_COMBLK_send_cmd_with_ptr
<1>1. h \in {"request", "isp"} /\ h = "request" /\ 1 \in Nat /\ TxFifo \in Nat /\ Len(d.tx) \in Nat
  BY RecordIs, LenProperties, ServiceAssumption
<1> HIDE DEF h
<1>2. L \in SysRecord /\ Keeps(d, L) /\ Loads(L, n, tag, h) /\ L.tx = d.tx /\ L.irq = {"RX"}
  BY <1>1, LoadedIs
<1> HIDE DEF L
<1>3. Len(d.tx) + 1 <= TxFifo
  BY <1>1
<1>4. /\ P \in SysRecord /\ Keeps(d, P) /\ Loads(P, n, tag, h) /\ P.irq = {"RX"}
      /\ Len(P.tx) = Len(d.tx) + 1 /\ Only(P, Len(d.tx) + 1)
  BY <1>2, <1>3, OpcodeFits
<1> HIDE DEF P
<1>5. Len(P.tx) + 1 <= TxFifo
  BY <1>1, <1>4
<1>6. /\ R \in SysRecord /\ Keeps(d, R) /\ Loads(R, n, tag, h) /\ R.irq = {"RX"}
      /\ Len(R.tx) <= TxFifo /\ Only(R, Len(d.tx) + 1)
  <2>1. /\ R \in SysRecord /\ Keeps(d, R) /\ Loads(R, n, tag, h)
        /\ Len(R.tx) <= TxFifo /\ Only(R, Len(d.tx) + 1)
    BY <1>1, <1>4, <1>5, RestFits
  <2>2. R.irq = P.irq
    BY <1>1, <1>4, <1>5, PushKeeps
  <2> QED BY <1>4, <2>1, <2>2
<1> HIDE DEF R
<1>7. R.cmdLeft \in Nat /\ [R EXCEPT !.state = "WAIT_RESPONSE"]
                           = [R EXCEPT !.state = "WAIT_RESPONSE", !.cmdLeft = R.cmdLeft]
  BY <1>6 DEF SysRecord
<1>8. SentAs(d, [R EXCEPT !.state = "WAIT_RESPONSE", !.cmdLeft = R.cmdLeft], n, tag, h)
  BY <1>1, <1>4, <1>6, <1>7, Launched
<1> QED BY <1>0, <1>1, <1>7, <1>8

LEMMA CmdSent ==
  ASSUME NEW d \in SysRecord, ~d.in_progress, NEW n \in Names, NEW tag \in Nat,
         Commands(d.tx) = {}, Len(d.tx) + 1 <= TxFifo
  PROVE  SentAs(d, MSS_COMBLK_send_cmd(d, n, tag), n, tag, "request")
<1> DEFINE h == "request"
           L == Loaded(d, n, tag, h)
           P == Push(L, "opcode", 1)
           m == IF service[n].via = "byte" THEN 0 ELSE 1
           k == Fits(P, m)
           R == Push(P, "rest", k)
<1>0. MSS_COMBLK_send_cmd(d, n, tag) =
        IF k < m THEN [R EXCEPT !.state = "TX_CMD", !.cmdLeft = m]
                 ELSE [R EXCEPT !.state = "WAIT_RESPONSE"]
  BY DEF MSS_COMBLK_send_cmd
<1>1. h \in {"request", "isp"} /\ h = "request" /\ m \in Nat /\ TxFifo \in Nat /\ Len(d.tx) \in Nat
  BY RecordIs, LenProperties, ServiceAssumption
<1> HIDE DEF h, m
<1>2. L \in SysRecord /\ Keeps(d, L) /\ Loads(L, n, tag, h) /\ L.tx = d.tx /\ L.irq = {"RX"}
  BY <1>1, LoadedIs
<1> HIDE DEF L
<1>3. /\ P \in SysRecord /\ Keeps(d, P) /\ Loads(P, n, tag, h) /\ P.irq = {"RX"}
      /\ Len(P.tx) = Len(d.tx) + 1 /\ Only(P, Len(d.tx) + 1)
  BY <1>2, OpcodeFits
<1> HIDE DEF P
<1>4. k \in Nat /\ Len(P.tx) + k <= TxFifo
  BY <1>1, <1>3, FitsIs
<1> HIDE DEF k
<1>5. /\ R \in SysRecord /\ Keeps(d, R) /\ Loads(R, n, tag, h) /\ R.irq = {"RX"}
      /\ Len(R.tx) <= TxFifo /\ Only(R, Len(d.tx) + 1)
  <2>1. /\ R \in SysRecord /\ Keeps(d, R) /\ Loads(R, n, tag, h)
        /\ Len(R.tx) <= TxFifo /\ Only(R, Len(d.tx) + 1)
    BY <1>1, <1>3, <1>4, RestFits
  <2>2. R.irq = P.irq
    BY <1>1, <1>3, <1>4, PushKeeps
  <2> QED BY <1>3, <2>1, <2>2
<1> HIDE DEF R
<1>6. R.cmdLeft \in Nat /\ [R EXCEPT !.state = "WAIT_RESPONSE"]
                           = [R EXCEPT !.state = "WAIT_RESPONSE", !.cmdLeft = R.cmdLeft]
  BY <1>5 DEF SysRecord
<1>7. SentAs(d, [R EXCEPT !.state = "WAIT_RESPONSE", !.cmdLeft = R.cmdLeft], n, tag, h)
  BY <1>1, <1>3, <1>5, <1>6, Launched
<1>8. SentAs(d, [R EXCEPT !.state = "TX_CMD", !.cmdLeft = m], n, tag, h)
  BY <1>1, <1>3, <1>5, Launched
<1> QED BY <1>0, <1>1, <1>6, <1>7, <1>8

LEMMA PagedSent ==
  ASSUME NEW d \in SysRecord, ~d.in_progress, NEW n \in Names, NEW tag \in Nat,
         Commands(d.tx) = {}, Len(d.tx) + 1 <= TxFifo
  PROVE  SentAs(d, MSS_COMBLK_send_paged_cmd(d, n, tag), n, tag, "isp")
<1> DEFINE h == "isp"
           K == Loaded(d, n, tag, h)
           L == [K EXCEPT !.irq = {"RX", "TX"}]
           P == Push(L, "opcode", 1)
           k == Fits(P, 1)
           R == Push(P, "rest", k)
<1>0. MSS_COMBLK_send_paged_cmd(d, n, tag) =
        IF k < 1 THEN [R EXCEPT !.state = "TX_CMD", !.cmdLeft = 1]
                 ELSE [R EXCEPT !.state = "TX_PAGED_DATA"]
  BY DEF MSS_COMBLK_send_paged_cmd
<1>1. h \in {"request", "isp"} /\ h # "request" /\ 1 \in Nat /\ TxFifo \in Nat /\ Len(d.tx) \in Nat
      /\ h = "isp"
  BY RecordIs, LenProperties, ServiceAssumption
<1> HIDE DEF h
<1>2. K \in SysRecord /\ Keeps(d, K) /\ Loads(K, n, tag, h) /\ K.tx = d.tx
  BY <1>1, LoadedIs
<1> HIDE DEF K
<1>3. L \in SysRecord /\ Keeps(d, L) /\ Loads(L, n, tag, h) /\ L.tx = d.tx
  <2>1. L \in SysRecord /\ L.tx = K.tx
    BY <1>2 DEF SysRecord
  <2>2. Keeps(d, L)
    BY <1>2 DEF SysRecord, Keeps
  <2>3. Loads(L, n, tag, h)
    BY <1>2 DEF SysRecord, Loads
  <2> QED BY <1>2, <2>1, <2>2, <2>3
<1> HIDE DEF L
<1>4. /\ P \in SysRecord /\ Keeps(d, P) /\ Loads(P, n, tag, h)
      /\ Len(P.tx) = Len(d.tx) + 1 /\ Only(P, Len(d.tx) + 1)
  BY <1>3, OpcodeFits
<1> HIDE DEF P
<1>5. k \in Nat /\ Len(P.tx) + k <= TxFifo
  BY <1>1, <1>4, FitsIs
<1> HIDE DEF k
<1>6. /\ R \in SysRecord /\ Keeps(d, R) /\ Loads(R, n, tag, h)
      /\ Len(R.tx) <= TxFifo /\ Only(R, Len(d.tx) + 1)
  BY <1>1, <1>4, <1>5, RestFits
<1> HIDE DEF R
<1>7. R.cmdLeft \in Nat /\ [R EXCEPT !.state = "TX_PAGED_DATA"]
                           = [R EXCEPT !.state = "TX_PAGED_DATA", !.cmdLeft = R.cmdLeft]
  BY <1>6 DEF SysRecord
<1>8. SentAs(d, [R EXCEPT !.state = "TX_PAGED_DATA", !.cmdLeft = R.cmdLeft], n, tag, h)
  BY <1>1, <1>6, <1>7, Launched
<1>9. SentAs(d, [R EXCEPT !.state = "TX_CMD", !.cmdLeft = 1], n, tag, h)
  BY <1>1, <1>6, Launched
<1> QED BY <1>0, <1>1, <1>7, <1>8, <1>9

LEMMA StartSends ==
  ASSUME SysInv, start
  PROVE  /\ thread.at = "start" /\ ~sys.sysBusy /\ sys'.sysBusy
         /\ Keeps([sys EXCEPT !.sysBusy = TRUE], sys')
         /\ SentAs([sys EXCEPT !.sysBusy = TRUE], sys', Now.name, calls,
                   IF service[Now.name].via = "paged" THEN "isp" ELSE "request")
<1> DEFINE c == Head(thread.todo)
           s == service[c.name]
           d == [sys EXCEPT !.sysBusy = TRUE, !.length = 0]
           f == [d EXCEPT !.pagesRead = 0]
           g == [sys EXCEPT !.sysBusy = TRUE]
           room == TxFifo - Len(abort_current_cmd(d).tx)
<1>1. thread.at = "start" /\ ~sys.sysBusy
  BY DEF start, signal_request_start
<1>2. Types /\ PlanLeft /\ Turn
  BY DEF SysInv
<1>3. c = Now /\ c.name \in Names /\ s.via \in {"ptr", "cmd", "byte", "paged"}
  BY <1>1, <1>2, InHand DEF Fine
<1>4. sys \in SysRecord /\ calls \in Nat /\ ~sys.in_progress
  BY <1>1, <1>2 DEF Types, Turn, SysRecord
<1>5. Commands(sys.tx) = {}
  BY <1>1, IdleMeans DEF InTx
<1>6. /\ room >= IF s.via = "ptr" THEN 2 ELSE 1
      /\ sys' = CASE s.via = "ptr"   -> MSS_COMBLK_send_cmd_with_ptr(d, c.name, calls)
                  [] s.via = "paged" -> MSS_COMBLK_send_paged_cmd(f, c.name, calls)
                  [] OTHER           -> MSS_COMBLK_send_cmd(d, c.name, calls)
  BY DEF start
<1> HIDE DEF c
<1>7. /\ d \in SysRecord /\ f \in SysRecord /\ g \in SysRecord
      /\ ~d.in_progress /\ ~f.in_progress /\ d.tx = sys.tx /\ f.tx = sys.tx /\ g.tx = sys.tx
      /\ g.sysBusy
  BY <1>4 DEF SysRecord
<1>8. Keeps(g, d) /\ Keeps(g, f)
  BY <1>4 DEF SysRecord, Keeps
<1>9. TxFifo \in Nat /\ Len(sys.tx) \in Nat
  BY <1>4, RecordIs, LenProperties, ServiceAssumption
<1>10. room = TxFifo - Len(sys.tx)
  BY <1>7 DEF abort_current_cmd
<1> HIDE DEF d, f, g, room
<1> DEFINE h == IF s.via = "paged" THEN "isp" ELSE "request"
<1>11. \E e \in {d, f} : SentAs(e, sys', c.name, calls, h)
  <2>1. CASE s.via = "ptr"
    <3>1. Len(d.tx) + 2 <= TxFifo /\ Commands(d.tx) = {}
      BY <1>5, <1>6, <1>7, <1>9, <1>10, <2>1
    <3>2. SentAs(d, MSS_COMBLK_send_cmd_with_ptr(d, c.name, calls), c.name, calls, "request")
      BY <1>3, <1>4, <1>7, <3>1, PtrSent
    <3> QED BY <1>6, <2>1, <3>2
  <2>2. CASE s.via = "paged"
    <3>1. Len(f.tx) + 1 <= TxFifo /\ Commands(f.tx) = {}
      BY <1>5, <1>6, <1>7, <1>9, <1>10, <2>2
    <3>2. SentAs(f, MSS_COMBLK_send_paged_cmd(f, c.name, calls), c.name, calls, "isp")
      BY <1>3, <1>4, <1>7, <3>1, PagedSent
    <3>3. sys' = MSS_COMBLK_send_paged_cmd(f, c.name, calls)
      BY <1>6, <2>2
    <3> QED BY <2>2, <3>2, <3>3
  <2>3. CASE s.via \notin {"ptr", "paged"}
    <3>1. Len(d.tx) + 1 <= TxFifo /\ Commands(d.tx) = {}
      BY <1>5, <1>6, <1>7, <1>9, <1>10, <2>3
    <3>2. SentAs(d, MSS_COMBLK_send_cmd(d, c.name, calls), c.name, calls, "request")
      BY <1>3, <1>4, <1>7, <3>1, CmdSent
    <3>3. sys' = MSS_COMBLK_send_cmd(d, c.name, calls)
      BY <1>6, <2>3
    <3> QED BY <2>3, <3>2, <3>3
  <2> QED BY <2>1, <2>2, <2>3
<1>12. PICK e \in {d, f} : SentAs(e, sys', c.name, calls, h)
  BY <1>11
<1>13. Keeps(g, e) /\ e.tx = g.tx
  BY <1>7, <1>8
<1> HIDE DEF h
<1>14. Keeps(g, sys')
  BY <1>12, <1>13 DEF SentAs, Keeps
<1>15. SentAs(g, sys', c.name, calls, h)
  BY <1>12, <1>13, <1>14 DEF SentAs
<1>16. sys'.sysBusy
  BY <1>7, <1>14 DEF Keeps
<1> QED BY <1>1, <1>3, <1>14, <1>15, <1>16 DEF g, h

LEMMA StartSteps == ASSUME SysInv, start PROVE SysInv'
<1> DEFINE n == Now.name
           h == IF service[n].via = "paged" THEN "isp" ELSE "request"
           g == [sys EXCEPT !.sysBusy = TRUE]
<1>1. /\ thread.at = "start" /\ ~sys.sysBusy /\ sys'.sysBusy
      /\ Keeps(g, sys') /\ SentAs(g, sys', n, calls, h)
  BY StartSends
<1>2. Types /\ PlanLeft /\ Turn
  BY DEF SysInv
<1>3. n \in Names /\ Fine(n, service[n]) /\ Head(thread.todo) = Now
  BY <1>1, <1>2, InHand
<1>4. /\ thread' = IF service[n].via = "paged" THEN Leaving(thread.todo)
                   ELSE [thread EXCEPT !.at = "wait"]
      /\ rxBytes' = rxBytes /\ ctl' = ctl /\ calls' = calls /\ events' = events
      /\ upset' = upset
  BY <1>3 DEF start
<1>5. sys \in SysRecord /\ Len(sys.tx) \in Nat
  BY <1>2, RecordIs, LenProperties DEF Types
<1>6. /\ sys'.device = sys.device /\ sys'.design = sys.design /\ sys'.facc1_cr = sys.facc1_cr
      /\ sys'.initial_facc1_cr = sys.initial_facc1_cr /\ sys'.divisor = sys.divisor
      /\ sys'.envm_cr = sys.envm_cr /\ sys'.facc2_cr = sys.facc2_cr
      /\ sys'.initial_envm_cr = sys.initial_envm_cr
      /\ sys'.initial_facc2_cr = sys.initial_facc2_cr /\ sys'.g_mode = sys.g_mode
  BY <1>1, <1>5 DEF SysRecord, Keeps
<1>7. Loads(sys', n, calls, h) /\ Only(sys', Len(g.tx) + 1)
      /\ sys'.state \in {"TX_CMD", "TX_PAGED_DATA", "WAIT_RESPONSE"}
      /\ (h = "request" => sys'.state # "TX_PAGED_DATA" /\ sys'.irq = {"RX"})
      /\ sys' \in SysRecord /\ Len(sys'.tx) <= TxFifo
  BY <1>1 DEF SentAs
<1> HIDE DEF g
<1>8. InTx = {} /\ ~InCtl /\ InRx = {}
  BY <1>1, IdleMeans
<1>9. CASE service[n].via = "paged"
  <2>1. n = "start_isp" /\ h = "isp" /\ thread' = Leaving(thread.todo)
    BY <1>3, <1>4, <1>9 DEF Fine
  <2>2. /\ thread' \in [at : {"free", "prepare", "start", "wait"}, todo : Seq(Requests)]
        /\ PlanLeft' /\ thread'.at \in {"free", "prepare"}
    BY <1>1, <1>2, <2>1, LeavingIs
  <2>3. Types'
    BY <1>2, <1>4, <1>7, <2>2 DEF Types, Reading
  <2>4. Turn'
    BY <1>1, <1>3, <1>7, <2>1, <2>2 DEF Turn, Loads, Fine
  <2>5. InTx' = {} /\ ~InCtl' /\ InRx' = {}
    <3>1. \A i \in Commands(sys'.tx) : sys'.tx[i].name = "start_isp"
      BY <1>7, <2>1 DEF Only, Loads
    <3>2. Commands(sys'.tx) = {}
      BY <3>1 DEF Commands
    <3> QED BY <1>4, <1>8, <3>2 DEF InTx, InCtl, InRx
  <2>6. Sent' /\ Result'
    BY <2>2, <2>5 DEF Sent, Result
  <2>7. Locked'
    BY <1>4, <2>1 DEF SysInv, Locked, PufLocks
  <2>8. Registers'
    <3>1. IspRuns'
      BY <1>7, <2>1 DEF IspRuns, Loads
    <3>2. ASSUME upset' \cap {"divisor", "overlap", "forgotten"} = {}
          PROVE  IF sys'.g_mode # "authenticate" THEN Lifted' ELSE Design'
      <4>1. /\ sys.g_mode = Now.mode /\ (Programs(Now) => Lifted)
            /\ (~Programs(Now) => Design)
        BY <1>1, <1>4, <2>1, <3>2 DEF SysInv, Registers
      <4>2. Programs(Now) <=> sys.g_mode # "authenticate"
        BY <2>1, <4>1 DEF Programs
      <4> QED BY <1>6, <4>1, <4>2 DEF Lifted, Design
    <3> QED BY <2>2, <3>1, <3>2 DEF Registers
  <2>9. Clocks'
    <3>1. ~Freezing /\ ~Freezing' /\ (Undoable => Undoable')
      BY <1>6, <2>1, <2>2 DEF Freezing, Undoable
    <3> QED BY <1>4, <1>6, <2>2, <3>1 DEF SysInv, Clocks
  <2> QED BY <2>2, <2>3, <2>4, <2>6, <2>7, <2>8, <2>9 DEF SysInv
<1>10. CASE service[n].via # "paged"
  <2>1. h = "request" /\ thread' = [thread EXCEPT !.at = "wait"]
    BY <1>4, <1>10
  <2>2. /\ thread' \in [at : {"free", "prepare", "start", "wait"}, todo : Seq(Requests)]
        /\ thread'.at = "wait" /\ thread'.todo = thread.todo /\ Now' = Now
    BY <1>2, <2>1 DEF Types, Now
  <2>3. Types'
    BY <1>2, <1>4, <1>7, <2>2 DEF Types, Reading
  <2>4. PlanLeft'
    BY <1>1, <1>2, <2>2 DEF PlanLeft
  <2>5. Turn'
    BY <1>1, <1>7, <1>10, <2>1, <2>2 DEF Turn, Loads
  <2>6. Unanswered' /\ InRx' = {} /\ ~InCtl'
    BY <1>4, <1>7, <1>8, <2>1, <2>2 DEF Unanswered, InRx, InCtl
  <2>7. Sent'
    <3>1. \A i \in InTx' : i = Len(g.tx) + 1 /\ sys'.tx[i].name = n /\ sys'.tx[i].tag = calls
      BY <1>7 DEF InTx, Only, Loads
    <3> QED BY <1>4, <2>2, <2>6, <3>1 DEF Sent
  <2>8. Result'
    BY <1>1, <1>7, <2>6 DEF Result
  <2>9. Locked'
    BY <1>4, <2>2, <2>6 DEF SysInv, Locked
  <2>10. Registers'
    <3>1. Lifted' = Lifted /\ Design' = Design
      BY <1>6 DEF Lifted, Design
    <3> QED BY <1>1, <1>4, <2>2, <3>1 DEF SysInv, Registers, Programs
  <2>11. Clocks'
    <3>1. Freezing' = Freezing /\ Undoable' = Undoable
      BY <1>1, <1>6, <2>2 DEF Freezing, Undoable
    <3> QED BY <1>4, <1>6, <2>6, <3>1 DEF SysInv, Clocks
  <2> QED BY <2>3, <2>4, <2>5, <2>7, <2>8, <2>9, <2>10, <2>11 DEF SysInv
<1> QED BY <1>9, <1>10

LEMMA FinishSteps == ASSUME SysInv, finish PROVE SysInv'
<1> DEFINE c == Head(thread.todo)
<1>1. /\ thread.at = "wait" /\ ~sys.sysBusy /\ thread' = Leaving(thread.todo)
      /\ sys' = IF Programs(c)
                THEN [sys EXCEPT !.resp = <<>>, !.gone = TRUE, !.envm_cr = sys.initial_envm_cr,
                                 !.facc2_cr = sys.initial_facc2_cr]
                ELSE [sys EXCEPT !.resp = <<>>, !.gone = TRUE]
      /\ rxBytes' = rxBytes /\ ctl' = ctl /\ calls' = calls /\ events' = events
      /\ upset' = upset
  BY DEF finish
<1>2. Types /\ PlanLeft /\ Turn
  BY DEF SysInv
<1>3. c = Now /\ sys \in SysRecord
  BY <1>1, <1>2, InHand DEF Types
<1> HIDE DEF c
<1>4. /\ thread' \in [at : {"free", "prepare", "start", "wait"}, todo : Seq(Requests)]
      /\ PlanLeft' /\ thread'.at \in {"free", "prepare"}
      /\ Now.name \in PufLocks =>
           thread'.at = "prepare" /\ (Now.name)' = "puf_get_number_of_keys"
  BY <1>1, <1>2, LeavingIs
<1>5. sys' \in SysRecord
  <2>1. <<>> \in Seq(RxSet) /\ sys.initial_envm_cr \in EnvmSettings
        /\ sys.initial_facc2_cr \in MuxSettings
    BY <1>3 DEF SysRecord
  <2>2. [sys EXCEPT !.resp = <<>>, !.gone = TRUE] \in SysRecord
    BY <1>3, <2>1 DEF SysRecord
  <2>3. [sys EXCEPT !.resp = <<>>, !.gone = TRUE, !.envm_cr = sys.initial_envm_cr,
                    !.facc2_cr = sys.initial_facc2_cr] \in SysRecord
    BY <1>3, <2>1 DEF SysRecord
  <2> QED BY <1>1, <2>2, <2>3
<1>6. /\ sys'.gone /\ sys'.idx = sys.idx /\ sys'.state = sys.state /\ sys'.tx = sys.tx
      /\ sys'.in_progress = sys.in_progress /\ sys'.handler = sys.handler
      /\ sys'.sysBusy = sys.sysBusy
  BY <1>1, <1>3 DEF SysRecord
<1>7. /\ sys'.device = sys.device /\ sys'.design = sys.design /\ sys'.facc1_cr = sys.facc1_cr
      /\ sys'.initial_facc1_cr = sys.initial_facc1_cr /\ sys'.divisor = sys.divisor
  BY <1>1, <1>3 DEF SysRecord
<1>8. IF Programs(c) THEN sys'.envm_cr = sys.initial_envm_cr /\ sys'.facc2_cr = sys.initial_facc2_cr
      ELSE sys'.envm_cr = sys.envm_cr /\ sys'.facc2_cr = sys.facc2_cr
  BY <1>1, <1>3 DEF SysRecord
<1>9. Types'
  BY <1>1, <1>2, <1>4, <1>5, <1>6 DEF Types, Reading
<1>10. Turn'
  BY <1>1, <1>2, <1>4, <1>6 DEF Turn
<1>11. Sent' /\ Result'
  BY <1>1, <1>4, <1>6, StaysIdle
<1>12. ~Unanswered
  BY <1>1, <1>2 DEF Unanswered, Turn
<1>13. Locked'
  BY <1>1, <1>4, <1>12 DEF SysInv, Locked
<1>14. Registers'
  <2>1. ~IspRuns'
    BY <1>1, <1>2, <1>6 DEF IspRuns, Turn
  <2>2. ASSUME upset' \cap {"divisor", "overlap", "forgotten"} = {} PROVE Design'
    <3>1. IF Programs(c) THEN Lifted ELSE Design
      BY <1>1, <1>3, <2>2 DEF SysInv, Registers
    <3> QED BY <1>8, <3>1 DEF Lifted, Design
  <2> QED BY <1>4, <2>1, <2>2 DEF Registers
<1>15. Clocks'
  <2>1. ~Freezing' /\ Undoable' = Undoable
    BY <1>4, <1>7 DEF Freezing, Undoable
  <2> QED BY <1>1, <1>4, <1>7, <1>12, <2>1 DEF SysInv, Clocks
<1> QED BY <1>4, <1>9, <1>10, <1>11, <1>13, <1>14, <1>15 DEF SysInv

LEMMA InitSteps == ASSUME SysInv, MSS_SYS_init PROVE SysInv'
<1>1. /\ thread.at = "free" /\ events' = events + 1
      /\ sys' = [sys EXCEPT !.sysBusy = FALSE, !.length = 0, !.initial_facc1_cr = sys.facc1_cr,
                   !.in_progress = FALSE, !.opcode = "none", !.name = "none", !.tag = 0, !.cmdLeft = 0,
                   !.pages = 0, !.resp = <<>>, !.gone = FALSE, !.size = 0, !.idx = 0, !.handler = "none",
                   !.state = "IDLE", !.irq = {"RX"}]
      /\ upset' = upset \cup (IF Unfinished THEN {"forgotten"} ELSE {})
                        \cup (IF ctl.frozen THEN {"switched"} ELSE {})
      /\ rxBytes' = rxBytes /\ thread' = thread /\ ctl' = ctl /\ calls' = calls
  BY DEF MSS_SYS_init
<1>2. Types /\ PlanLeft /\ Turn /\ sys \in SysRecord
  BY DEF SysInv, Types
<1>3. sys' \in SysRecord
  <2> DEFINE x == sys.facc1_cr
             d == [sys EXCEPT !.sysBusy = FALSE, !.length = 0, !.initial_facc1_cr = x,
                              !.in_progress = FALSE, !.opcode = "none", !.name = "none", !.tag = 0]
  <2>1. x \in Facc1 /\ <<>> \in Seq(RxSet) /\ {"RX"} \in SUBSET {"RX", "TX"}
    BY <1>2, RecordIs
  <2> HIDE DEF x
  <2>2. d \in SysRecord
    BY <1>2, <2>1 DEF SysRecord
  <2>3. sys' = [d EXCEPT !.cmdLeft = 0, !.pages = 0, !.resp = <<>>, !.gone = FALSE, !.size = 0,
                         !.idx = 0, !.handler = "none", !.state = "IDLE", !.irq = {"RX"}]
    BY <1>1, <1>2 DEF SysRecord, x
  <2> HIDE DEF d
  <2> QED BY ZenonT(60), <2>1, <2>2, <2>3 DEF SysRecord
<1>4. /\ ~sys'.sysBusy /\ ~sys'.in_progress /\ sys'.handler = "none" /\ sys'.state = "IDLE"
      /\ sys'.tx = sys.tx
  BY <1>1, <1>2 DEF SysRecord
<1>5. /\ sys'.device = sys.device /\ sys'.design = sys.design /\ sys'.facc1_cr = sys.facc1_cr
      /\ sys'.envm_cr = sys.envm_cr /\ sys'.facc2_cr = sys.facc2_cr
  BY <1>1, <1>2 DEF SysRecord
<1>6. Types'
  <2>1. events' \in Nat
    BY <1>1, <1>2 DEF Types
  <2> QED BY <1>1, <1>2, <1>3, <1>4, <2>1 DEF Types, Reading
<1>7. PlanLeft' /\ Turn' /\ Locked'
  BY <1>1, <1>4 DEF SysInv, PlanLeft, Turn, Locked
<1>8. Sent' /\ Result'
  BY <1>1, <1>4, StaysIdle
<1>9. Registers'
  <2>1. ASSUME upset' \cap {"divisor", "overlap", "forgotten"} = {} PROVE Design'
    <3>1. ~IspRuns /\ upset \cap {"divisor", "overlap", "forgotten"} = {}
      BY <1>1, <2>1 DEF Unfinished
    <3>2. Design
      BY <1>1, <3>1 DEF SysInv, Registers
    <3> QED BY <1>5, <3>2 DEF Design
  <2> QED BY <1>1, <1>4, <2>1 DEF Registers, IspRuns
<1>10. Clocks'
  <2>1. ~Freezing /\ ~Freezing'
    BY <1>1 DEF Freezing
  <2>2. ASSUME "switched" \notin upset' PROVE ~ctl.frozen /\ sys.facc1_cr = sys.design
    BY <1>1, <2>1, <2>2 DEF SysInv, Clocks
  <2> QED BY <1>1, <1>5, <2>1, <2>2 DEF SysInv, Clocks
<1> QED BY <1>6, <1>7, <1>8, <1>9, <1>10 DEF SysInv

LEMMA TakeSteps == ASSUME SysInv, ctl_take PROVE SysInv'
<1> DEFINE q == sys.tx
           x == Head(q)
<1>1. /\ q # <<>> /\ sys' = [sys EXCEPT !.tx = Tail(q)]
      /\ ctl' = CASE x.kind = "opcode" ->
                       [ctl EXCEPT !.at = IF OneByte(x.name) THEN "execute" ELSE "command",
                                   !.name = x.name, !.tag = x.tag]
                  [] x.kind = "rest" /\ ctl.at = "command" -> [ctl EXCEPT !.at = "execute"]
                  [] OTHER -> ctl
      /\ rxBytes' = rxBytes /\ thread' = thread /\ calls' = calls /\ events' = events
      /\ upset' = upset
  BY DEF ctl_take
<1>2. Types /\ sys \in SysRecord /\ q \in Seq(Cells) /\ Len(q) <= TxFifo
      /\ ctl \in [at : {"idle", "command", "execute"}, name : Names \cup {"none"}, tag : Nat,
                  frozen : BOOLEAN, locked : BOOLEAN]
  BY RecordIs DEF SysInv, Types
<1> DEFINE t == Tail(q)
<1>3. t \in Seq(Cells) /\ Len(q) \in Nat \ {0} /\ Len(t) = Len(q) - 1 /\ x = q[1] /\ x \in Cells
  BY <1>1, <1>2, TailIs
<1>4. /\ \A i \in Commands(t) : i + 1 \in Commands(q) /\ t[i] = q[i + 1]
      /\ x.kind = "opcode" /\ x.name # "start_isp" => 1 \in Commands(q)
  BY <1>1, <1>2, <1>3, TailCommands
<1>5. \A i \in Commands(t) : i \in Nat \ {0}
  BY <1>2, <1>3, LenProperties DEF Commands
<1>6. TxFifo \in Nat
  BY ServiceAssumption
<1> HIDE DEF q, x, t
<1>7. /\ sys' = [sys EXCEPT !.tx = t] /\ Commands(q) = InTx /\ q = sys.tx
  BY <1>1 DEF InTx, q, t
<1>8. sys' \in SysRecord /\ sys'.tx = t
  BY ZenonT(60), <1>2, <1>3, <1>7 DEF SysRecord
<1>9. /\ Keeps(sys, sys') /\ sys'.in_progress = sys.in_progress /\ sys'.handler = sys.handler
      /\ sys'.opcode = sys.opcode /\ sys'.size = sys.size /\ sys'.irq = sys.irq
      /\ sys'.gone = sys.gone /\ sys'.state = sys.state /\ sys'.idx = sys.idx
      /\ sys'.resp = sys.resp /\ sys'.length = sys.length
  BY <1>2, <1>7 DEF SysRecord, Keeps
<1>10. ctl' \in [at : {"idle", "command", "execute"}, name : Names \cup {"none"}, tag : Nat,
                 frozen : BOOLEAN, locked : BOOLEAN]
       /\ ctl'.frozen = ctl.frozen /\ ctl'.locked = ctl.locked
  BY <1>1, <1>2, <1>3 DEF Cells
<1>11. Types'
  <2>1. Len(sys'.tx) <= TxFifo
    BY <1>2, <1>3, <1>6, <1>8
  <2> QED BY <1>1, <1>2, <1>8, <1>9, <1>10, <2>1 DEF Types, Reading
<1>12. Now' = Now /\ Unanswered' = Unanswered /\ InRx' = InRx /\ Freezing' = Freezing
  BY <1>1, <1>9 DEF Now, Unanswered, InRx, Freezing
<1>13. PlanLeft' /\ Turn'
  BY <1>1, <1>9, <1>12 DEF SysInv, PlanLeft, Turn, Keeps
<1>14. Sent'
  <2>1. \A i \in InTx' : i \in Nat \ {0} /\ i + 1 \in InTx /\ sys'.tx[i] = sys.tx[i + 1]
    BY <1>4, <1>5, <1>7, <1>8 DEF InTx
  <2>2. /\ \A i, j \in InTx' : i = j
        /\ \A i \in InTx' : sys'.tx[i].name = Now.name /\ sys'.tx[i].tag = calls
        /\ InTx' # {} => InTx # {}
    <3>1. ASSUME NEW i \in InTx', NEW j \in InTx' PROVE i = j
      <4>1. i + 1 = j + 1
        BY <2>1 DEF SysInv, Sent
      <4> QED BY <2>1, <4>1
    <3>2. \A i \in InTx' : sys'.tx[i].name = Now.name /\ sys'.tx[i].tag = calls
      BY <2>1 DEF SysInv, Sent
    <3> QED BY <2>1, <3>1, <3>2
  <2>3. CASE x.kind = "opcode"
    <3>1. ctl'.name = x.name /\ ctl'.tag = x.tag
      BY <1>1, <1>2, <2>3
    <3>2. CASE x.name # "start_isp"
      <4>1. 1 \in InTx /\ q[1] = x
        BY <1>3, <1>4, <1>7, <2>3, <3>2
      <4>2. Unanswered /\ x.name = Now.name /\ x.tag = calls
        BY <1>7, <4>1 DEF SysInv, Sent
      <4>3. ASSUME NEW i \in InTx' PROVE FALSE
        <5>1. i + 1 = 1
          BY <2>1, <4>1 DEF SysInv, Sent
        <5> QED BY <2>1, <5>1
      <4> QED BY <1>1, <1>9, <1>12, <3>1, <4>2, <4>3 DEF SysInv, Sent
    <3>3. CASE x.name = "start_isp"
      BY <1>1, <1>9, <1>12, <2>2, <3>1, <3>3 DEF SysInv, Sent, InCtl
    <3> QED BY <3>2, <3>3
  <2>4. CASE x.kind # "opcode"
    <3>1. InCtl' = InCtl /\ ctl'.name = ctl.name /\ ctl'.tag = ctl.tag
      BY <1>1, <1>2, <2>4 DEF InCtl
    <3> QED BY <1>1, <1>9, <1>12, <2>2, <3>1 DEF SysInv, Sent
  <2> QED BY <2>3, <2>4
<1>15. Result'
  BY <1>1, <1>9, <1>12 DEF SysInv, Result, Ours, DataAt, Keeps
<1>16. Locked'
  BY <1>1, <1>10, <1>12 DEF SysInv, Locked
<1>17. Registers'
  BY <1>1, <1>9, <1>12 DEF SysInv, Registers, Lifted, Design, IspRuns, Keeps, Programs
<1>18. Clocks'
  BY <1>1, <1>9, <1>10, <1>12 DEF SysInv, Clocks, Undoable, Keeps
<1> QED BY <1>11, <1>13, <1>14, <1>15, <1>16, <1>17, <1>18 DEF SysInv

(* The controller appends to the receive FIFO.                             *)
LEMMA JoinElements ==
  ASSUME NEW r \in Seq(RxSet), NEW a \in Seq(RxSet), NEW i \in 1..Len(r \o a)
  PROVE  \/ \E j \in 1..Len(r) : (r \o a)[i] = r[j]
         \/ \E j \in 1..Len(a) : (r \o a)[i] = a[j]
<1> DEFINE m == Len(r)
           n == Len(a)
           t == r \o a
<1>1. /\ m \in Nat /\ n \in Nat /\ Len(t) = m + n
      /\ \A j \in 1..m : t[j] = r[j]
      /\ \A j \in 1..n : t[m + j] = a[j]
  BY JoinIs
<1> HIDE DEF m, n, t
<1>2. i \in 1..m + n
  BY <1>1 DEF t
<1>3. CASE i <= m
  <2>1. i \in 1..m
    BY <1>1, <1>2, <1>3
  <2>2. t[i] = r[i]
    BY <1>1, <2>1
  <2> QED BY <2>1, <2>2 DEF m, t
<1>4. CASE ~(i <= m)
  <2>1. i - m \in 1..n /\ m + (i - m) = i
    BY <1>1, <1>2, <1>4
  <2>2. t[i] = a[i - m]
    BY <1>1, <2>1
  <2> QED BY <2>1, <2>2 DEF n, t
<1> QED BY <1>3, <1>4

(* What is appended holds no reply to the thread: nothing changes for it.  *)
LEMMA AppendSteps ==
  ASSUME SysInv, NEW a \in Seq(RxSet), rxBytes' = rxBytes \o a, Replies(a) = {},
         \A i \in 1..Len(a) : a[i].val = "exit" => a[i].cmd /\ ctl.frozen,
         sys' = sys, thread' = thread, calls' = calls, upset' = upset,
         ctl'.frozen = ctl.frozen, ctl'.locked = ctl.locked,
         ctl'.name = ctl.name, ctl'.tag = ctl.tag, InCtl' => InCtl
  PROVE  /\ rxBytes' \in Seq(RxSet) /\ Sent' /\ Result' /\ Locked' /\ Clocks'
<1>1. rxBytes \in Seq(RxSet) /\ sys \in SysRecord
  BY DEF SysInv, Types
<1>2. rxBytes' \in Seq(RxSet)
  BY <1>1, JoinIs
<1>3. /\ \A i \in Replies(rxBytes) : i \in Replies(rxBytes \o a) /\ (rxBytes \o a)[i] = rxBytes[i]
      /\ \A i \in Replies(rxBytes \o a) :
           i \in Replies(rxBytes)
           \/ \E j \in Replies(a) : i = Len(rxBytes) + j /\ (rxBytes \o a)[i] = a[j]
  BY <1>1, JoinReplies
<1>4. InRx' = InRx /\ \A i \in InRx : rxBytes'[i] = rxBytes[i]
  BY <1>3 DEF InRx
<1>5. Now' = Now /\ Unanswered' = Unanswered /\ InTx' = InTx /\ Freezing' = Freezing
  BY <1>4 DEF Now, Unanswered, InTx, Freezing
<1>6. Sent'
  BY <1>4, <1>5 DEF SysInv, Sent
<1>7. sys.size \in Nat /\ sys.idx \in Nat /\ 0 \in Nat
  BY <1>1, RecordIs
<1>8. ASSUME NEW i \in InRx, DataAt(rxBytes, i, sys.size - 1, calls)
      PROVE  DataAt(rxBytes', i, sys.size - 1, calls)
  <2>1. i \in Nat /\ sys.size - 1 \in Int
    BY <1>7 DEF InRx, Replies
  <2> QED BY <1>1, <1>8, <2>1, JoinData
<1>9. ASSUME DataAt(rxBytes, 0, sys.size - sys.idx, calls)
      PROVE  DataAt(rxBytes', 0, sys.size - sys.idx, calls)
  <2>1. sys.size - sys.idx \in Int
    BY <1>7
  <2> QED BY <1>1, <1>7, <1>9, <2>1, JoinData
<1>10. Result'
  <2>1. ASSUME NEW i \in InRx'
        PROVE  /\ rxBytes'[i].val = sys.opcode /\ rxBytes'[i].tag = calls
               /\ Now.name # "zeroize" /\ DataAt(rxBytes', i, sys.size - 1, calls)
    BY <1>4, <1>8 DEF SysInv, Result
  <2>2. \A n : Ours(n)' <=> Ours(n)
    BY <1>5 DEF Ours
  <2>3. ASSUME thread.at = "wait", sys.sysBusy, sys.state = "RX_RESPONSE"
        PROVE  \/ sys.idx = 1 /\ Len(sys.resp) = 1 /\ sys.resp[1].val = "F1"
               \/ /\ sys.idx \in 1..sys.size - 1 /\ Ours(sys.idx)'
                  /\ DataAt(rxBytes', 0, sys.size - sys.idx, calls)
    BY <1>9, <2>2, <2>3 DEF SysInv, Result
  <2>4. ASSUME thread.at = "wait", ~sys.sysBusy
        PROVE  /\ Now.name # "zeroize"
               /\ "overwritten" \notin upset =>
                    sys.state = "IDLE" /\ sys.length = sys.size /\ Ours(sys.size)'
    BY <2>2, <2>4 DEF SysInv, Result
  <2>5. \A i, n : DataAt(rxBytes', i, n, calls) <=> DataAt(rxBytes, i, n, calls)'
    BY DEF DataAt
  <2>6. \A n : Ours(n)' => /\ Now'.name # "zeroize" /\ Len(sys'.resp) = n
                           /\ sys'.resp[1].val = sys'.opcode
                           /\ \A i \in 1..n : sys'.resp[i].tag = calls'
    BY DEF Ours
  <2> QED BY <1>5, <2>1, <2>2, <2>3, <2>4, <2>5 DEF Result
<1>11. Locked'
  BY <1>5 DEF SysInv, Locked
<1>12. Clocks'
  <2>1. ASSUME NEW i \in 1..Len(rxBytes'), rxBytes'[i].val = "exit"
        PROVE  rxBytes'[i].cmd /\ ctl.frozen
    <3>1. \/ \E j \in 1..Len(rxBytes) : rxBytes'[i] = rxBytes[j]
          \/ \E j \in 1..Len(a) : rxBytes'[i] = a[j]
      BY <1>1, JoinElements
    <3> QED BY <2>1, <3>1 DEF SysInv, Clocks
  <2>2. Undoable' = Undoable
    BY DEF Undoable
  <2> QED BY <1>5, <2>1, <2>2 DEF SysInv, Clocks
<1> QED BY <1>2, <1>6, <1>10, <1>11, <1>12

LEMMA Singles ==
  ASSUME NEW b \in RxSet, NEW c \in RxSet
  PROVE  <<b>> \in Seq(RxSet) /\ <<b, c>> \in Seq(RxSet)
OBVIOUS

LEMMA EventSteps == ASSUME SysInv, ctl_event PROVE SysInv'
<1>1. /\ events' = events + 1 /\ ctl' = ctl /\ sys' = sys /\ thread' = thread /\ calls' = calls
      /\ upset' = upset
      /\ \E a \in {<<Item(TRUE, "tamper", 0)>>, <<Item(TRUE, "F1", 0), Item(FALSE, "data", 0)>>,
                   <<Item(TRUE, "exit", 0)>>} :
           rxBytes' = rxBytes \o a /\ (a = <<Item(TRUE, "exit", 0)>> => ctl.frozen)
  BY DEF ctl_event, Item
<1>2. PICK a \in {<<Item(TRUE, "tamper", 0)>>, <<Item(TRUE, "F1", 0), Item(FALSE, "data", 0)>>,
                  <<Item(TRUE, "exit", 0)>>} :
        rxBytes' = rxBytes \o a /\ (a = <<Item(TRUE, "exit", 0)>> => ctl.frozen)
  BY <1>1
<1>3. /\ Item(TRUE, "tamper", 0) \in RxSet /\ Item(TRUE, "F1", 0) \in RxSet
      /\ Item(FALSE, "data", 0) \in RxSet /\ Item(TRUE, "exit", 0) \in RxSet
  BY DEF Item, RxSet, Events
<1>4. /\ a \in Seq(RxSet)
      /\ \A i \in 1..Len(a) : /\ a[i].cmd => a[i].val \in Events
                              /\ a[i].val = "exit" => a[i].cmd /\ a = <<Item(TRUE, "exit", 0)>>
  <2>1. CASE a = <<Item(TRUE, "tamper", 0)>>
    <3>1. a \in Seq(RxSet)
      BY <1>3, <2>1, Singles
    <3>2. \A i \in 1..Len(a) : a[i].cmd /\ a[i].val = "tamper"
      BY <2>1 DEF Item
    <3> QED BY <3>1, <3>2 DEF Events
  <2>2. CASE a = <<Item(TRUE, "F1", 0), Item(FALSE, "data", 0)>>
    <3>1. a \in Seq(RxSet)
      BY <1>3, <2>2, Singles
    <3>2. \A i \in 1..Len(a) : a[i].val = "F1" \/ (~a[i].cmd /\ a[i].val = "data")
      BY <2>2 DEF Item
    <3> QED BY <3>1, <3>2 DEF Events
  <2>3. CASE a = <<Item(TRUE, "exit", 0)>>
    <3>1. a \in Seq(RxSet)
      BY <1>3, <2>3, Singles
    <3>2. \A i \in 1..Len(a) : a[i].cmd /\ a[i].val = "exit"
      BY <2>3 DEF Item
    <3> QED BY <2>3, <3>1, <3>2 DEF Events
  <2> QED BY <2>1, <2>2, <2>3
<1>5. Replies(a) = {}
  BY <1>4 DEF Replies
<1>6. InCtl' => InCtl
  BY <1>1 DEF InCtl
<1>7. rxBytes' \in Seq(RxSet) /\ Sent' /\ Result' /\ Locked' /\ Clocks'
  BY <1>1, <1>2, <1>4, <1>5, <1>6, AppendSteps
<1>8. Types'
  <2>1. events' \in Nat
    BY <1>1 DEF SysInv, Types
  <2> QED BY <1>1, <1>7, <2>1 DEF SysInv, Types, Reading
<1>9. PlanLeft' /\ Turn' /\ Registers'
  <2>1. Now' = Now
    BY <1>1 DEF Now
  <2>2. PlanLeft'
    BY <1>1 DEF SysInv, PlanLeft
  <2>3. Turn'
    BY <1>1, <2>1 DEF SysInv, Turn
  <2>4. Registers'
    BY <1>1, <2>1 DEF SysInv, Registers, Lifted, Design, IspRuns, Programs
  <2> QED BY <2>2, <2>3, <2>4
<1> QED BY <1>7, <1>8, <1>9 DEF SysInv

(* A response: the opcode of the service, then the data.                   *)
IsResponse(a, op, len, tag) ==
  /\ a \in Seq(RxSet) /\ Len(a) = len /\ a[1] = Item(TRUE, op, tag)
  /\ \A i \in 2..len : ~a[i].cmd /\ a[i].tag = tag /\ a[i].val \in {"F1", "data"}

LEMMA ResponseIs ==
  ASSUME NEW op \in Ops, NEW len \in Nat \ {0, 1}, NEW tag \in Nat, NEW f1 \in 1..len
  PROVE  IsResponse([i \in 1..len |-> Item(i = 1, IF i = 1 THEN op
                                                  ELSE IF i = f1 THEN "F1" ELSE "data", tag)],
                    op, len, tag)
<1> DEFINE b(i) == Item(i = 1, IF i = 1 THEN op ELSE IF i = f1 THEN "F1" ELSE "data", tag)
           a == [i \in 1..len |-> b(i)]
<1>1. \A i \in 1..len : b(i) \in RxSet
  BY DEF Item, RxSet, Events
<1>2. b(1) = Item(TRUE, op, tag)
  OBVIOUS
<1>3. ASSUME NEW i \in 2..len
      PROVE  ~b(i).cmd /\ b(i).tag = tag /\ b(i).val \in {"F1", "data"}
  <2>1. i # 1
    OBVIOUS
  <2>2. b(i) = Item(FALSE, IF i = f1 THEN "F1" ELSE "data", tag)
    BY <2>1
  <2> HIDE DEF b
  <2> QED BY <2>2 DEF Item
<1> HIDE DEF b
<1>4. a \in Seq(RxSet) /\ Len(a) = len /\ \A i \in 1..len : a[i] = b(i)
  BY <1>1
<1> HIDE DEF a
<1>5. a[1] = b(1) /\ \A i \in 2..len : a[i] = b(i)
  BY <1>4
<1>6. IsResponse(a, op, len, tag)
  BY <1>2, <1>3, <1>4, <1>5 DEF IsResponse
<1> QED BY <1>6 DEF a, b

LEMMA AnswerSteps == ASSUME SysInv, ctl_answer PROVE SysInv'
<1> DEFINE n == ctl.name
           s == service[n]
<1>1. /\ ctl.at = "execute" /\ n # "zeroize"
      /\ \E f1 \in 1..s.len :
           rxBytes' = rxBytes \o
             [i \in 1..s.len |-> Item(i = 1, IF i = 1 THEN s.op
                                             ELSE IF i = f1 THEN "F1" ELSE "data", ctl.tag)]
      /\ ctl' = [ctl EXCEPT !.at = "idle",
                   !.frozen = @ \/ n = "flash_freeze",
                   !.locked = CASE n \in PufLocks -> TRUE
                                [] n = "puf_get_number_of_keys" -> FALSE
                                [] OTHER -> @]
      /\ sys' = sys /\ thread' = thread /\ calls' = calls /\ events' = events /\ upset' = upset
  BY DEF ctl_answer
<1>2. Types /\ PlanLeft /\ Turn /\ sys \in SysRecord /\ rxBytes \in Seq(RxSet)
  BY DEF SysInv, Types
<1>3. /\ ctl \in [at : {"idle", "command", "execute"}, name : Names \cup {"none"}, tag : Nat,
                  frozen : BOOLEAN, locked : BOOLEAN]
      /\ calls \in Nat
  BY <1>2 DEF Types
<1>4. n # "start_isp" =>
        /\ InCtl /\ InTx = {} /\ Unanswered /\ InRx = {} /\ n = Now.name /\ ctl.tag = calls
        /\ thread.at = "wait"
  BY <1>1 DEF SysInv, Sent, InCtl, Unanswered
<1>5. n \in Names
  <2>1. CASE n = "start_isp"
    BY <2>1, SomeNames
  <2>2. CASE n # "start_isp"
    BY <1>2, <1>4, <2>2, InHand
  <2> QED BY <2>1, <2>2
<1>6. Fine(n, s) /\ s.op \in Ops /\ s.len \in Nat \ {0, 1}
  BY <1>1, <1>5, ServiceFine DEF Fine, Ops
<1>7. PICK a : IsResponse(a, s.op, s.len, ctl.tag) /\ rxBytes' = rxBytes \o a
  BY <1>1, <1>3, <1>6, ResponseIs
<1>8. /\ ctl' \in [at : {"idle", "command", "execute"}, name : Names \cup {"none"}, tag : Nat,
                   frozen : BOOLEAN, locked : BOOLEAN]
      /\ ctl'.at = "idle" /\ ctl'.name = ctl.name /\ ctl'.tag = ctl.tag
      /\ ctl'.frozen = (ctl.frozen \/ n = "flash_freeze")
  BY <1>1, <1>3
<1>9. /\ n \notin PufLocks /\ n = "puf_get_number_of_keys" => ~ctl'.locked
      /\ n \notin PufLocks \cup {"puf_get_number_of_keys"} => ctl'.locked = ctl.locked
  BY <1>1, <1>3
<1> HIDE DEF n, s
<1>10. /\ a \in Seq(RxSet) /\ Len(a) = s.len /\ a[1] = Item(TRUE, s.op, ctl.tag)
       /\ \A i \in 2..s.len : ~a[i].cmd /\ a[i].tag = ctl.tag /\ a[i].val \in {"F1", "data"}
  BY <1>7 DEF IsResponse
<1>11. \A i \in 1..Len(a) : a[i].val # "exit"
  <2>1. a[1].val # "exit"
    BY <1>6, <1>10 DEF Item, Fine, Events
  <2>2. \A i \in 1..Len(a) : i = 1 \/ i \in 2..s.len
    BY <1>6, <1>10
  <2> QED BY <1>10, <2>1, <2>2
<1>12. rxBytes' \in Seq(RxSet)
  BY <1>2, <1>7, <1>10, JoinIs
<1>13. Types'
  BY <1>1, <1>2, <1>8, <1>12 DEF Types, Reading
<1>14. PlanLeft' /\ Turn' /\ Registers'
  <2>1. Now' = Now
    BY <1>1 DEF Now
  <2>2. PlanLeft'
    BY <1>1 DEF SysInv, PlanLeft
  <2>3. Turn'
    BY <1>1, <2>1 DEF SysInv, Turn
  <2>4. Registers'
    BY <1>1, <2>1 DEF SysInv, Registers, Lifted, Design, IspRuns, Programs
  <2> QED BY <2>2, <2>3, <2>4
<1>15. ~InCtl'
  BY <1>8 DEF InCtl
<1>16. CASE n = "start_isp"
  <2>1. n \notin PufLocks \cup {"puf_get_number_of_keys", "flash_freeze"}
    BY <1>16 DEF PufLocks
  <2>2. Replies(a) = {}
    <3>1. a[1].val = "start_isp"
      BY <1>6, <1>10, <1>16 DEF Item, Fine
    <3>2. \A i \in 1..Len(a) : i = 1 \/ i \in 2..s.len
      BY <1>6, <1>10
    <3> QED BY <1>10, <3>1, <3>2 DEF Replies
  <2>3. ctl'.frozen = ctl.frozen /\ ctl'.locked = ctl.locked
    BY <1>3, <1>8, <1>9, <2>1
  <2>4. Sent' /\ Result' /\ Locked' /\ Clocks'
    <3>1. \A i \in 1..Len(a) : a[i].val = "exit" => a[i].cmd /\ ctl.frozen
      BY <1>11
    <3> QED BY <1>1, <1>7, <1>8, <1>10, <1>15, <2>2, <2>3, <3>1, AppendSteps
  <2> QED BY <1>13, <1>14, <2>4 DEF SysInv
<1>17. CASE n # "start_isp"
  <2>1. /\ InTx = {} /\ Unanswered /\ InRx = {} /\ n = Now.name /\ ctl.tag = calls
        /\ thread.at = "wait" /\ sys.sysBusy /\ sys.state \in {"TX_CMD", "WAIT_RESPONSE"}
        /\ sys.opcode = s.op /\ sys.size = s.len
    BY <1>2, <1>4, <1>17 DEF Unanswered, Turn, s
  <2>2. Now' = Now /\ InTx' = {} /\ Freezing' = Freezing
    BY <1>1, <2>1 DEF Now, InTx, Freezing
  <2>3. /\ Len(rxBytes) \in Nat /\ \A i \in 1..Len(a) : rxBytes'[Len(rxBytes) + i] = a[i]
    BY <1>2, <1>7, <1>10, JoinIs
  <2>4. ASSUME NEW i \in InRx' PROVE i = Len(rxBytes) + 1 /\ rxBytes'[i] = a[1]
    <3>1. \A j \in Replies(rxBytes \o a) :
            j \in Replies(rxBytes)
            \/ \E k \in Replies(a) : j = Len(rxBytes) + k /\ (rxBytes \o a)[j] = a[k]
      BY <1>2, <1>10, JoinReplies
    <3>2. \E k \in Replies(a) : i = Len(rxBytes) + k /\ rxBytes'[i] = a[k]
      BY <1>7, <2>1, <3>1 DEF InRx
    <3>3. \A k \in Replies(a) : k = 1
      <4>1. \A k \in Replies(a) : k \in 1..s.len /\ a[k].cmd
        BY <1>10 DEF Replies
      <4>2. \A k \in 1..s.len : k = 1 \/ k \in 2..s.len
        BY <1>6
      <4> QED BY <1>10, <4>1, <4>2
    <3> QED BY <3>2, <3>3
  <2>5. Sent'
    BY <1>1, <1>15, <2>1, <2>2, <2>4 DEF Sent
  <2>6. DataAt(rxBytes', Len(rxBytes) + 1, s.len - 1, calls)
    <3>1. DataAt(a, 1, s.len - 1, calls)
      <4>1. 1 + (s.len - 1) <= Len(a)
        BY <1>6, <1>10
      <4>2. ASSUME NEW i \in 1..s.len - 1 PROVE ~a[1 + i].cmd /\ a[1 + i].tag = calls
        <5>1. 1 + i \in 2..s.len
          BY <1>6
        <5> QED BY <1>10, <2>1, <5>1
      <4> QED BY <4>1, <4>2 DEF DataAt
    <3>2. 1 \in Nat /\ s.len - 1 \in Int
      BY <1>6
    <3> QED BY <1>2, <1>7, <1>10, <3>1, <3>2, JoinData
  <2>7. Result'
    <3>1. ASSUME NEW i \in InRx'
          PROVE  /\ rxBytes'[i].val = sys.opcode /\ rxBytes'[i].tag = calls
                 /\ Now.name # "zeroize" /\ DataAt(rxBytes', i, sys.size - 1, calls)
      <4>1. i = Len(rxBytes) + 1 /\ rxBytes'[i] = a[1]
        BY <2>4
      <4>2. a[1].val = s.op /\ a[1].tag = calls
        BY <1>10, <2>1 DEF Item
      <4> QED BY <1>1, <2>1, <2>6, <4>1, <4>2 DEF n
    <3>2. \A i, k : DataAt(rxBytes', i, k, calls) => DataAt(rxBytes, i, k, calls)'
      BY <1>1 DEF DataAt
    <3> QED BY <1>1, <2>1, <2>2, <3>1, <3>2 DEF Result
  <2>8. Locked'
    <3>1. CASE n \in PufLocks
      <4>1. Now.name # "puf_get_number_of_keys"
        BY <2>1, <3>1 DEF PufLocks
      <4> QED BY <1>1, <2>1, <2>2, <3>1, <4>1 DEF Locked
    <3>2. CASE n = "puf_get_number_of_keys"
      BY <1>9, <3>2 DEF Locked, PufLocks
    <3>3. CASE n \notin PufLocks \cup {"puf_get_number_of_keys"}
      BY <1>9, <2>1, <3>3 DEF SysInv, Locked
    <3> QED BY <3>1, <3>2, <3>3
  <2>9. Clocks'
    <3>1. ASSUME NEW i \in 1..Len(rxBytes'), rxBytes'[i].val = "exit"
          PROVE  rxBytes'[i].cmd /\ ctl.frozen
      <4>1. \/ \E j \in 1..Len(rxBytes) : rxBytes'[i] = rxBytes[j]
            \/ \E j \in 1..Len(a) : rxBytes'[i] = a[j]
        BY <1>2, <1>7, <1>10, JoinElements
      <4> QED BY <1>11, <3>1, <4>1 DEF SysInv, Clocks
    <3>2. Undoable' = Undoable
      BY <1>1 DEF Undoable
    <3>3. Freezing <=> n = "flash_freeze"
      BY <2>1 DEF Freezing
    <3> QED BY <1>1, <1>8, <2>2, <3>1, <3>2, <3>3 DEF SysInv, Clocks
  <2> QED BY <1>13, <1>14, <2>5, <2>7, <2>8, <2>9 DEF SysInv
<1> QED BY <1>16, <1>17

----------------------------------------------------------------------------
(* The interrupt handler.                                                  *)
LEMMA TailElements ==
  ASSUME NEW r \in Seq(RxSet), r # <<>>, NEW i \in 1..Len(Tail(r))
  PROVE  \E j \in 1..Len(r) : Tail(r)[i] = r[j]
<1> DEFINE t == Tail(r)
<1>1. /\ Len(r) \in Nat \ {0} /\ Len(t) = Len(r) - 1 /\ \A j \in 1..Len(r) - 1 : t[j] = r[j + 1]
  BY TailIs
<1> HIDE DEF t
<1>2. i \in 1..Len(t)
  BY DEF t
<1>3. i \in 1..Len(r) - 1 /\ i + 1 \in 1..Len(r)
  BY <1>1, <1>2
<1>4. t[i] = r[i + 1]
  BY <1>1, <1>3
<1> QED BY <1>3, <1>4 DEF t

LEMMA ClocksStay ==
  ASSUME SysInv, ctl' = ctl, thread' = thread,
         sys'.device = sys.device, sys'.design = sys.design, sys'.divisor = sys.divisor,
         sys'.initial_facc1_cr = sys.initial_facc1_cr,
         NEW exits \in BOOLEAN, exits => ctl.frozen,
         sys'.facc1_cr = IF exits THEN Reverted(sys) ELSE sys.facc1_cr,
         upset \subseteq upset', Unanswered => Unanswered',
         \A i \in 1..Len(rxBytes') : \E j \in 1..Len(rxBytes) : rxBytes'[i] = rxBytes[j]
  PROVE  Clocks'
<1>1. Freezing' = Freezing
  BY DEF Freezing, Now
<1>2. sys.device = "060" => sys'.facc1_cr = sys.facc1_cr
  BY DEF Reverted, revert_clk_config
<1>3. Undoable => Undoable'
  BY <1>2 DEF Undoable
<1>4. \A i \in 1..Len(rxBytes') : rxBytes'[i].val = "exit" => rxBytes'[i].cmd /\ ctl.frozen
  BY DEF SysInv, Clocks
<1> QED BY <1>1, <1>3, <1>4 DEF SysInv, Clocks

LEMMA ExitsFrozen ==
  ASSUME SysInv, rxBytes # <<>>, Exits(Head(rxBytes))
  PROVE  ctl.frozen
<1>1. rxBytes \in Seq(RxSet)
  BY DEF SysInv, Types
<1>2. 1 \in 1..Len(rxBytes) /\ Head(rxBytes) = rxBytes[1]
  BY <1>1, TailIs
<1> QED BY <1>2 DEF SysInv, Clocks, Exits

(* A byte for the thread that waits.                                       *)
LEMMA RequestByte ==
  ASSUME SysInv, ComBlk_IRQHandler, sys.handler = "request"
  PROVE  /\ rxBytes # <<>> /\ rxBytes' = Tail(rxBytes)
         /\ upset \subseteq upset' /\ upset' \subseteq upset \cup {"swallowed", "overwritten"}
         /\ thread' = thread /\ ctl' = ctl /\ calls' = calls /\ events' = events
         /\ sys' \in SysRecord /\ Reading(sys') /\ Same(sys, sys')
         /\ sys'.facc1_cr = IF Exits(Head(rxBytes)) THEN Reverted(sys) ELSE sys.facc1_cr
         /\ \/ Passes(sys, Head(rxBytes), sys') \/ Begins(sys, Head(rxBytes), sys')
            \/ Swallowed(sys, Head(rxBytes), sys') \/ Continues(sys, Head(rxBytes), sys')
            \/ Completes(sys, Head(rxBytes), sys')
<1>1. /\ Types /\ PlanLeft /\ Turn /\ Result /\ sys \in SysRecord /\ Reading(sys)
      /\ rxBytes \in Seq(RxSet)
  BY DEF SysInv, Types
<1>2. /\ thread.at = "wait" /\ sys.sysBusy /\ sys.irq = {"RX"} /\ ~sys.gone
      /\ sys.state \in {"IDLE", "TX_CMD", "WAIT_RESPONSE", "RX_RESPONSE"}
      /\ service[Now.name].via # "paged" /\ sys.opcode = service[Now.name].op
      /\ sys.size = service[Now.name].len
  BY <1>1 DEF Turn
<1> DEFINE b == Head(rxBytes)
<1>3. PICK stray \in BOOLEAN :
        /\ rxBytes # <<>> /\ sys' = handle_rx_okay_irq(sys, b, stray) /\ rxBytes' = Tail(rxBytes)
        /\ upset \subseteq upset' /\ upset' \subseteq upset \cup {"swallowed", "overwritten"}
        /\ thread' = thread /\ ctl' = ctl /\ calls' = calls /\ events' = events
  BY <1>2 DEF ComBlk_IRQHandler
<1>4. b \in RxSet
  BY <1>1, <1>3, TailIs
<1> HIDE DEF b
<1>5. Fine(Now.name, service[Now.name])
  BY <1>1, <1>2, InHand
<1>6. sys.size \in Nat /\ sys.idx \in Nat
  BY <1>1, RecordIs
<1>7. sys.state = "RX_RESPONSE" => sys.idx < sys.size \/ sys.resp[sys.idx].val = "F1"
  BY <1>1, <1>2, <1>6 DEF Result
<1>8. /\ sys' \in SysRecord /\ Reading(sys') /\ Same(sys, sys')
      /\ sys'.facc1_cr = IF Exits(b) THEN Reverted(sys) ELSE sys.facc1_cr
      /\ \/ Passes(sys, b, sys') \/ Begins(sys, b, sys') \/ Swallowed(sys, b, sys')
         \/ Continues(sys, b, sys') \/ Completes(sys, b, sys')
  BY <1>1, <1>2, <1>3, <1>4, <1>7, RxRequest
<1> QED BY <1>3, <1>8 DEF b

LEMMA IrqRequest ==
  ASSUME SysInv, ComBlk_IRQHandler, sys.handler = "request"
  PROVE  SysInv'
<1>1. Types /\ PlanLeft /\ Turn /\ Sent /\ Result /\ sys \in SysRecord /\ Reading(sys)
      /\ rxBytes \in Seq(RxSet)
  BY DEF SysInv, Types
<1>2. /\ thread.at = "wait" /\ sys.sysBusy /\ sys.irq = {"RX"} /\ ~sys.gone
      /\ sys.state \in {"IDLE", "TX_CMD", "WAIT_RESPONSE", "RX_RESPONSE"}
      /\ service[Now.name].via # "paged" /\ sys.opcode = service[Now.name].op
      /\ sys.size = service[Now.name].len
  BY <1>1 DEF Turn
<1> DEFINE b == Head(rxBytes)
           rx == Tail(rxBytes)
<1>3. /\ rxBytes # <<>> /\ rxBytes' = rx
      /\ upset \subseteq upset' /\ upset' \subseteq upset \cup {"swallowed", "overwritten"}
      /\ thread' = thread /\ ctl' = ctl /\ calls' = calls /\ events' = events
  BY RequestByte
<1>4. b \in RxSet /\ rx \in Seq(RxSet) /\ b = rxBytes[1]
  BY <1>1, <1>3, TailIs
<1>5. Now.name \in Names /\ Fine(Now.name, service[Now.name])
  BY <1>1, <1>2, InHand
<1>6. sys.opcode \notin Events \cup {"start_isp"} /\ sys.size \in Nat /\ sys.idx \in Nat
  BY <1>1, <1>2, <1>5, RecordIs DEF Fine
<1>8. /\ sys' \in SysRecord /\ Reading(sys') /\ Same(sys, sys')
      /\ sys'.facc1_cr = IF Exits(b) THEN Reverted(sys) ELSE sys.facc1_cr
      /\ \/ Passes(sys, b, sys') \/ Begins(sys, b, sys') \/ Swallowed(sys, b, sys')
         \/ Continues(sys, b, sys') \/ Completes(sys, b, sys')
  BY RequestByte
<1> HIDE DEF b, rx
<1>9. /\ sys'.tx = sys.tx /\ sys'.opcode = sys.opcode /\ sys'.size = sys.size
      /\ sys'.irq = sys.irq /\ sys'.gone = sys.gone
  BY <1>8 DEF Same
<1>10. Now' = Now /\ InTx' = InTx /\ InCtl' = InCtl
  BY <1>3, <1>9 DEF Now, InTx, InCtl
<1>11. \A i \in InRx' : i \in Nat /\ i + 1 \in InRx /\ rxBytes'[i] = rxBytes[i + 1]
  BY <1>1, <1>3, TailReplies DEF InRx, rx
<1>12. b.cmd /\ b.val = sys.opcode => 1 \in InRx
  BY <1>1, <1>3, <1>6, HeadReplies DEF InRx, b
<1>13. ASSUME 1 \notin InRx, sys.state \in {"TX_CMD", "WAIT_RESPONSE"}
       PROVE  Passes(sys, b, sys')
  BY <1>8, <1>12, <1>13 DEF Begins, Swallowed, Continues, Completes, Longer
<1>14. Types'
  <2>1. Len(sys'.tx) <= TxFifo
    BY <1>1, <1>9 DEF Types
  <2> QED BY <1>1, <1>3, <1>4, <1>8, <2>1 DEF Types
<1>15. PlanLeft'
  BY <1>1, <1>3 DEF PlanLeft
<1>16. Turn'
  <2>1. /\ sys'.in_progress <=> sys'.handler # "none"
        /\ sys'.handler # "isp" /\ (sys'.sysBusy <=> sys'.handler = "request")
        /\ sys'.state \in {"IDLE", "TX_CMD", "WAIT_RESPONSE", "RX_RESPONSE"}
        /\ sys'.state \in {"TX_CMD", "WAIT_RESPONSE"} => sys'.sysBusy
    BY <1>1, <1>2, <1>8
       DEF Turn, Passes, Begins, Swallowed, Continues, Completes, Longer, Pends
  <2> QED BY <1>2, <1>3, <1>9, <1>10, <2>1 DEF Turn
<1>17. Unanswered => Unanswered'
  <2>1. SUFFICES ASSUME Unanswered PROVE Unanswered'
    OBVIOUS
  <2>2. InRx = {} /\ sys.state \in {"TX_CMD", "WAIT_RESPONSE"}
    BY <2>1 DEF Unanswered
  <2>3. Passes(sys, b, sys')
    BY <1>13, <2>2
  <2>4. InRx' = {}
    BY <1>11, <2>2
  <2> QED BY <1>2, <1>3, <2>2, <2>3, <2>4 DEF Unanswered, Passes
<1>18. Sent'
  <2>1. ASSUME NEW i \in InRx'
        PROVE  1 \notin InRx /\ sys.state \in {"TX_CMD", "WAIT_RESPONSE"}
    <3>1. i + 1 \in InRx /\ i \in 1..Len(rxBytes')
      BY <1>11 DEF InRx, Replies
    <3>2. i + 1 # 1
      BY <1>11, <3>1
    <3> QED BY <1>1, <3>1, <3>2 DEF Sent
  <2>2. InRx' # {} => sys'.state \in {"TX_CMD", "WAIT_RESPONSE"}
    BY <1>13, <2>1 DEF Passes
  <2>3. ASSUME NEW i \in InRx', NEW j \in InRx' PROVE i = j
    <3>1. i + 1 = j + 1
      BY <1>1, <1>11 DEF Sent
    <3> QED BY <1>11, <3>1
  <2> QED BY <1>1, <1>2, <1>3, <1>9, <1>10, <1>17, <2>2, <2>3 DEF Sent
<1>19. ASSUME NEW i \in InRx'
       PROVE  /\ rxBytes'[i].val = sys.opcode /\ rxBytes'[i].tag = calls
              /\ Now.name # "zeroize" /\ DataAt(rxBytes', i, sys.size - 1, calls)
  <2>1. DataAt(rxBytes, i + 1, sys.size - 1, calls)
    BY <1>1, <1>11 DEF Result
  <2>2. i \in Nat /\ sys.size - 1 \in Int
    BY <1>6, <1>11
  <2>3. DataAt(rxBytes', i, sys.size - 1, calls)
    BY <1>1, <1>3, <2>1, <2>2, TailData DEF rx
  <2> QED BY <1>1, <1>11, <2>3 DEF Result
<1>20. ASSUME sys.state = "RX_RESPONSE", ~(sys.idx = 1 /\ Len(sys.resp) = 1 /\ sys.resp[1].val = "F1")
       PROVE  /\ sys.idx \in 1..sys.size - 1 /\ Ours(sys.idx)
              /\ ~b.cmd /\ b.tag = calls
              /\ DataAt(rxBytes', 0, (sys.size - sys.idx) - 1, calls)
  <2>1. sys.idx \in 1..sys.size - 1 /\ Ours(sys.idx) /\ DataAt(rxBytes, 0, sys.size - sys.idx, calls)
    BY <1>1, <1>2, <1>20 DEF Result
  <2>2. sys.size - sys.idx \in Nat \ {0}
    BY <1>6, <2>1
  <2> QED BY <1>1, <1>3, <2>1, <2>2, FirstData DEF b, rx
<1>21. ASSUME Longer(sys, b, sys')
       PROVE  /\ sys.idx \in 1..sys.size - 1 /\ Now.name # "zeroize"
              /\ DataAt(rxBytes', 0, sys.size - (sys.idx + 1), calls)
              /\ Len(sys'.resp) = sys.idx + 1 /\ sys'.resp[1].val = sys.opcode
              /\ \A i \in 1..sys.idx + 1 : sys'.resp[i].tag = calls
  <2>1. /\ sys.idx \in 1..sys.size - 1 /\ Ours(sys.idx) /\ b.tag = calls
        /\ DataAt(rxBytes', 0, (sys.size - sys.idx) - 1, calls)
    BY <1>20, <1>21 DEF Longer
  <2>2. (sys.size - sys.idx) - 1 = sys.size - (sys.idx + 1)
    BY <1>6
  <2>3. /\ Len(sys'.resp) = sys.idx + 1 /\ sys'.resp[sys.idx + 1] = b
        /\ \A j \in 1..sys.idx : sys'.resp[j] = sys.resp[j]
    BY <1>21 DEF Longer
  <2>4. sys'.resp[1].val = sys.opcode
    BY <2>1, <2>3 DEF Ours
  <2>5. ASSUME NEW i \in 1..sys.idx + 1 PROVE sys'.resp[i].tag = calls
    <3>1. i = sys.idx + 1 \/ i \in 1..sys.idx
      BY <1>6
    <3> QED BY <2>1, <2>3, <3>1 DEF Ours
  <2> QED BY <2>1, <2>2, <2>3, <2>4, <2>5 DEF Ours
<1>22. ASSUME sys'.sysBusy, sys'.state = "RX_RESPONSE"
       PROVE  \/ sys'.idx = 1 /\ Len(sys'.resp) = 1 /\ sys'.resp[1].val = "F1"
              \/ /\ sys'.idx \in 1..sys.size - 1 /\ Now.name # "zeroize"
                 /\ Len(sys'.resp) = sys'.idx /\ sys'.resp[1].val = sys.opcode
                 /\ \A i \in 1..sys'.idx : sys'.resp[i].tag = calls
                 /\ DataAt(rxBytes', 0, sys.size - sys'.idx, calls)
  <2>1. CASE Passes(sys, b, sys')
    <3>1. sys.state = "RX_RESPONSE" /\ b.cmd /\ sys'.idx = sys.idx /\ sys'.resp = sys.resp
      BY <1>22, <2>1 DEF Passes
    <3> QED BY <1>20, <3>1
  <2>2. CASE Begins(sys, b, sys')
    <3>1. sys'.idx = 1 /\ Len(sys'.resp) = 1 /\ sys'.resp[1] = b
      BY <2>2 DEF Begins
    <3>2. CASE b.val = "F1"
      BY <3>1, <3>2
    <3>3. CASE b.val # "F1"
      <4>1. b.cmd /\ b.val = sys.opcode /\ 1 \in InRx
        BY <1>12, <2>2, <3>3 DEF Begins
      <4>2. b.tag = calls /\ Now.name # "zeroize" /\ DataAt(rxBytes, 1, sys.size - 1, calls)
        BY <1>1, <1>4, <4>1 DEF Result
      <4>3. sys.size \in Nat \ {0, 1}
        BY <1>2, <1>5, <4>2 DEF Fine
      <4>4. sys.size - 1 \in Int /\ 1 \in 1..sys.size - 1
        BY <4>3
      <4>5. DataAt(rxBytes', 0, sys.size - 1, calls)
        BY <1>1, <1>3, <4>2, <4>4, NextData DEF rx
      <4> QED BY <3>1, <4>1, <4>2, <4>4, <4>5
    <3> QED BY <3>2, <3>3
  <2>3. CASE Continues(sys, b, sys')
    <3>1. Longer(sys, b, sys') /\ sys'.idx = sys.idx + 1 /\ sys.idx + 1 # sys.size
      BY <2>3 DEF Continues, Longer
    <3>2. /\ sys.idx \in 1..sys.size - 1 /\ Now.name # "zeroize"
          /\ DataAt(rxBytes', 0, sys.size - (sys.idx + 1), calls)
          /\ Len(sys'.resp) = sys.idx + 1 /\ sys'.resp[1].val = sys.opcode
          /\ \A i \in 1..sys.idx + 1 : sys'.resp[i].tag = calls
      BY <1>21, <3>1
    <3>3. sys.idx + 1 \in 1..sys.size - 1
      BY <1>6, <3>1, <3>2
    <3> QED BY <3>1, <3>2, <3>3
  <2> QED BY <1>8, <1>22, <2>1, <2>2, <2>3 DEF Swallowed, Completes
<1>23. ASSUME ~sys'.sysBusy
       PROVE  /\ Now.name # "zeroize" /\ sys'.state = "IDLE" /\ sys'.length = sys.size
              /\ Len(sys'.resp) = sys.size /\ sys'.resp[1].val = sys.opcode
              /\ \A i \in 1..sys.size : sys'.resp[i].tag = calls
  <2>1. Completes(sys, b, sys')
    BY <1>2, <1>8, <1>23 DEF Passes, Begins, Swallowed, Continues, Pends
  <2>2. Longer(sys, b, sys') /\ sys.idx + 1 = sys.size
    BY <2>1 DEF Completes
  <2> QED BY <1>21, <2>1, <2>2 DEF Completes
<1>24. Result'
  <2>1. /\ \A i, n : DataAt(rxBytes', i, n, calls) => DataAt(rxBytes, i, n, calls)'
        /\ DataAt(rxBytes', 0, sys'.size - sys'.idx, calls)
             => DataAt(rxBytes, 0, sys.size - sys.idx, calls)'
    BY <1>3 DEF DataAt
  <2>2. /\ (sys'.sysBusy /\ sys'.state = "RX_RESPONSE" =>
              \/ sys'.idx = 1 /\ Len(sys'.resp) = 1 /\ sys'.resp[1].val = "F1"
              \/ /\ sys'.idx \in 1..sys'.size - 1 /\ Ours(sys.idx)'
                 /\ DataAt(rxBytes, 0, sys.size - sys.idx, calls)')
        /\ (~sys'.sysBusy =>
              Now.name # "zeroize" /\ sys'.state = "IDLE" /\ sys'.length = sys'.size
              /\ Ours(sys.size)')
    BY <1>3, <1>9, <1>10, <1>22, <1>23, <2>1 DEF Ours
  <2>3. \A i \in InRx' : DataAt(rxBytes, i, sys.size - 1, calls)'
    BY <1>3, <1>9, <1>19 DEF DataAt
  <2> QED BY <1>3, <1>9, <1>10, <1>19, <2>2, <2>3 DEF Result
<1>25. Locked'
  BY <1>3, <1>10, <1>17 DEF SysInv, Locked
<1>26. Registers'
  <2>1. Lifted' = Lifted /\ Design' = Design /\ (Programs(Now))' = Programs(Now)
    BY <1>8, <1>10 DEF Same, Lifted, Design, Programs
  <2>2. upset' \cap {"divisor", "overlap", "forgotten"} = {}
          => upset \cap {"divisor", "overlap", "forgotten"} = {}
    BY <1>3
  <2> QED BY <1>2, <1>3, <2>1, <2>2 DEF SysInv, Registers
<1>27. Clocks'
  <2>1. Exits(b) => ctl.frozen
    BY <1>3, ExitsFrozen DEF b
  <2>2. \A i \in 1..Len(rxBytes') : \E j \in 1..Len(rxBytes) : rxBytes'[i] = rxBytes[j]
    BY <1>1, <1>3, TailElements DEF rx
  <2>3. Exits(b) \in BOOLEAN
    BY <1>4 DEF Exits, RxSet
  <2>4. sys'.device = sys.device /\ sys'.design = sys.design /\ sys'.divisor = sys.divisor
        /\ sys'.initial_facc1_cr = sys.initial_facc1_cr
    BY <1>8 DEF Same
  <2> QED BY <1>3, <1>8, <1>17, <2>1, <2>2, <2>3, <2>4, ClocksStay
<1> QED BY <1>14, <1>15, <1>16, <1>18, <1>24, <1>25, <1>26, <1>27 DEF SysInv

(* With no request in hand: what the two handlers do together.             *)
LEMMA IrqEffect ==
  ASSUME SysInv, ComBlk_IRQHandler, sys.handler # "request"
  PROVE  /\ sys' \in SysRecord /\ Reading(sys') /\ Impact(sys, sys')
         /\ thread' = thread /\ ctl' = ctl /\ calls' = calls /\ events' = events
         /\ upset \subseteq upset' /\ upset' \subseteq upset \cup {"swallowed", "overwritten"}
         /\ \/ rxBytes' = rxBytes /\ sys'.facc1_cr = sys.facc1_cr
            \/ /\ rxBytes # <<>> /\ rxBytes' = Tail(rxBytes)
               /\ sys'.facc1_cr = IF Exits(Head(rxBytes)) THEN Reverted(sys) ELSE sys.facc1_cr
<1> DEFINE b == Head(rxBytes)
<1>1. /\ sys \in SysRecord /\ Reading(sys) /\ rxBytes \in Seq(RxSet) /\ Len(sys.tx) <= TxFifo
      /\ sys.in_progress <=> sys.handler # "none"
  BY DEF SysInv, Types, Turn
<1> DEFINE received(stray) == handle_rx_okay_irq(sys, b, stray)
<1>2. PICK more \in BOOLEAN, stray \in BOOLEAN, rcv_okay \in BOOLEAN, tx_okay \in BOOLEAN :
        /\ rcv_okay => rxBytes # <<>>
        /\ sys' = IF tx_okay
                  THEN handle_tx_okay_irq(IF rcv_okay THEN received(stray) ELSE sys, more)
                  ELSE IF rcv_okay THEN received(stray) ELSE sys
        /\ rxBytes' = IF rcv_okay THEN Tail(rxBytes) ELSE rxBytes
        /\ upset \subseteq upset' /\ upset' \subseteq upset \cup {"swallowed", "overwritten"}
        /\ thread' = thread /\ ctl' = ctl /\ calls' = calls /\ events' = events
  BY ZenonT(60) DEF ComBlk_IRQHandler
<1> DEFINE d == IF rcv_okay THEN received(stray) ELSE sys
<1>2a. sys' = IF tx_okay THEN handle_tx_okay_irq(d, more) ELSE d
  BY <1>2
<1>3. /\ d \in SysRecord /\ Reading(d) /\ Impact(sys, d)
      /\ d.facc1_cr = IF rcv_okay /\ Exits(b) THEN Reverted(sys) ELSE sys.facc1_cr
  <2>1. CASE rcv_okay
    <3>1. b \in RxSet
      BY <1>1, <1>2, <2>1, TailIs
    <3> HIDE DEF b
    <3>2. /\ received(stray) \in SysRecord /\ Reading(received(stray))
          /\ Impact(sys, received(stray))
          /\ received(stray).facc1_cr = IF Exits(b) THEN Reverted(sys) ELSE sys.facc1_cr
      BY <1>1, <3>1, RxElsewhere
    <3> HIDE DEF received
    <3> QED BY <2>1, <3>2
  <2>2. CASE ~rcv_okay
    BY <1>1, <2>2, EffectIdle
  <2> QED BY <2>1, <2>2
<1> HIDE DEF d
<1>4. /\ d.handler # "request" /\ (d.in_progress <=> d.handler # "none")
      /\ Len(d.tx) <= TxFifo
  BY <1>1, <1>3 DEF Impact, Ends, Runs
<1>5. sys' \in SysRecord /\ Reading(sys') /\ Impact(d, sys') /\ sys'.facc1_cr = d.facc1_cr
  <2>1. CASE tx_okay
    BY <1>2a, <1>3, <1>4, <2>1, TxElsewhere
  <2>2. CASE ~tx_okay
    BY <1>2a, <1>3, <2>2, EffectIdle
  <2> QED BY <2>1, <2>2
<1>6. Impact(sys, sys')
  BY <1>3, <1>5, EffectJoins
<1> QED BY <1>2, <1>3, <1>5, <1>6

LEMMA IrqClocks ==
  ASSUME SysInv, ComBlk_IRQHandler, sys.handler # "request", ~Unanswered
  PROVE  Clocks'
<1>1. /\ sys' \in SysRecord /\ Impact(sys, sys')
      /\ thread' = thread /\ ctl' = ctl /\ upset \subseteq upset'
      /\ \/ rxBytes' = rxBytes /\ sys'.facc1_cr = sys.facc1_cr
         \/ /\ rxBytes # <<>> /\ rxBytes' = Tail(rxBytes)
            /\ sys'.facc1_cr = IF Exits(Head(rxBytes)) THEN Reverted(sys) ELSE sys.facc1_cr
  BY IrqEffect
<1>2. /\ sys'.device = sys.device /\ sys'.design = sys.design /\ sys'.divisor = sys.divisor
      /\ sys'.initial_facc1_cr = sys.initial_facc1_cr
  BY <1>1 DEF Impact, Steady
<1>3. rxBytes \in Seq(RxSet)
  BY DEF SysInv, Types
<1>4. CASE rxBytes' = rxBytes /\ sys'.facc1_cr = sys.facc1_cr
  <2>1. \A i \in 1..Len(rxBytes') : \E j \in 1..Len(rxBytes) : rxBytes'[i] = rxBytes[j]
    BY <1>4
  <2>2. /\ FALSE \in BOOLEAN /\ (FALSE => ctl.frozen)
        /\ sys'.facc1_cr = IF FALSE THEN Reverted(sys) ELSE sys.facc1_cr
    BY <1>4
  <2> QED BY <1>1, <1>2, <2>1, <2>2, ClocksStay
<1>5. CASE /\ rxBytes # <<>> /\ rxBytes' = Tail(rxBytes)
           /\ sys'.facc1_cr = IF Exits(Head(rxBytes)) THEN Reverted(sys) ELSE sys.facc1_cr
  <2> DEFINE x == Exits(Head(rxBytes))
  <2>1. \A i \in 1..Len(rxBytes') : \E j \in 1..Len(rxBytes) : rxBytes'[i] = rxBytes[j]
    BY <1>3, <1>5, TailElements
  <2>2. x => ctl.frozen
    BY <1>5, ExitsFrozen
  <2>3. x \in BOOLEAN
    BY <1>3, <1>5, TailIs DEF Exits, RxSet
  <2>4. sys'.facc1_cr = IF x THEN Reverted(sys) ELSE sys.facc1_cr
    BY <1>5
  <2> HIDE DEF x
  <2> QED BY <1>1, <1>2, <2>1, <2>2, <2>3, <2>4, ClocksStay
<1> QED BY <1>1, <1>4, <1>5

LEMMA IrqReturned ==
  ASSUME SysInv, ComBlk_IRQHandler, thread.at = "wait", ~sys.sysBusy
  PROVE  SysInv'
<1>1. Types /\ PlanLeft /\ Turn /\ Sent /\ Result /\ sys \in SysRecord /\ Reading(sys)
      /\ rxBytes \in Seq(RxSet)
  BY DEF SysInv, Types
<1>2. /\ sys.handler = "none" /\ sys.irq = {"RX"} /\ sys.state \in {"IDLE", "RX_RESPONSE"}
  BY <1>1 DEF Turn, SysRecord
<1> DEFINE b == Head(rxBytes)
           e == sys'
<1>3. PICK stray \in BOOLEAN :
        /\ rxBytes # <<>> /\ e = handle_rx_okay_irq(sys, b, stray) /\ rxBytes' = Tail(rxBytes)
        /\ sys.state = "IDLE" /\ e.state = "RX_RESPONSE" => "overwritten" \in upset'
  BY <1>2 DEF ComBlk_IRQHandler
<1>4. /\ e \in SysRecord /\ Reading(e) /\ Impact(sys, e)
      /\ thread' = thread /\ ctl' = ctl /\ calls' = calls /\ events' = events
      /\ upset \subseteq upset' /\ upset' \subseteq upset \cup {"swallowed", "overwritten"}
  BY <1>2, IrqEffect
<1>5. b \in RxSet
  BY <1>1, <1>3, TailIs
<1> HIDE DEF b, e
<1>6. /\ e.tx = sys.tx /\ e.irq = sys.irq /\ e.state \in {"IDLE", "RX_RESPONSE"}
      /\ sys.state = "IDLE" => e.state = "RX_RESPONSE" \/ e.resp = sys.resp
  BY <1>1, <1>2, <1>3, <1>5, RxElsewhere DEF Turn
<1>7. Steady(sys, e) /\ Runs(sys, e)
  BY <1>2, <1>4 DEF Impact, Ends
<1> DEFINE same == e.sysBusy = sys.sysBusy /\ e.handler = sys.handler /\ e.opcode = sys.opcode
<1>8. /\ same /\ e.in_progress = sys.in_progress /\ e.size = sys.size /\ e.gone = sys.gone
      /\ e.length = sys.length
  BY <1>7 DEF Steady, Runs
<1>9. Now' = Now /\ InTx = {} /\ ~InCtl /\ InRx = {} /\ ~Unanswered
  BY <1>1, <1>2, <1>4 DEF Now, Sent, Unanswered
<1>10. InTx' = {} /\ ~InCtl' /\ InRx' = {}
  <2>1. \A i \in Replies(Tail(rxBytes)) : i + 1 \in Replies(rxBytes)
    BY <1>1, <1>3, TailReplies
  <2> QED BY <1>3, <1>4, <1>6, <1>9, <2>1 DEF InTx, InCtl, InRx, e
<1>11. Types'
  <2>1. Tail(rxBytes) \in Seq(RxSet)
    BY <1>1, <1>3, TailIs
  <2> QED BY <1>1, <1>3, <1>4, <1>6, <2>1 DEF Types, e
<1>12. PlanLeft'
  BY <1>1, <1>4 DEF PlanLeft
<1>13. Turn'
  BY <1>1, <1>4, <1>6, <1>8, <1>9 DEF Turn, e
<1>14. Sent'
  BY <1>10 DEF Sent
<1>15. Result'
  <2>1. Now.name # "zeroize" /\ ~e.sysBusy
    BY <1>1, <1>8 DEF Result
  <2>2. ASSUME "overwritten" \notin upset'
        PROVE  e.state = "IDLE" /\ e.length = e.size /\ Ours(sys.size)'
    <3>1. sys.state = "IDLE" /\ sys.length = sys.size /\ Ours(sys.size)
      BY <1>1, <1>4, <2>2 DEF Result
    <3>2. e.state = "IDLE" /\ e.resp = sys.resp
      BY <1>3, <1>6, <2>2, <3>1
    <3> QED BY <1>4, <1>8, <1>9, <3>1, <3>2 DEF Ours, e
  <2> QED BY <1>9, <1>10, <2>1, <2>2 DEF Result, e
<1>16. Locked'
  BY <1>4, <1>9 DEF SysInv, Locked
<1>17. Registers'
  <2>1. Lifted' = Lifted /\ Design' = Design /\ (Programs(Now))' = Programs(Now)
    BY <1>7, <1>9 DEF Steady, Runs, Lifted, Design, Programs, e
  <2>2. upset' \cap {"divisor", "overlap", "forgotten"} = {}
          => upset \cap {"divisor", "overlap", "forgotten"} = {}
    BY <1>4
  <2> QED BY <1>4, <2>1, <2>2 DEF SysInv, Registers
<1>18. Clocks'
  BY <1>2, <1>9, IrqClocks
<1> QED BY <1>11, <1>12, <1>13, <1>14, <1>15, <1>16, <1>17, <1>18 DEF SysInv

LEMMA IrqElsewhere ==
  ASSUME SysInv, ComBlk_IRQHandler, thread.at # "wait"
  PROVE  SysInv'
<1>1. Types /\ PlanLeft /\ Turn /\ sys \in SysRecord /\ rxBytes \in Seq(RxSet)
  BY DEF SysInv, Types
<1>2. sys.handler \in {"none", "isp"}
  BY <1>1 DEF Turn, SysRecord
<1>3. InTx = {} /\ ~InCtl /\ InRx = {}
  BY IdleMeans
<1> DEFINE e == sys'
<1>4. /\ e \in SysRecord /\ Reading(e) /\ Impact(sys, e)
      /\ thread' = thread /\ ctl' = ctl /\ calls' = calls /\ events' = events
      /\ upset \subseteq upset' /\ upset' \subseteq upset \cup {"swallowed", "overwritten"}
      /\ \/ rxBytes' = rxBytes
         \/ rxBytes # <<>> /\ rxBytes' = Tail(rxBytes)
  BY <1>2, IrqEffect
<1> HIDE DEF e
<1>5. /\ Steady(sys, e) /\ (Ends(sys, e) \/ Runs(sys, e)) /\ NoCommand(sys, e)
      /\ Len(e.tx) <= TxFifo
  BY <1>1, <1>4 DEF Impact, Types
<1>6. rxBytes' \in Seq(RxSet) /\ InRx' = {}
  <2>1. CASE rxBytes' = rxBytes
    BY <1>1, <1>3, <2>1 DEF InRx
  <2>2. CASE rxBytes # <<>> /\ rxBytes' = Tail(rxBytes)
    <3>1. /\ Tail(rxBytes) \in Seq(RxSet)
          /\ \A i \in Replies(Tail(rxBytes)) : i + 1 \in Replies(rxBytes)
      BY <1>1, <2>2, TailIs, TailReplies
    <3> QED BY <1>3, <2>2, <3>1 DEF InRx
  <2> QED BY <1>4, <2>1, <2>2
<1>7. InTx' = {} /\ ~InCtl'
  <2>1. Commands(e.tx) = {}
    BY <1>3, <1>5 DEF NoCommand, Commands, InTx
  <2> QED BY <1>3, <1>4, <2>1 DEF InTx, InCtl, e
<1>8. Types'
  BY <1>1, <1>4, <1>5, <1>6 DEF Types, e
<1>9. PlanLeft'
  BY <1>1, <1>4 DEF PlanLeft
<1>10. Turn'
  BY <1>1, <1>4, <1>5 DEF Turn, Steady, Ends, Runs, e
<1>11. Sent' /\ Result'
  BY <1>4, <1>6, <1>7 DEF Sent, Result
<1>12. Locked'
  BY <1>4 DEF SysInv, Locked, Now
<1>13. Registers'
  <2>1. Now' = Now /\ (Programs(Now))' = Programs(Now) /\ e.g_mode = sys.g_mode
        /\ e.sysBusy = sys.sysBusy
    BY <1>4, <1>5 DEF Now, Programs, Steady
  <2>2. upset' \cap {"divisor", "overlap", "forgotten"} = {}
          => upset \cap {"divisor", "overlap", "forgotten"} = {}
    BY <1>4
  <2>3. CASE Runs(sys, e)
    <3>1. Lifted' = Lifted /\ Design' = Design /\ IspRuns' = IspRuns
      BY <1>5, <2>3 DEF Steady, Runs, Lifted, Design, IspRuns, e
    <3> QED BY <1>4, <2>1, <2>2, <3>1 DEF SysInv, Registers, e
  <2>4. CASE Ends(sys, e)
    <3>1. IspRuns /\ sys.sysBusy /\ ~IspRuns'
      BY <1>1, <2>4 DEF IspRuns, Ends, Turn, e
    <3>2. (IF sys.g_mode # "authenticate" THEN Lifted ELSE Design) => Design'
      BY <2>4 DEF Ends, Lifted, Design, e
    <3> QED BY <1>4, <2>1, <2>2, <3>1, <3>2 DEF SysInv, Registers, e
  <2> QED BY <1>5, <2>3, <2>4
<1>14. Clocks'
  BY <1>2, IrqClocks DEF Unanswered
<1> QED BY <1>8, <1>9, <1>10, <1>11, <1>12, <1>13, <1>14 DEF SysInv

----------------------------------------------------------------------------
(* The invariant, and what it gives.                                       *)

LEMMA Invariant == ASSUME SysInv, [SysNext]_sysVars PROVE SysInv'
<1>1. ASSUME ComBlk_IRQHandler PROVE SysInv'
  <2>1. CASE sys.handler = "request"
    BY <1>1, <2>1, IrqRequest
  <2>2. CASE thread.at = "wait" /\ ~sys.sysBusy
    BY <1>1, <2>2, IrqReturned
  <2>3. CASE thread.at # "wait"
    BY <1>1, <2>3, IrqElsewhere
  <2> QED BY <2>1, <2>2, <2>3 DEF SysInv, Turn
<1>2. ASSUME SysNext PROVE SysInv'
  BY <1>1, <1>2, CallSteps, PrepareSteps, StartSteps, FinishSteps, InitSteps, TakeSteps,
     AnswerSteps, EventSteps DEF SysNext, Thread, Controller
<1> QED BY <1>2, Stutters

LEMMA AlwaysSysInv == SysSpec => []SysInv
<1>1. SysInit => SysInv
  BY Initially
<1>2. SysInv /\ [SysNext]_sysVars => SysInv'
  BY Invariant
<1> QED BY <1>1, <1>2, PTL DEF SysSpec

(* The drivers' globals keep the values their functions give them, and a   *)
(* thread that waits has a completion handler that will wake it (SysTypeOK *)
(* of mss_comblk.c and mss_sys_services.c).                                *)
THEOREM SysTypeAlways == SysSpec => []SysTypeOK
<1>1. ASSUME SysInv PROVE SysTypeOK
  <2>1. sys \in SysRecord /\ Len(sys.tx) <= TxFifo /\ Types /\ Turn
    BY <1>1 DEF SysInv, Types
  <2>2. /\ sys.device \in Devices /\ sys.facc1_cr \in Facc1 /\ sys.initial_facc1_cr \in Facc1
        /\ {sys.envm_cr, sys.initial_envm_cr} \subseteq {"design", "max", "default"}
        /\ sys.state \in {"IDLE", "TX_CMD", "TX_PAGED_DATA", "WAIT_RESPONSE", "RX_RESPONSE"}
        /\ sys.handler \in {"none", "request", "isp"} /\ sys.irq \subseteq {"RX", "TX"}
    BY <2>1 DEF SysRecord, EnvmSettings
  <2>3. /\ thread.at \in {"free", "prepare", "start", "wait"}
        /\ thread.at = "wait" /\ sys.sysBusy => sys.handler = "request"
        /\ sys.in_progress <=> sys.handler # "none"
    BY <2>1 DEF Types, Turn
  <2> QED BY <2>1, <2>2, <2>3 DEF SysTypeOK
<1>2. SysInv => SysTypeOK
  BY <1>1
<1> QED BY <1>2, AlwaysSysInv, PTL

(* A service leaves neither the turn, nor the eNVM timing and the clock    *)
(* selection it raised, nor a locked eNVM behind when it returns.          *)
THEOREM NothingIsLeftBehind == SysSpec => []LeavesNothingBehind
<1>1. ASSUME SysInv PROVE LeavesNothingBehind
  <2>1. OnlyIspKeepsBusy
    BY <1>1 DEF SysInv, Turn, OnlyIspKeepsBusy
  <2>2. RegistersRestored
    BY <1>1 DEF SysInv, Registers, RegistersRestored, Design
  <2>3. EnvmReleased
    BY <1>1 DEF SysInv, Locked, EnvmReleased
  <2> QED BY <2>1, <2>2, <2>3 DEF LeavesNothingBehind
<1>2. SysInv => LeavesNothingBehind
  BY <1>1
<1> QED BY <1>2, AlwaysSysInv, PTL

(* A service returns with the controller's response to that very call,     *)
(* whole and with the status it expects.                                   *)
THEOREM AnswersAreOurs == SysSpec => AnswerIsOurs
<1>1. ASSUME SysInv, finish, "overwritten" \notin upset
      PROVE  /\ Answered(Head(thread.todo))
             /\ \A i \in 1..sys.length : sys.resp[i].tag = calls
  <2>1. Types /\ PlanLeft /\ Turn /\ Result /\ thread.at = "wait" /\ ~sys.sysBusy
    BY <1>1 DEF SysInv, finish
  <2>2. Head(thread.todo) = Now /\ Fine(Now.name, service[Now.name])
    BY <2>1, InHand
  <2>3. /\ sys.opcode = service[Now.name].op /\ sys.size = service[Now.name].len
        /\ Now.name # "zeroize" /\ sys.length = sys.size /\ Ours(sys.size)
    BY <1>1, <2>1 DEF Turn, Result
  <2>4. sys.length \in {2, 3, 6}
    BY <2>2, <2>3 DEF Fine
  <2>5. sys.length = service[Now.name].len /\ sys.length >= 2
        /\ sys.resp[1].val = service[Now.name].op
    BY <2>3, <2>4 DEF Ours
  <2>6. \A i \in 1..sys.length : sys.resp[i].tag = calls
    BY <2>3 DEF Ours
  <2> QED BY <2>2, <2>5, <2>6 DEF Answered
<1>2. SysInv => [finish /\ "overwritten" \notin upset =>
                   /\ Answered(Head(thread.todo))
                   /\ \A i \in 1..sys.length : sys.resp[i].tag = calls]_sysVars
  BY <1>1
<1> QED BY <1>2, AlwaysSysInv, PTL DEF AnswerIsOurs

(* What was remembered of the dividers is enough to put them back.         *)
LEMMA DividersReturn ==
  ASSUME SysInv, ctl.frozen, "switched" \notin upset
  PROVE  Reverted(sys) = sys.design
<1>1. Undoable /\ sys.design \in Designs(sys.device) /\ sys \in SysRecord
  BY DEF SysInv, Clocks, Types
<1>2. sys.device \in Devices
  BY <1>1, RecordIs
<1>3. CASE sys.device = "005"
  <2> DEFINE div == sys.design.div
             now == sys.facc1_cr.div
  <2>1. sys.design = [div |-> div, standby |-> FALSE] /\ div = <<0, 1, 2, 4>>
    <3>1. sys.design \in {[div |-> x, standby |-> FALSE] : x \in {<<0, 1, 2, 4>>}}
      BY <1>1, <1>3 DEF Designs
    <3>2. sys.design = [div |-> <<0, 1, 2, 4>>, standby |-> FALSE]
      BY <3>1
    <3> QED BY <3>2
  <2>2. sys.divisor = div
    BY <1>1, <1>3 DEF Undoable
  <2>3. \A i \in Dividers : now[i] \in 0..7
    BY <1>1, RecordIs DEF Facc1
  <2> HIDE DEF div, now
  <2>4. \A i \in Dividers : div[i] \in {0, 1, 2, 4}
    BY <2>1 DEF Dividers
  <2>5. \A i \in Dividers : StepBack(div[i], now[i]) = div[i]
    BY <2>3, <2>4, StepBackRange
  <2>6. div = [i \in Dividers |-> div[i]]
    BY <2>1 DEF Dividers
  <2>7. [i \in Dividers |-> StepBack(div[i], now[i])] = div
    BY <2>5, <2>6
  <2>8. Reverted(sys) = [div |-> [i \in Dividers |-> StepBack(div[i], now[i])], standby |-> FALSE]
    BY <1>3, <2>2 DEF Reverted, revert_clk_config, now
  <2> QED BY <2>1, <2>7, <2>8
<1>4. CASE sys.device # "005"
  BY <1>1, <1>2, <1>4 DEF Undoable, Reverted, revert_clk_config, Devices
<1> QED BY <1>3, <1>4

(* The end of a flash freeze puts the dividers back to what the design     *)
(* chose, on every device.                                                 *)
THEOREM ClocksAreRestored == SysSpec => ClocksRestored
<1>1. ASSUME SysInv, ComBlk_IRQHandler, rxBytes # <<>>, Head(rxBytes).val = "exit",
             rxBytes' # rxBytes, "switched" \notin upset
      PROVE  sys'.facc1_cr = sys.design
  <2>1. rxBytes \in Seq(RxSet)
    BY <1>1 DEF SysInv, Types
  <2>2. 1 \in 1..Len(rxBytes) /\ Head(rxBytes) = rxBytes[1]
    BY <1>1, <2>1, TailIs
  <2>3. Exits(Head(rxBytes)) /\ ctl.frozen
    BY <1>1, <2>2 DEF SysInv, Clocks, Exits
  <2>4. sys'.facc1_cr = Reverted(sys)
    BY <1>1, <2>3, RequestByte, IrqEffect
  <2> QED BY <1>1, <2>3, <2>4, DividersReturn
<1>2. SysInv => [ComBlk_IRQHandler /\ rxBytes # <<>> /\ Head(rxBytes).val = "exit"
                   /\ rxBytes' # rxBytes /\ "switched" \notin upset
                 => sys'.facc1_cr = sys.design]_sysVars
  BY <1>1
<1> QED BY <1>2, AlwaysSysInv, PTL DEF ClocksRestored
=============================================================================
