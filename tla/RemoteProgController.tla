------------------------ MODULE RemoteProgController ------------------------
(***************************************************************************)
(* The Remote Programming session of the GUI: the controller's state       *)
(* machine (apps/remote_prog_controller.py), the busy-lock and the         *)
(* connection that main_window.py keeps around it, and the part of         *)
(* tabs/remote_programming_tab.py that decides which buttons the operator  *)
(* can press.                                                              *)
(*                                                                         *)
(* Everything here runs on the GUI thread, so an action is one event of    *)
(* the Qt event loop - a click, a timer, a received frame, a signal of the *)
(* socket thread - with every slot it calls synchronously.                 *)
(***************************************************************************)
EXTENDS Integers, Sequences, FiniteSets

CONSTANTS
  NumQtrm,       \* NUM_QTRM, 96 in the code
  MaxChunks,     \* bound on the number of chunks of an image
  MaxAnnounces   \* bound on the 20 ms single shots pending at once

ASSUME ConstantsAssumption ==
  /\ NumQtrm \in 1..254
  /\ MaxChunks \in Nat \ {0}
  /\ MaxAnnounces \in Nat \ {0}

QTRM      == 0..(NumQtrm - 1)
Broadcast == 255                      \* RP_QTRM_SELECT_BROADCAST
NoChunk   == -1                       \* _current_chunk is None
NoAck     == [idx |-> -1, ok |-> FALSE]

StepOps   == {"mode_step1", "mode_step2"}
PollOps   == {"link_check", "lru_info"}
IapOps    == {"authenticate", "verify", "program"}
BackOps   == {"qtrm_high_speed", "mode_back"}
SimpleOps == StepOps \cup PollOps \cup BackOps
Ops       == SimpleOps \cup IapOps \cup {"upload"}

VARIABLES
  \* main_window.py
  link,        \* self.worker: "off" (None), "starting" (bind not done), "up"
  awaiting,    \* _awaiting_kind: "none", "remote_programming", "other"
  \* remote_prog_controller.py
  op,          \* _op, "none" when idle
  step1Done, step2Done,   \* mode_step1_done, mode_step2_done
  gotAny,      \* _got_any_frame
  iapReplied,  \* _iap_replied
  timer,       \* the handler the one reusable timer is armed with, or "off"
  phase,       \* _upload_phase: "none", "stream", "grace"
  current,     \* _current_chunk
  chunkCount,  \* _chunk_count
  ackMatrix,   \* ack_matrix[q][i]: "none", "pass", "fail"
  target,      \* target_qtrm
  announces,   \* single shots of start_upload that have not fired yet
  \* remote_programming_tab.py
  tab,         \* _gate_open, _step1_done, _programmed, _session_active
  \* outputs and history
  sent,        \* frames the last step handed to the socket worker
  outcome,     \* how the last session finished, "none" while one runs
  step1Target, step2Target   \* target_qtrm in the last Step 1, Step 2 frame

sessionVars == <<op, timer, phase, current, awaiting, tab, outcome>>
gateVars    == <<step1Done, step2Done>>
uploadVars  == <<chunkCount, ackMatrix, announces>>
targetVars  == <<target, step1Target, step2Target>>
vars == <<sessionVars, gateVars, uploadVars, targetVars, gotAny, iapReplied,
          link, sent>>

gate_open == step1Done /\ step2Done
busy      == op # "none"

Frame(c, a) == [cmd |-> c, arg |-> a]

----------------------------------------------------------------------------
(* The tab's slots, as functions of the tab's state.  Here and below an    *)
(* operator named Bug_... is a plausible defect of the definition that     *)
(* follows it; nothing uses it but the mutants of PROJECT.json.            *)

Tabs == [gate: BOOLEAN, step1: BOOLEAN, programmed: BOOLEAN, active: BOOLEAN]

Bug_gate_keeps_programmed(t, open) ==
  IF open THEN [t EXCEPT !.gate = TRUE]
          ELSE [t EXCEPT !.gate = FALSE, !.step1 = FALSE]

on_gate_changed(t, open) ==
  IF open THEN [t EXCEPT !.gate = TRUE]
          ELSE [t EXCEPT !.gate = FALSE, !.step1 = FALSE, !.programmed = FALSE]

mark_session_started(t, o) ==
  [t EXCEPT !.active = TRUE, !.programmed = @ \/ o = "program"]

on_session_finished(t, o, ok) ==
  [t EXCEPT !.active     = FALSE,
            !.step1      = @ \/ (o = "mode_step1" /\ ok),
            !.programmed = @ /\ ~(o = "mode_back" /\ ok)]

(* _apply_gate: is the button that requests operation o enabled? *)
ButtonEnabled(o) ==
  /\ ~tab.active
  /\ o # "mode_back" => ~tab.programmed
  /\ o \notin StepOps => tab.gate

Bug_target_never_locks == ~tab.active

target_combo_enabled == ~tab.active /\ ~tab.step1

----------------------------------------------------------------------------
(* _finish, with the tab as the signals emitted before it left it.  The    *)
(* session_finished signal reaches the tab, then main_window, which        *)
(* releases the busy-lock.                                                 *)

Result(ok) == IF ok THEN "ok" ELSE "fail"

Bug_finish_keeps_timer(result, t) ==
  /\ op' = "none"
  /\ phase' = "none"
  /\ current' = NoChunk
  /\ outcome' = result
  /\ tab' = on_session_finished(t, op, result = "ok")
  /\ awaiting' = IF awaiting = "remote_programming" THEN "none" ELSE awaiting
  /\ UNCHANGED timer

finish(result, t) ==
  /\ op' = "none"
  /\ timer' = "off"
  /\ phase' = "none"
  /\ current' = NoChunk
  /\ outcome' = result
  /\ tab' = on_session_finished(t, op, result = "ok")
  /\ awaiting' = IF awaiting = "remote_programming" THEN "none" ELSE awaiting

(* Latching a mode step: flag, gate_changed, _finish. *)
LatchStep ==
  LET s1 == step1Done \/ op = "mode_step1"
      s2 == step2Done \/ op = "mode_step2"
  IN  /\ step1Done' = s1
      /\ step2Done' = s2
      /\ finish("ok", on_gate_changed(tab, s1 /\ s2))

(* QCC -> High Speed re-locks the gate, acked or not. *)
RelockGate(result) ==
  /\ step1Done' = FALSE
  /\ step2Done' = FALSE
  /\ finish(result, on_gate_changed(tab, FALSE))

----------------------------------------------------------------------------
(* Operations the operator starts: the tab's button, _rp_start, then the   *)
(* controller's start_*.  With no worker or with another command in        *)
(* flight _rp_start only shows a warning.                                  *)

CanStart(o) == ButtonEnabled(o) /\ link # "off" /\ awaiting = "none"

(* The controller's own checks.  NeverRefused below says the tab's buttons  *)
(* and the busy-lock already imply them, so that the branch of _rp_start    *)
(* that takes a refused start back is never needed.                         *)
Accepts(o) == ~busy /\ (o \notin StepOps => gate_open)

Begin(o, handler) ==
  /\ CanStart(o)
  /\ Accepts(o)
  /\ awaiting' = "remote_programming"
  /\ tab' = mark_session_started(tab, o)
  /\ op' = o
  /\ gotAny' = FALSE
  /\ timer' = handler
  /\ outcome' = "none"
  /\ sent' = <<Frame(o, target)>>

start_mode_step1 ==
  /\ Begin("mode_step1", "simple")
  /\ step1Target' = target
  /\ UNCHANGED <<phase, current, gateVars, uploadVars, target, step2Target,
                 iapReplied, link>>

start_mode_step2 ==
  /\ Begin("mode_step2", "simple")
  /\ step2Target' = target
  /\ UNCHANGED <<phase, current, gateVars, uploadVars, target, step1Target,
                 iapReplied, link>>

(* Link Check, Get LRU Info, QTRM -> High Speed and QCC -> High Speed. *)
start_simple(o) ==
  /\ Begin(o, "simple")
  /\ UNCHANGED <<phase, current, gateVars, uploadVars, targetVars, iapReplied, link>>

start_iap_poll(o) ==
  /\ Begin(o, "iap")
  /\ iapReplied' = {}
  /\ UNCHANGED <<phase, current, gateVars, uploadVars, targetVars, link>>

NoAcks == [q \in QTRM |-> [i \in 0..(MaxChunks - 1) |-> "none"]]

(* The 0x33 announce goes out; chunk 0 follows when the 20 ms single shot  *)
(* fires.  n is the number of chunks split_chunks makes of the image.      *)
start_upload(n) ==
  /\ announces < MaxAnnounces
  /\ Begin("upload", "off")
  /\ phase' = "stream"
  /\ current' = NoChunk
  /\ chunkCount' = n
  /\ ackMatrix' = NoAcks
  /\ announces' = announces + 1
  /\ UNCHANGED <<gateVars, targetVars, iapReplied, link>>

(* Cancel, Stop Authenticate, Stop Verify, Stop Program. *)
cancel ==
  /\ tab.active
  /\ busy
  /\ finish("cancelled", tab)
  /\ sent' = <<>>
  /\ UNCHANGED <<gateVars, uploadVars, targetVars, gotAny, iapReplied, link>>

SelectTarget(t) ==
  /\ target_combo_enabled
  /\ target' = t
  /\ sent' = <<>>
  /\ UNCHANGED <<sessionVars, gateVars, uploadVars, step1Target, step2Target,
                 gotAny, iapReplied, link>>

----------------------------------------------------------------------------
(* Received frames.  main_window hands every frame to the controller while *)
(* the busy-lock is the session's, whether the connection is up or not: a  *)
(* worker that was let go of may still be listening.                       *)

FrameFor(ops) == awaiting = "remote_programming" /\ op \in ops

(* Any frame at all latches a mode step, whichever command it answers. *)
StepFrame ==
  /\ FrameFor(StepOps)
  /\ LatchStep
  /\ gotAny' = TRUE
  /\ sent' = <<>>
  /\ UNCHANGED <<uploadVars, targetVars, iapReplied, link>>

(* So it does the two return-to-high-speed operations. *)
BackFrame ==
  /\ FrameFor(BackOps)
  /\ IF op = "mode_back" THEN RelockGate("ok")
                         ELSE finish("ok", tab) /\ UNCHANGED gateVars
  /\ gotAny' = TRUE
  /\ sent' = <<>>
  /\ UNCHANGED <<uploadVars, targetVars, iapReplied, link>>

(* A frame that is not 2970 bytes long has no slots: extract_rp_slots      *)
(* raises after _got_any_frame was set, and the session goes on.           *)
ShortFrame ==
  /\ FrameFor(PollOps \cup IapOps \cup {"upload"})
  /\ gotAny' = TRUE
  /\ sent' = <<>>
  /\ UNCHANGED <<sessionVars, gateVars, uploadVars, targetVars, iapReplied, link>>

(* Link Check and Get LRU Info end with the first 2970-byte frame. *)
PollFrame ==
  /\ FrameFor(PollOps)
  /\ finish("ok", tab)
  /\ gotAny' = TRUE
  /\ sent' = <<>>
  /\ UNCHANGED <<gateVars, uploadVars, targetVars, iapReplied, link>>

TargetCount == IF target = Broadcast THEN NumQtrm ELSE 1

(* replied: the QTRMs whose slot of the frame is not all-zero. *)
IapFrame(replied) ==
  /\ FrameFor(IapOps)
  /\ iapReplied' = iapReplied \cup replied
  /\ IF Cardinality(iapReplied') >= TargetCount THEN finish("ok", tab)
                                                ELSE UNCHANGED sessionVars
  /\ gotAny' = TRUE
  /\ sent' = <<>>
  /\ UNCHANGED <<gateVars, uploadVars, targetVars, link>>

(* Without a worker the send of the next chunk raises after the cursor     *)
(* moved, and the slots behind the one that asked for it are not looked at.*)
Seen(slots) ==
  [q \in QTRM |->
    IF /\ link = "off" /\ phase = "stream" /\ current + 1 < chunkCount
       /\ \E p \in 0..(q - 1) : slots[p] = [idx |-> current, ok |-> TRUE]
    THEN NoAck ELSE slots[q]]

(* _dispatch_slot visits the slots in QTRM order, and every ok ack of the  *)
(* chunk in flight moves the stream on: it gets from chunk c to chunk d    *)
(* when acks of c, c + 1 .. d - 1 sit in ascending slots.                  *)
Reaches(slots, c, d) ==
  \E by \in [c..(d - 1) -> QTRM] :
    /\ \A i \in c..(d - 1) : slots[by[i]] = [idx |-> i, ok |-> TRUE]
    /\ \A i, j \in c..(d - 1) : i < j => by[i] < by[j]

ChunkFrames(c, d) == [k \in 1..(d - c) |-> Frame("chunk", c + k)]

(* A pass is never downgraded; an index past the image is ignored. *)
record_acks(slots) ==
  [q \in QTRM |-> [i \in 0..(MaxChunks - 1) |->
    IF slots[q].idx = i /\ i < chunkCount /\ ackMatrix[q][i] # "pass"
    THEN IF slots[q].ok THEN "pass" ELSE "fail"
    ELSE ackMatrix[q][i]]]

Bug_streams_past_end(d) ==
  /\ current' = d
  /\ sent' = ChunkFrames(current, d)
  /\ IF d > chunkCount THEN phase' = "grace" /\ timer' = "grace"
                       ELSE UNCHANGED <<phase, timer>>

(* _send_next_chunk up to chunk d; past the last chunk, _enter_grace. *)
stream_to(d) ==
  LET last == IF d < chunkCount THEN d ELSE chunkCount - 1
  IN  /\ current' = last
      /\ sent' = IF link = "off" THEN <<>> ELSE ChunkFrames(current, last)
      /\ IF d = chunkCount THEN phase' = "grace" /\ timer' = "grace"
                           ELSE UNCHANGED <<phase, timer>>

Bug_any_ack_advances(slots) ==
  /\ FrameFor({"upload"})
  /\ gotAny' = TRUE
  /\ ackMatrix' = record_acks(slots)
  /\ IF phase = "stream" /\ current # NoChunk /\ \E q \in QTRM : slots[q] # NoAck
     THEN stream_to(current + 1)
     ELSE sent' = <<>> /\ UNCHANGED <<current, phase, timer>>
  /\ UNCHANGED <<op, awaiting, tab, outcome, chunkCount, announces, gateVars,
                 targetVars, iapReplied, link>>

UploadFrame(slots) ==
  /\ FrameFor({"upload"})
  /\ gotAny' = TRUE
  /\ ackMatrix' = record_acks(Seen(slots))
  /\ IF phase = "stream"
     THEN \E d \in current..chunkCount :
            /\ Reaches(Seen(slots), current, d)
            /\ \A e \in (d + 1)..chunkCount : ~Reaches(Seen(slots), current, e)
            /\ stream_to(d)
     ELSE sent' = <<>> /\ UNCHANGED <<current, phase, timer>>
  /\ UNCHANGED <<op, awaiting, tab, outcome, chunkCount, announces, gateVars,
                 targetVars, iapReplied, link>>

----------------------------------------------------------------------------
(* Timers. *)

Bug_timeout_ignores_lru ==
  /\ timer = "simple"
  /\ CASE op \in StepOps -> IF gotAny THEN LatchStep
                            ELSE finish("fail", tab) /\ UNCHANGED gateVars
       [] op = "link_check" -> finish(Result(gotAny), tab) /\ UNCHANGED gateVars
       [] op = "qtrm_high_speed" -> finish("fail", tab) /\ UNCHANGED gateVars
       [] op = "mode_back" -> RelockGate("fail")
       [] OTHER -> /\ timer' = "off"
                   /\ UNCHANGED <<op, phase, current, awaiting, tab, outcome, gateVars>>
  /\ sent' = <<>>
  /\ UNCHANGED <<uploadVars, targetVars, gotAny, iapReplied, link>>

(* _on_simple_timeout knows six of the operations; the timer of any other  *)
(* would fire without effect.                                              *)
on_simple_timeout ==
  /\ timer = "simple"
  /\ CASE op \in StepOps -> IF gotAny THEN LatchStep
                            ELSE finish("fail", tab) /\ UNCHANGED gateVars
       [] op \in PollOps -> finish(Result(gotAny), tab) /\ UNCHANGED gateVars
       [] op = "qtrm_high_speed" -> finish("fail", tab) /\ UNCHANGED gateVars
       [] op = "mode_back" -> RelockGate("fail")
       [] OTHER -> /\ timer' = "off"
                   /\ UNCHANGED <<op, phase, current, awaiting, tab, outcome, gateVars>>
  /\ sent' = <<>>
  /\ UNCHANGED <<uploadVars, targetVars, gotAny, iapReplied, link>>

(* Silence is what PROGRAM expects. *)
on_iap_window_closed ==
  /\ timer = "iap"
  /\ finish(Result(gotAny \/ op = "program"), tab)
  /\ sent' = <<>>
  /\ UNCHANGED <<gateVars, uploadVars, targetVars, gotAny, iapReplied, link>>

(* missing_chunk_indices and failed_pairs look at every QTRM, addressed or *)
(* not.                                                                    *)
missing_chunk_indices ==
  {i \in 0..(chunkCount - 1) : \E q \in QTRM : ackMatrix[q][i] # "pass"}

failed_pairs ==
  {p \in QTRM \X (0..(chunkCount - 1)) : ackMatrix[p[1]][p[2]] = "fail"}

close_upload_pass ==
  /\ timer = "grace"
  /\ finish(Result(missing_chunk_indices = {} /\ failed_pairs = {}), tab)
  /\ sent' = <<>>
  /\ UNCHANGED <<gateVars, uploadVars, targetVars, gotAny, iapReplied, link>>

(* The single shot of start_upload: chunk 0, whatever runs by now.  Nothing *)
(* cancels it.  Without a worker the send raises after the cursor moved.    *)
announce_settled ==
  /\ announces > 0
  /\ announces' = announces - 1
  /\ current' = 0
  /\ sent' = IF link = "off" THEN <<>> ELSE <<Frame("chunk", 0)>>
  /\ UNCHANGED <<op, timer, phase, awaiting, tab, outcome, chunkCount, ackMatrix,
                 gateVars, targetVars, gotAny, iapReplied, link>>

----------------------------------------------------------------------------
(* The connection, and the other commands that share the busy-lock. *)

connect ==
  /\ link = "off"
  /\ link' = "starting"
  /\ sent' = <<>>
  /\ UNCHANGED <<sessionVars, gateVars, uploadVars, targetVars, gotAny, iapReplied>>

listening ==
  /\ link = "starting"
  /\ link' = "up"
  /\ sent' = <<>>
  /\ UNCHANGED <<sessionVars, gateVars, uploadVars, targetVars, gotAny, iapReplied>>

(* _on_worker_error drops the worker and leaves the session alone. *)
bind_failed ==
  /\ link = "starting"
  /\ link' = "off"
  /\ sent' = <<>>
  /\ UNCHANGED <<sessionVars, gateVars, uploadVars, targetVars, gotAny, iapReplied>>

Bug_disconnect_keeps_lock ==
  /\ link # "off"
  /\ link' = "off"
  /\ op' = "none"
  /\ timer' = "off"
  /\ sent' = <<>>
  /\ UNCHANGED <<phase, current, awaiting, tab, outcome, gateVars, uploadVars,
                 targetVars, gotAny, iapReplied>>

(* Disconnect, changed settings, or a worker that died: _disconnect ends   *)
(* the session first.                                                      *)
disconnect ==
  /\ link # "off"
  /\ IF busy THEN finish("cancelled", tab) ELSE UNCHANGED sessionVars
  /\ link' = "off"
  /\ sent' = <<>>
  /\ UNCHANGED <<gateVars, uploadVars, targetVars, gotAny, iapReplied>>

(* A one-shot command latches its kind with _begin_wait ... *)
other_command ==
  /\ link # "off"
  /\ awaiting = "none"
  /\ awaiting' = "other"
  /\ sent' = <<Frame("other", 0)>>
  /\ UNCHANGED <<op, timer, phase, current, tab, outcome, gateVars, uploadVars,
                 targetVars, gotAny, iapReplied, link>>

(* ... and any frame, or its watchdog, ends it.  A command in flight       *)
(* survives a disconnect.                                                  *)
other_command_over ==
  /\ awaiting = "other"
  /\ awaiting' = "none"
  /\ sent' = <<>>
  /\ UNCHANGED <<op, timer, phase, current, tab, outcome, gateVars, uploadVars,
                 targetVars, gotAny, iapReplied, link>>

----------------------------------------------------------------------------
Slots == {NoAck} \cup [idx: 0..MaxChunks, ok: BOOLEAN]

Init ==
  /\ link = "off"
  /\ awaiting = "none"
  /\ op = "none"
  /\ step1Done = FALSE
  /\ step2Done = FALSE
  /\ gotAny = FALSE
  /\ iapReplied = {}
  /\ timer = "off"
  /\ phase = "none"
  /\ current = NoChunk
  /\ chunkCount = 0
  /\ ackMatrix = NoAcks
  /\ target = Broadcast
  /\ announces = 0
  /\ tab = [gate |-> FALSE, step1 |-> FALSE, programmed |-> FALSE, active |-> FALSE]
  /\ sent = <<>>
  /\ outcome = "none"
  /\ step1Target = Broadcast
  /\ step2Target = Broadcast

Operator ==
  \/ start_mode_step1
  \/ start_mode_step2
  \/ \E o \in PollOps \cup BackOps : start_simple(o)
  \/ \E o \in IapOps : start_iap_poll(o)
  \/ \E n \in 1..MaxChunks : start_upload(n)
  \/ cancel
  \/ \E t \in QTRM \cup {Broadcast} : SelectTarget(t)
  \/ connect
  \/ disconnect
  \/ other_command

Receive ==
  \/ StepFrame
  \/ BackFrame
  \/ ShortFrame
  \/ PollFrame
  \/ \E replied \in SUBSET QTRM : IapFrame(replied)
  \/ \E slots \in [QTRM -> Slots] : UploadFrame(slots)
  \/ other_command_over

Timers ==
  \/ on_simple_timeout
  \/ on_iap_window_closed
  \/ close_upload_pass
  \/ announce_settled

Socket == listening \/ bind_failed

Next == Operator \/ Receive \/ Timers \/ Socket

(* The Qt event loop delivers every timer that stays armed. *)
Fairness ==
  /\ WF_vars(on_simple_timeout)
  /\ WF_vars(on_iap_window_closed)
  /\ WF_vars(close_upload_pass)
  /\ WF_vars(announce_settled)

Spec     == Init /\ [][Next]_vars
FairSpec == Spec /\ Fairness
----------------------------------------------------------------------------
(* Properties. *)

(* The controller, the tab and the link have the types the code gives them. *)
TypeOK ==
  /\ link \in {"off", "starting", "up"}
  /\ awaiting \in {"none", "remote_programming", "other"}
  /\ op \in Ops \cup {"none"}
  /\ step1Done \in BOOLEAN
  /\ step2Done \in BOOLEAN
  /\ gotAny \in BOOLEAN
  /\ iapReplied \subseteq QTRM
  /\ timer \in {"off", "simple", "iap", "grace"}
  /\ phase \in {"none", "stream", "grace"}
  /\ current \in NoChunk..(MaxChunks - 1)
  /\ chunkCount \in 0..MaxChunks
  /\ ackMatrix \in [QTRM -> [0..(MaxChunks - 1) -> {"none", "pass", "fail"}]]
  /\ target \in QTRM \cup {Broadcast}
  /\ announces \in 0..MaxAnnounces
  /\ tab \in Tabs
  /\ outcome \in {"none", "ok", "fail", "cancelled"}
  /\ step1Target \in QTRM \cup {Broadcast}
  /\ step2Target \in QTRM \cup {Broadcast}

(* The busy-lock, the tab's "session active" and the controller's _op are  *)
(* three records of one fact kept by three objects; no event leaves them   *)
(* in disagreement (main_window.py: "the busy-lock must never stick        *)
(* without an active session behind it").                                  *)
LockMatchesSession ==
  /\ awaiting = "remote_programming" <=> busy
  /\ tab.active <=> busy

(* A session waits on the handler that can end it: the timer is armed with *)
(* the handler of the running operation and off when nothing runs.  Only a *)
(* streaming upload runs without a timer.                                  *)
TimerMatchesOp ==
  /\ op = "none" => timer = "off"
  /\ op \in SimpleOps => timer = "simple"
  /\ op \in IapOps => timer = "iap"
  /\ op = "upload" => timer = (IF phase = "grace" THEN "grace" ELSE "off")

(* The tab's copy of the gate and of Step 1 is the controller's, and the   *)
(* lock that Program puts on every button but QCC -> High Speed always     *)
(* leaves that button to get out: an idle tab has a mode button enabled.   *)
TabMirrorsController ==
  /\ tab.gate <=> gate_open
  /\ tab.step1 <=> step1Done
  /\ ~busy => ButtonEnabled("mode_step1") \/ ButtonEnabled("mode_back")

(* Every start the tab and the busy-lock let through is one the controller *)
(* accepts, so _rp_start never has to take a refused session back (and     *)
(* never leaves the Program lock on for a Program that was not sent).      *)
NeverRefused == \A o \in Ops : CanStart(o) => Accepts(o)

(* Once Step 1 has succeeded the target cannot drift: what the QTRMs were  *)
(* told in Step 1 is what every later frame is built for.                  *)
StepOneTargetHeld == step1Done => step1Target = target

(* Streaming never leaves a chunk behind that nobody acked: below the      *)
(* cursor every chunk was acked by some QTRM in this upload, in the grace  *)
(* window every chunk of the image was.                                    *)
AckedBelowCursor ==
  op = "upload" =>
    \A i \in 0..(chunkCount - 1) :
      (i < current \/ phase = "grace") => \E q \in QTRM : ackMatrix[q][i] = "pass"

(* An upload whose first chunk has not been sent still has a single shot   *)
(* to send it: the stream cannot stall before it starts.                   *)
FirstChunkScheduled ==
  op = "upload" /\ current = NoChunk => phase = "stream" /\ announces > 0

(* On the wire: chunk i > 0 leaves only after chunk i - 1 was acked.       *)
StreamIsAckDriven ==
  [][\A k \in 1..Len(sent') :
       sent'[k].cmd = "chunk" /\ sent'[k].arg > 0 =>
         \E q \in QTRM : ackMatrix'[q][sent'[k].arg - 1] = "pass"]_vars

(* Within an upload a QTRM's pass for a chunk is never lost, whatever late *)
(* or duplicate acks arrive.                                               *)
PassIsFinal ==
  [][\A q \in QTRM : \A i \in 0..(MaxChunks - 1) :
       ackMatrix[q][i] = "pass" /\ ~(op = "none" /\ op' = "upload")
         => ackMatrix'[q][i] = "pass"]_vars

(* Every operation but a streaming upload ends by itself, and an upload    *)
(* sends its first chunk and leaves its grace window.                      *)
SessionsEnd ==
  /\ (op \notin {"none", "upload"} \/ phase = "grace") ~> (op = "none")
  /\ (op = "upload" /\ current = NoChunk) ~> (op # "upload" \/ current # NoChunk)

(* cancel: "stop all timers, end the session cleanly"; _disconnect: "so a  *)
(* chunk watchdog never fires into a dead connection".  Hence no chunk     *)
(* leaves, and the cursor does not move, outside an upload.                *)
NoChunkOutsideUpload ==
  [][current' # current \/ (\E k \in 1..Len(sent') : sent'[k].cmd = "chunk")
       => op = "upload" \/ op' = "upload"]_vars

(* The tab: the low-speed sequence is mandatory and both its steps carry   *)
(* the same target.                                                        *)
StepsAgreeOnTarget == gate_open => step1Target = step2Target

(* A session for one QTRM whose QTRM acked every chunk is a complete       *)
(* transfer.                                                               *)
SingleTargetUploadCompletes ==
  [][close_upload_pass /\ target \in QTRM
       /\ (\A i \in 0..(chunkCount - 1) : ackMatrix[target][i] = "pass")
       /\ failed_pairs = {}
       => outcome' = "ok"]_vars
=============================================================================
