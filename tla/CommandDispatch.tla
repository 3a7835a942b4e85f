--------------------------- MODULE CommandDispatch ---------------------------
(***************************************************************************)
(* main_window.py between the operator and the socket: the busy-lock       *)
(* _awaiting_kind that lets one command be in flight, its watchdog timer,  *)
(* the single-QTRM targets, the four auto-resend toggles, the Remote       *)
(* Programming session and the Burn Test that borrow the lock, and the     *)
(* connection all of them use.                                             *)
(*                                                                         *)
(* Everything runs on the GUI thread: an action is one event of the Qt     *)
(* event loop.  A modal dialog opened in the middle of a slot runs a       *)
(* nested event loop, so timers, posted signals and socket events go on    *)
(* while it is open and only the operator's clicks are held back; the rest *)
(* of the slot runs when it is closed.  A dialog that is the last thing    *)
(* its slot does (Busy, Parse error, UDP Error) changes nothing and is     *)
(* left out.                                                               *)
(***************************************************************************)
EXTENDS Naturals, Sequences

CONSTANTS
  Kinds,        \* the keys of _COMMANDS
  AutoKinds,    \* those with an auto-resend toggle
  EarlyKinds,   \* toggles that latch before the first send (QCC Status)
  TargetKinds,  \* those with a target_attr: single-QTRM commands
  BareKinds,    \* those answered by a bare 10-byte frame (chip_id_read)
  QTRM,
  None,         \* Python's None
  MaxPosted     \* bound on frame_received signals posted, not yet delivered

ASSUME KindsAssumption ==
  /\ AutoKinds \subseteq Kinds /\ EarlyKinds \subseteq AutoKinds
  /\ TargetKinds \subseteq Kinds /\ BareKinds \subseteq Kinds
  /\ AutoKinds \cap TargetKinds = {}
  /\ BareKinds \cap (AutoKinds \cup TargetKinds) = {}
  /\ Kinds \cap {"remote_programming", "burn_test"} = {}
  /\ Kinds \cap {"burn_confirm", "burn_error", "log_error"} = {}
  /\ None \notin Kinds \cup QTRM \cup {"remote_programming", "burn_test"}
  /\ MaxPosted \in Nat

VARIABLES
  worker,      \* self.worker: "off" (None), "starting" (not bound yet), "up"
  posted,      \* frames the socket threads posted that are not delivered yet
  awaiting,    \* _awaiting_kind
  watchdog,    \* the kind a running _pending_timer was armed for
  target,      \* the attribute each target_attr names
  auto,        \* toggles whose resend timer runs
  session,     \* remote_prog_ctrl.busy
  burn,        \* _burn_test_worker: "off" (None), "binding", "running", "dead"
  burnPosted,  \* its posted signals: "error" (no socket), "stopped"
  burnLog,     \* _burn_test_logger: "none" (not asked for), "open", "closed",
               \* "failed" (a write error closed it)
  logging,     \* _frame_logger.active
  dialogs,     \* slots suspended in a modal dialog, outermost first
  \* history of the last command sent
  shown,       \* what its tab shows: "none", "pending", "result", "silent", "mismatch"
  heard        \* the frame handled since: "nothing", "frame", or "unseen"
               \* (it reached the slot, but not the code that ends the wait)

lockVars == <<awaiting, watchdog, target>>
burnVars == <<burn, burnPosted, burnLog>>
histVars == <<shown, heard>>
vars == <<lockVars, burnVars, histVars, worker, posted, auto, session, logging, dialogs>>

(* A click reaches the window only while no modal dialog is open. *)
Clickable == dialogs = <<>>

----------------------------------------------------------------------------
(* _begin_wait and _end_wait.  As elsewhere an operator Bug_... is a       *)
(* plausible defect of the next definition, for the mutants only.          *)

Bug_begin_wait_unknown_kind(k) ==
  /\ awaiting' = "link"
  /\ watchdog' = k
  /\ shown' = "pending"
  /\ heard' = "nothing"

Bug_begin_wait_keeps_timer(k) ==
  /\ awaiting' = k
  /\ watchdog' = IF watchdog = None THEN k ELSE watchdog
  /\ shown' = "pending"
  /\ heard' = "nothing"

begin_wait(k) ==
  /\ awaiting' = k
  /\ watchdog' = k
  /\ shown' = "pending"
  /\ heard' = "nothing"

(* _take_target *)
TakeTarget(k) ==
  target' = IF k \in TargetKinds THEN [target EXCEPT ![k] = None] ELSE target

(* A manual send: not connected and busy are early returns.  With a socket *)
(* that is not open yet send_frame only reports an error; the wait stays.  *)
CanSend == worker # "off" /\ awaiting = None

Send(k, t) ==
  /\ Clickable /\ CanSend
  /\ k \notin AutoKinds
  /\ target' = IF k \in TargetKinds THEN [target EXCEPT ![k] = t] ELSE target
  /\ begin_wait(k)
  /\ UNCHANGED <<burnVars, worker, posted, auto, session, logging, dialogs>>

(* The toggle buttons.  A click while resending only stops the timer.      *)
stop_auto_resend(k) ==
  /\ Clickable
  /\ k \in auto
  /\ auto' = auto \ {k}
  /\ UNCHANGED <<lockVars, burnVars, histVars, worker, posted, session, logging, dialogs>>

(* Otherwise it sends once and starts the timer when an interval is set    *)
(* (resend), whether or not the send was let through.  The send itself can *)
(* end in a dialog: the data log writes the previous query out (log_tx),   *)
(* and a write error stops the log and warns.                              *)
SendAllLogFails(k) ==
  /\ Clickable /\ CanSend /\ logging
  /\ k \in AutoKinds \ (auto \cup EarlyKinds)
  /\ begin_wait(k)
  /\ logging' = FALSE
  /\ dialogs' = Append(dialogs, k)
  /\ UNCHANGED <<target, burnVars, worker, posted, auto, session>>

SendAll(k, resend) ==
  /\ Clickable /\ CanSend
  /\ k \in AutoKinds \ auto
  /\ begin_wait(k)
  /\ auto' = IF resend THEN auto \cup {k} ELSE auto
  /\ UNCHANGED <<target, burnVars, worker, posted, session, logging, dialogs>>

(* A refused send warns in a dialog; the QCC Status toggle has latched     *)
(* before it, the others latch after it.                                   *)
SendAllRefused(k) ==
  /\ Clickable /\ ~CanSend
  /\ k \in AutoKinds \ auto
  /\ IF k \in EarlyKinds
       THEN auto' = auto \cup {k} /\ UNCHANGED dialogs
       ELSE dialogs' = Append(dialogs, k) /\ UNCHANGED auto
  /\ UNCHANGED <<lockVars, burnVars, histVars, worker, posted, session, logging>>

Top == dialogs[Len(dialogs)]
CloseDialog == dialogs' = SubSeq(dialogs, 1, Len(dialogs) - 1)

toggle_resumed ==
  /\ ~Clickable /\ Top \in AutoKinds
  /\ CloseDialog
  /\ auto' = auto \cup {Top}
  /\ UNCHANGED <<lockVars, burnVars, histVars, worker, posted, session, logging>>

(* A resend tick.  It supersedes its own unanswered wait and is skipped    *)
(* while anything else is in flight.                                       *)
Bug_tick_ignores_lock(k) ==
  /\ k \in auto
  /\ worker # "off"
  /\ begin_wait(k)
  /\ UNCHANGED <<target, burnVars, worker, posted, auto, session, logging, dialogs>>

Bug_tick_stops_timer_first(k) ==
  /\ k \in auto
  /\ worker # "off"
  /\ IF awaiting \in {None, k}
       THEN begin_wait(k)
       ELSE watchdog' = None /\ UNCHANGED <<awaiting, histVars>>
  /\ UNCHANGED <<target, burnVars, worker, posted, auto, session, logging, dialogs>>

resend_tick(k) ==
  /\ k \in auto
  /\ worker # "off"
  /\ awaiting \in {None, k}
  /\ begin_wait(k)
  /\ UNCHANGED <<target, burnVars, worker, posted, auto, session, logging, dialogs>>

(* _on_response_timeout, guarded on its kind still being in flight. *)
Bug_timeout_keeps_target(k) ==
  /\ watchdog = k
  /\ watchdog' = None
  /\ IF awaiting = k
       THEN awaiting' = None /\ shown' = "silent"
       ELSE UNCHANGED <<awaiting, shown>>
  /\ UNCHANGED <<target, heard, burnVars, worker, posted, auto, session, logging, dialogs>>

Bug_timeout_unguarded(k) ==
  /\ watchdog = k
  /\ watchdog' = None
  /\ awaiting' = None
  /\ shown' = "silent"
  /\ TakeTarget(k)
  /\ UNCHANGED <<heard, burnVars, worker, posted, auto, session, logging, dialogs>>

response_timeout(k) ==
  /\ watchdog = k
  /\ watchdog' = None
  /\ IF awaiting = k
       THEN awaiting' = None /\ shown' = "silent" /\ TakeTarget(k)
       ELSE UNCHANGED <<awaiting, shown, target>>
  /\ UNCHANGED <<heard, burnVars, worker, posted, auto, session, logging, dialogs>>

----------------------------------------------------------------------------
(* The Remote Programming session, seen from the lock (the controller has  *)
(* a module of its own, which shows that a start let through here is never *)
(* refused).                                                               *)

SessionReleased == IF awaiting = "remote_programming" THEN None ELSE awaiting

rp_start ==
  /\ Clickable /\ CanSend
  /\ session' = TRUE
  /\ awaiting' = "remote_programming"
  /\ UNCHANGED <<watchdog, target, burnVars, histVars, worker, posted, auto, logging, dialogs>>

(* _finish, from one of the controller's timers or the Cancel button. *)
rp_session_finished ==
  /\ session
  /\ session' = FALSE
  /\ awaiting' = SessionReleased
  /\ UNCHANGED <<watchdog, target, burnVars, histVars, worker, posted, auto, logging, dialogs>>

----------------------------------------------------------------------------
(* The Burn Test.  Its worker thread posts "error" and "stopped" when it   *)
(* cannot bind, and "stopped" as the last thing it does otherwise; stop()  *)
(* waits for the thread, so "stopped" is posted when stop() returns.       *)

burn_test_stop(lock) ==
  /\ burn' = "off"
  /\ burnPosted' = IF burn \in {"binding", "running"}
                     THEN burnPosted \cup {"stopped"} ELSE burnPosted
  /\ burnLog' = IF burn = "off" /\ burnLog = "open" THEN "closed" ELSE burnLog
  /\ awaiting' = IF lock = "burn_test" THEN None ELSE lock

(* _disconnect: cancel (which releases a session's lock), the burn test's  *)
(* cleanup, every toggle off, then the worker.                             *)
disconnect ==
  /\ session' = FALSE
  /\ burn_test_stop(IF session THEN SessionReleased ELSE awaiting)
  /\ auto' = {}
  /\ worker' = "off"

(* The connect button acts as Disconnect while there is a worker, and a    *)
(* change of the connection fields disconnects at any time.                *)
disconnect_clicked ==
  /\ Clickable /\ worker # "off"
  /\ disconnect
  /\ UNCHANGED <<watchdog, target, histVars, posted, logging, dialogs>>

(* The worker thread died: its own "Stopped" reaches _on_connect_status.   *)
worker_died ==
  /\ worker = "up"
  /\ disconnect
  /\ UNCHANGED <<watchdog, target, histVars, posted, logging, dialogs>>

(* Connect, also from _on_open_responder_clicked and _on_open_rp_tester_-  *)
(* clicked, which do not look whether a burn test has the port.            *)
connect ==
  /\ Clickable /\ worker = "off"
  /\ worker' = "starting"
  /\ UNCHANGED <<lockVars, burnVars, histVars, posted, auto, session, logging, dialogs>>

listening ==
  /\ worker = "starting"
  /\ worker' = "up"
  /\ UNCHANGED <<lockVars, burnVars, histVars, posted, auto, session, logging, dialogs>>

(* Only the reference is dropped: session, toggles and lock stay. *)
bind_failed ==
  /\ worker = "starting"
  /\ worker' = "off"
  /\ UNCHANGED <<lockVars, burnVars, histVars, posted, auto, session, logging, dialogs>>

(* Start asks for confirmation. *)
burn_test_start ==
  /\ Clickable /\ CanSend
  /\ burn = "off"
  /\ dialogs' = Append(dialogs, "burn_confirm")
  /\ UNCHANGED <<lockVars, burnVars, histVars, worker, posted, auto, session, logging>>

burn_refused ==
  /\ ~Clickable /\ Top = "burn_confirm"
  /\ CloseDialog
  /\ UNCHANGED <<lockVars, burnVars, histVars, worker, posted, auto, session, logging>>

(* Yes, and the log that was asked for cannot be opened. *)
burn_log_refused ==
  /\ ~Clickable /\ Top = "burn_confirm" /\ burnPosted = {}
  /\ CloseDialog
  /\ burnLog' = "closed"
  /\ UNCHANGED <<lockVars, burn, burnPosted, histVars, worker, posted, auto, session, logging>>

(* Yes: open the log if one was asked for, stop the toggles, then hand the *)
(* port over.  The dialog's own event loop has delivered what an earlier   *)
(* run posted.  If the connection was lost while the dialog was open there *)
(* is no worker left and the slot ends in an AttributeError.               *)
Bug_burn_confirmed_disconnects(log) ==
  /\ ~Clickable /\ Top = "burn_confirm" /\ burnPosted = {}
  /\ CloseDialog
  /\ auto' = {}
  /\ burnLog' = IF log THEN "closed" ELSE "none"
  /\ IF worker # "off"
       THEN worker' = "off" /\ burn' = "binding" /\ awaiting' = "burn_test"
       ELSE UNCHANGED <<worker, burn, awaiting>>
  /\ UNCHANGED <<watchdog, target, burnPosted, histVars, posted, session, logging>>

burn_confirmed(log) ==
  /\ ~Clickable /\ Top = "burn_confirm" /\ burnPosted = {}
  /\ CloseDialog
  /\ auto' = {}
  /\ burnLog' = IF log \/ burnLog = "open" THEN "open" ELSE "none"
  /\ IF worker # "off"
       THEN worker' = "off" /\ burn' = "binding" /\ awaiting' = "burn_test"
       ELSE UNCHANGED <<worker, burn, awaiting>>
  /\ UNCHANGED <<watchdog, target, burnPosted, histVars, posted, session, logging>>

(* append_rows met a write error. *)
burn_log_failed ==
  /\ burnLog = "open" /\ burn \in {"running", "off"}
  /\ burnLog' = "failed"
  /\ UNCHANGED <<lockVars, burn, burnPosted, histVars, worker, posted, auto, session,
                 logging, dialogs>>

burn_bound ==
  /\ burn = "binding"
  /\ burn' = "running"
  /\ UNCHANGED <<lockVars, burnPosted, burnLog, histVars, worker, posted, auto, session,
                 logging, dialogs>>

burn_bind_failed ==
  /\ burn = "binding"
  /\ burn' = "dead"
  /\ burnPosted' = {"error", "stopped"}
  /\ UNCHANGED <<lockVars, burnLog, histVars, worker, posted, auto, session, logging, dialogs>>

(* _on_burn_test_stop_clicked: the cleanup, and a new connection if this   *)
(* run had taken the old one away.                                         *)
StopAndReconnect ==
  /\ burn_test_stop(awaiting)
  /\ worker' = IF burn # "off" /\ worker = "off" THEN "starting" ELSE worker

burn_test_stop_clicked ==
  /\ Clickable /\ burn # "off"
  /\ StopAndReconnect
  /\ UNCHANGED <<watchdog, target, histVars, posted, auto, session, logging, dialogs>>

(* Signals of one thread arrive in the order they were emitted. *)
burn_test_error ==
  /\ "error" \in burnPosted
  /\ burnPosted' = burnPosted \ {"error"}
  /\ dialogs' = Append(dialogs, "burn_error")
  /\ UNCHANGED <<lockVars, burn, burnLog, histVars, worker, posted, auto, session, logging>>

burn_error_closed ==
  /\ ~Clickable /\ Top = "burn_error"
  /\ CloseDialog
  /\ StopAndReconnect
  /\ UNCHANGED <<watchdog, target, histVars, posted, auto, session, logging>>

burn_test_stopped ==
  /\ burnPosted = {"stopped"}
  /\ burnPosted' = {}
  /\ burnLog' = IF burnLog = "open" THEN "closed" ELSE burnLog
  /\ UNCHANGED <<lockVars, burn, histVars, worker, posted, auto, session, logging, dialogs>>

----------------------------------------------------------------------------
(* Received frames.  The socket thread posts them; they are delivered even *)
(* after the worker was stopped.                                           *)
post_frame ==
  /\ worker = "up"
  /\ posted < MaxPosted
  /\ posted' = posted + 1
  /\ UNCHANGED <<lockVars, burnVars, histVars, worker, auto, session, logging, dialogs>>

(* log_rx parses a 90-byte header before anything else looks at the frame: *)
(* with the data log on a bare frame raises there and the slot ends.       *)
BareFrameRaises ==
  /\ heard' = IF awaiting \in Kinds THEN "unseen" ELSE heard
  /\ UNCHANGED <<lockVars, shown, session>>

SessionFrame ==
  /\ session' \in {FALSE, session}
  /\ awaiting' = IF session /\ ~session' THEN SessionReleased ELSE awaiting
  /\ UNCHANGED <<watchdog, target, histVars>>

(* What the tab of the answered command shows.  A frame within 100 ms of   *)
(* the last repaint is not displayed, nor is one that does not parse: the  *)
(* tab stays pending.                                                      *)
Verdict(bare, displayed, parses) ==
  IF awaiting \in BareKinds THEN (IF bare THEN "result" ELSE "mismatch")
  ELSE IF ~bare /\ displayed /\ parses THEN "result" ELSE shown

Bug_reply_keeps_lock(bare, displayed, parses) ==
  /\ UNCHANGED <<watchdog, awaiting, session>>
  /\ IF awaiting \in Kinds
       THEN heard' = "frame" /\ shown' = Verdict(bare, displayed, parses)
                             /\ TakeTarget(awaiting)
       ELSE UNCHANGED <<target, histVars>>

CommandFrame(bare, displayed, parses) ==
  /\ watchdog' = None
  /\ awaiting' = None
  /\ UNCHANGED session
  /\ IF awaiting \in Kinds
       THEN heard' = "frame" /\ shown' = Verdict(bare, displayed, parses)
                             /\ TakeTarget(awaiting)
       ELSE UNCHANGED <<target, histVars>>

on_frame_received(bare, displayed, parses) ==
  /\ posted > 0
  /\ posted' = posted - 1
  /\ IF logging /\ bare THEN BareFrameRaises
     ELSE IF awaiting = "remote_programming" THEN SessionFrame
     ELSE CommandFrame(bare, displayed, parses)
  /\ UNCHANGED <<burnVars, worker, auto, logging, dialogs>>

(* log_rx could not write its row: the log stops itself and warns, and the *)
(* rest of the slot runs when the dialog is closed, on whatever the lock   *)
(* is then.                                                                *)
frame_log_failed ==
  /\ posted > 0 /\ logging
  /\ posted' = posted - 1
  /\ logging' = FALSE
  /\ dialogs' = Append(dialogs, "log_error")
  /\ heard' = IF awaiting \in Kinds THEN "unseen" ELSE heard
  /\ UNCHANGED <<lockVars, burnVars, shown, worker, auto, session>>

log_error_closed(displayed, parses) ==
  /\ ~Clickable /\ Top = "log_error"
  /\ CloseDialog
  /\ IF awaiting = "remote_programming" THEN SessionFrame
     ELSE CommandFrame(FALSE, displayed, parses)
  /\ UNCHANGED <<burnVars, worker, posted, auto, logging>>

(* The data log: the menu starts and stops it, a write error stops it (the *)
(* one outside a received frame here).                                     *)
log_toggled ==
  /\ Clickable
  /\ logging' = ~logging
  /\ UNCHANGED <<lockVars, burnVars, histVars, worker, posted, auto, session, dialogs>>

log_failed ==
  /\ logging
  /\ logging' = FALSE
  /\ UNCHANGED <<lockVars, burnVars, histVars, worker, posted, auto, session, dialogs>>

----------------------------------------------------------------------------
Init ==
  /\ worker = "off"
  /\ posted = 0
  /\ awaiting = None
  /\ watchdog = None
  /\ target = [k \in TargetKinds |-> None]
  /\ auto = {}
  /\ session = FALSE
  /\ burn = "off"
  /\ burnPosted = {}
  /\ burnLog = "none"
  /\ logging = FALSE
  /\ dialogs = <<>>
  /\ shown = "none"
  /\ heard = "nothing"

Commands ==
  \/ \E k \in Kinds, t \in QTRM : Send(k, t)
  \/ \E k \in AutoKinds : stop_auto_resend(k)
  \/ \E k \in AutoKinds, resend \in BOOLEAN : SendAll(k, resend)
  \/ \E k \in AutoKinds : SendAllRefused(k) \/ SendAllLogFails(k)
  \/ toggle_resumed
  \/ \E k \in AutoKinds : resend_tick(k)
  \/ \E k \in Kinds : response_timeout(k)

Sessions == rp_start \/ rp_session_finished

Connection ==
  connect \/ listening \/ bind_failed \/ disconnect_clicked \/ worker_died

BurnTest ==
  \/ burn_test_start \/ burn_refused
  \/ burn_log_refused \/ (\E log \in BOOLEAN : burn_confirmed(log)) \/ burn_log_failed
  \/ burn_bound \/ burn_bind_failed
  \/ burn_test_stop_clicked
  \/ burn_test_error \/ burn_error_closed \/ burn_test_stopped

Frames ==
  \/ post_frame
  \/ \E bare, displayed, parses \in BOOLEAN : on_frame_received(bare, displayed, parses)
  \/ frame_log_failed
  \/ \E displayed, parses \in BOOLEAN : log_error_closed(displayed, parses)
  \/ log_toggled \/ log_failed

Next == Commands \/ Sessions \/ Connection \/ BurnTest \/ Frames

Spec == Init /\ [][Next]_vars

(* Qt delivers the timeout of a running timer. *)
FairSpec == Spec /\ WF_vars(\E k \in Kinds : response_timeout(k))

----------------------------------------------------------------------------
(* Properties.                                                             *)

Owners == Kinds \cup {"remote_programming", "burn_test"}
Suspended == AutoKinds \cup {"burn_confirm", "burn_error", "log_error"}

(* The state has the shape the code gives it: the lock has an owner the    *)
(* dispatch table or a session knows, a target is a QTRM or None.          *)
TypeOK ==
  /\ worker \in {"off", "starting", "up"}
  /\ posted \in 0..MaxPosted
  /\ awaiting \in Owners \cup {None}
  /\ watchdog \in Kinds \cup {None}
  /\ target \in [TargetKinds -> QTRM \cup {None}]
  /\ auto \subseteq AutoKinds
  /\ session \in BOOLEAN
  /\ burn \in {"off", "binding", "running", "dead"}
  /\ burnPosted \subseteq {"error", "stopped"}
  /\ burnLog \in {"none", "open", "closed", "failed"}
  /\ logging \in BOOLEAN
  /\ dialogs \in Seq(Suspended)
  /\ shown \in {"none", "pending", "result", "silent", "mismatch"}
  /\ heard \in {"nothing", "frame", "unseen"}

(* _begin_wait: "so the latched kind and the armed watchdog can never      *)
(* disagree".  A command in flight always has its own watchdog running,    *)
(* whatever a resend tick, a session or a burn test did to the lock.       *)
WatchdogMatches == awaiting \in Kinds => watchdog = awaiting

(* _take_target: a stale target is never left for a later frame, and a     *)
(* single-QTRM command in flight never lost its own (r[None] would raise). *)
TargetLatched == \A k \in TargetKinds : target[k] # None <=> awaiting = k

(* The controller has a session exactly while the lock is its own, through *)
(* timeouts of older commands, burn tests, lost connections and frames.    *)
SessionHoldsLock == session <=> awaiting = "remote_programming"

(* What a tab says of its command is what happened: no answer only if no   *)
(* frame was taken for one, a result only from a frame, and while the lock *)
(* is held neither has been decided.                                       *)
VerdictIsEarned ==
  /\ shown = "silent" => heard # "frame"
  /\ shown \in {"result", "mismatch"} => heard = "frame"
  /\ awaiting \in Kinds => shown = "pending" /\ heard # "frame"

(* A burn test that was started with a log never runs with the log closed  *)
(* under it (a write error aside, which it reports).                       *)
LogFollowsRun == burn \in {"binding", "running"} => burnLog # "closed"

(* The lock passes from one owner to another only through None, but for    *)
(* the burn test, whose confirmation lets a resend tick in between.        *)
NoStealing ==
  [][awaiting # None /\ awaiting' # awaiting
       => awaiting' = None \/ (awaiting \in AutoKinds /\ awaiting' = "burn_test")]_vars

(* Every wait ends by itself, unless a resend toggle keeps renewing it.    *)
WaitsEnd == \A k \in Kinds : awaiting = k ~> (awaiting # k \/ k \in auto)

(* _on_response_timeout: "Nothing came back within RESPONSE_TIMEOUT_MS".   *)
SilenceIsReal == shown = "silent" => heard = "nothing"

(* Burn Test: "holding the _awaiting_kind busy-lock for the whole run".    *)
BurnHoldsLock == burn = "running" => awaiting = "burn_test"
=============================================================================
