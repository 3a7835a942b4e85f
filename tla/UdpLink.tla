------------------------------- MODULE UdpLink -------------------------------
(***************************************************************************)
(* The interactive link with its log: UdpWorker and FrameLogger share the  *)
(* GUI thread.  frame_sent is emitted inside send_frame, so the log sees a *)
(* query before the slot ends; frame_received is posted, so it sees the    *)
(* reply when the event loop gets to it, perhaps after later queries.      *)
(***************************************************************************)
EXTENDS UdpWorker, FrameLogger

linkLogVars == <<udpVars, logVars>>

LinkInit(ended, taken) == UdpInit(ended, taken) /\ LogInit

(* What reaches the log of a frame: a negative time is an empty cell.      *)
Since(s) == IF s.past THEN s.since ELSE None

Sent == SendTo /\ \E fails \in BOOLEAN : log_tx(number, fails)

Received ==
  /\ on_frame
  /\ \E good, fails \in BOOLEAN :
       log_rx(Head(posted).n, Since(Head(posted)), good, fails)

Log ==
  /\ gui = "idle"
  /\ \/ log_start
     \/ \E fails \in BOOLEAN : log_stop(fails) \/ pending_expired(fails)
  /\ UNCHANGED udpVars

LinkNext == Sent \/ Received \/ Log \/ (Quiet /\ UNCHANGED logVars)

LinkSpec == LinkInit({}, 0) /\ [][LinkNext]_linkLogVars

(* Threads are scheduled, a slot that runs goes on, posted signals are     *)
(* delivered and the pending query's timer fires.  The operator and the    *)
(* network owe nothing.                                                    *)
Expires ==
  gui = "idle" /\ UNCHANGED udpVars /\ \E fails \in BOOLEAN : pending_expired(fails)

LinkFairness ==
  /\ \A w \in Workers : WF_linkLogVars(Run(w) /\ UNCHANGED logVars)
  /\ WF_linkLogVars(Sent \/ Received \/ (Slots /\ UNCHANGED logVars))
  /\ WF_linkLogVars(Expires)

----------------------------------------------------------------------------

(* A row that says OK is about the reply to that very query, and the delay *)
(* in it, if any, was measured from that query's send - not from an older  *)
(* one, nor from a later one that came between the reply and its display.  *)
(* The exceptions: a later send that failed, which had stamped its time,   *)
(* and an old worker left listening, which keeps a time of its own.        *)
OkRowTimedRight ==
  lost \cup dropped = {} => \A n \in Sends :
    (rows[n] # None /\ rows[n].result = "OK") =>
      rows[n].reply = n /\ rows[n].since \in {n, None} \cup failed

(* Each query of the log has its one row, and an OK row is its own.        *)
RowsSound == RowPerQuery /\ OkRowTimedRight

(* main_window.py:984: a worker whose thread ends by itself is noticed and *)
(* forgotten, whatever the window was doing when it ended.                 *)
DeadLinkNoticed == \A w \in Workers : (worker = w /\ Finished(w)) ~> (worker # w)

(* Nothing that has come to its end lingers: a dead connection is          *)
(* forgotten, a query in an open log gets its row.                         *)
NothingLingers == DeadLinkNoticed /\ QueriesEnd
=============================================================================
