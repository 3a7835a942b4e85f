------------------------------ MODULE UdpWorker ------------------------------
(***************************************************************************)
(* core/udp_worker.py and the slots of main_window.py that own its life.   *)
(* Two threads share the attributes of a UdpWorker without a lock: the GUI *)
(* thread (send_frame, stop) and the worker's own (run).  CPython switches *)
(* threads at calls and loops, so a step here is the code between two such *)
(* points that touch what the other thread sees.  Each Connect creates a   *)
(* worker; the signals of all of them wait in one queue of the GUI thread. *)
(*                                                                         *)
(* QThread.wait(2000) outlasts recvfrom's timeout of 0.5 s: stop returns   *)
(* when the thread is over, or late when the thread does not end at all.   *)
(***************************************************************************)
EXTENDS UdpFrames, Sequences

CONSTANTS
  MaxWorkers,  \* bound on the connections made
  SplitPorts   \* source_port # local_port: a second socket to send from

ASSUME UdpWorkerAssumption ==
  MaxWorkers \in Nat /\ SplitPorts \in BOOLEAN

Workers == 1 .. MaxWorkers

VARIABLES
  worker,    \* self.worker of the main window
  gui,       \* where the GUI thread is: "idle" (in its event loop), "sending"
             \* (in send_frame), "stopping" (in stop, the slot then ends),
             \* "reconnecting" (in stop, the same slot then connects)
  pc,        \* where each worker's thread is
  running,   \* _running
  last,      \* _last_send_time, as the number of the send
  got,       \* the frame a thread has in hand, and the sends stamped before it
  posted,    \* signals posted, oldest first
  number,    \* frames built so far; a frame's number names its send
  air,       \* queries or their replies on the network
  \* history
  early,     \* workers whose send socket sent before it was bound
  failed,    \* sends that failed
  lost,      \* workers whose stop gave up waiting
  dropped    \* workers forgotten without a stop

linkVars   == <<worker, gui>>
threadVars == <<pc, running, last, got>>
histVars   == <<early, failed, lost, dropped>>
udpVars    == <<linkVars, threadVars, posted, number, air, histVars>>

(* No connection; the workers in `ended' and `taken' frames were before.   *)
UdpInit(ended, taken) ==
  /\ worker = None /\ gui = "idle"
  /\ pc = [w \in Workers |-> IF w \in ended THEN "over" ELSE "unborn"]
  /\ running = [w \in Workers |-> FALSE]
  /\ last = [w \in Workers |-> None]
  /\ got = [w \in Workers |-> None]
  /\ posted = <<>> /\ number = taken /\ air = {}
  /\ early = {} /\ failed = {} /\ lost = {} /\ dropped = {}

Finished(w) == pc[w] \in {"nobind", "halfbind", "over"}

(* _send_sock as the GUI thread finds it.  When the first bind failed, and *)
(* before the second socket exists, it is None.                            *)
SendSock(w) ==
  CASE pc[w] \in {"half", "halfbind"} -> "unbound"
    [] pc[w] \in {"open", "loop", "recv", "got", "ending"} -> "bound"
    [] pc[w] = "closed" -> "closed"
    [] OTHER -> None

(* The worker holds the local port.  The sockets of a run that failed half *)
(* way go with the object.                                                 *)
Listens(w) ==
  \/ pc[w] \in {"bound", "half", "open", "loop", "recv", "got", "ending"}
  \/ pc[w] = "halfbind" /\ worker = w

(* The status signal is disconnected before a stop and only there.         *)
Connected(w) == w \in dropped \/ (worker = w /\ gui \in {"idle", "sending"})

Signal(kind, w, n, since, past) ==
  [kind |-> kind, w |-> w, n |-> n, since |-> since, past |-> past]
Status(kind, w) == Signal(kind, w, None, None, TRUE)

----------------------------------------------------------------------------
(* The worker's thread: run.                                               *)

(* As elsewhere an operator Bug_... is a plausible defect of the next      *)
(* definition, for the mutants only.                                       *)

Goes(w, from, to) == pc[w] = from /\ pc' = [pc EXCEPT ![w] = to]

BindRecv(w) ==
  /\ \/ Goes(w, "starting", "bound") /\ UNCHANGED posted
     \/ /\ Goes(w, "starting", "nobind")
        /\ posted' = Append(posted, Status("bind_failed", w))
  /\ UNCHANGED <<linkVars, running, last, got, number, air, histVars>>

(* _send_sock is assigned before the second socket is bound.               *)
MakeSend(w) ==
  /\ Goes(w, "bound", IF SplitPorts THEN "half" ELSE "open")
  /\ UNCHANGED <<linkVars, running, last, got, posted, number, air, histVars>>

(* A socket that has sent is bound to a port already and cannot be again.  *)
BindSend(w) ==
  /\ \/ w \notin early /\ Goes(w, "half", "open") /\ UNCHANGED posted
     \/ /\ Goes(w, "half", "halfbind")
        /\ posted' = Append(posted, Status("bind_failed", w))
  /\ UNCHANGED <<linkVars, running, last, got, number, air, histVars>>

SetRunning(w) ==
  /\ Goes(w, "open", "loop")
  /\ running' = [running EXCEPT ![w] = TRUE]
  /\ UNCHANGED <<linkVars, last, got, posted, number, air, histVars>>

LoopTest(w) ==
  /\ Goes(w, "loop", IF running[w] THEN "recv" ELSE "ending")
  /\ UNCHANGED <<linkVars, running, last, got, posted, number, air, histVars>>

(* recvfrom returns a frame: a reply of any age, perhaps for a second time *)
(* (again).  recv_time is taken at once: `seen' are the sends before it.   *)
Receive(w, n, again) ==
  /\ Len(posted) < MaxPosted
  /\ n \in air
  /\ Goes(w, "recv", "got")
  /\ got' = [got EXCEPT ![w] = [n |-> n, seen |-> number]]
  /\ air' = IF again THEN air ELSE air \ {n}
  /\ UNCHANGED <<linkVars, running, last, posted, number, histVars>>

(* Nothing for 0.5 s.                                                      *)
RecvTimeout(w) ==
  /\ Goes(w, "recv", "loop")
  /\ UNCHANGED <<linkVars, running, last, got, posted, number, air, histVars>>

(* A frame of a wrong size is dropped; the network may lose one as well.   *)
Lose(n) ==
  /\ n \in air
  /\ air' = air \ {n}
  /\ UNCHANGED <<linkVars, threadVars, posted, number, histVars>>

RecvError(w) ==
  /\ Goes(w, "recv", "ending")
  /\ UNCHANGED <<linkVars, running, last, got, posted, number, air, histVars>>

(* The elapsed time is taken from the last send and used up.  A send since *)
(* recv_time makes it negative (past is FALSE).                            *)
Emit(w) ==
  LET f == got[w] IN
  /\ Goes(w, "got", "loop")
  /\ posted' = Append(posted, Signal("frame", w, f.n, last[w],
                                     last[w] = None \/ last[w] <= f.seen))
  /\ got' = [got EXCEPT ![w] = None]
  /\ last' = [last EXCEPT ![w] = None]
  /\ UNCHANGED <<linkVars, running, number, air, histVars>>

CloseSockets(w) ==
  /\ Goes(w, "ending", "closed")
  /\ UNCHANGED <<linkVars, running, last, got, posted, number, air, histVars>>

EndRun(w) ==
  /\ Goes(w, "closed", "over")
  /\ posted' = IF Connected(w) THEN Append(posted, Status("stopped", w)) ELSE posted
  /\ UNCHANGED <<linkVars, running, last, got, number, air, histVars>>

Run(w) ==
  \/ BindRecv(w) \/ MakeSend(w) \/ BindSend(w) \/ SetRunning(w) \/ LoopTest(w)
  \/ RecvTimeout(w) \/ RecvError(w) \/ Emit(w) \/ CloseSockets(w) \/ EndRun(w)
  \/ \E n \in air, again \in BOOLEAN : Receive(w, n, again)

----------------------------------------------------------------------------
(* The GUI thread.                                                         *)

(* _on_connect_clicked without a worker.                                   *)
NextWorker(w) == pc[w] = "unborn" /\ \A v \in Workers : v < w => pc[v] # "unborn"

Connect(w) ==
  /\ gui = "idle" /\ worker = None
  /\ NextWorker(w)
  /\ worker' = w
  /\ pc' = [pc EXCEPT ![w] = "starting"]
  /\ UNCHANGED <<gui, running, last, got, posted, number, air, histVars>>

(* _disconnect, or the burn test taking the port: the first half of stop.  *)
StopWorker(then) ==
  /\ worker # None
  /\ running' = [running EXCEPT ![worker] = FALSE]
  /\ gui' = then

(* The Disconnect button or an edited field.  A mock that opens edits the  *)
(* fields and connects in one slot.                                        *)
Disconnect(then) ==
  /\ gui = "idle" /\ then \in {"stopping", "reconnecting"}
  /\ StopWorker(then)
  /\ UNCHANGED <<worker, pc, last, got, posted, number, air, histVars>>

Bug_StopReturns_no_wait ==
  /\ gui = "stopping"
  /\ worker' = None /\ gui' = "idle"
  /\ UNCHANGED <<threadVars, posted, number, air, histVars>>

(* The second half: wait returns, self.worker is forgotten and the slot    *)
(* ends or connects anew.                                                  *)
StopReturns ==
  /\ gui \in {"stopping", "reconnecting"}
  /\ Finished(worker) \/ running[worker]
  /\ lost' = IF Finished(worker) THEN lost ELSE lost \cup {worker}
  /\ gui' = "idle"
  /\ \/ /\ gui = "stopping" \/ \A w \in Workers : pc[w] # "unborn"
        /\ worker' = None /\ UNCHANGED pc
     \/ /\ gui = "reconnecting"
        /\ \E w \in Workers : /\ NextWorker(w)
                              /\ worker' = w
                              /\ pc' = [pc EXCEPT ![w] = "starting"]
  /\ UNCHANGED <<running, last, got, posted, number, air, early, failed, dropped>>

(* send_frame up to the socket: refused while there is none, else the time *)
(* is stamped.  The frame took a number either way.                        *)
SendFrame ==
  /\ gui = "idle" /\ worker # None
  /\ number < MaxSends
  /\ number' = number + 1
  /\ IF SendSock(worker) = None
     THEN failed' = failed \cup {number'} /\ UNCHANGED <<gui, last>>
     ELSE /\ gui' = "sending"
          /\ last' = [last EXCEPT ![worker] = number']
          /\ UNCHANGED failed
  /\ UNCHANGED <<worker, pc, running, got, posted, air, early, lost, dropped>>

(* sendto succeeds, and frame_sent is emitted on the GUI thread itself.    *)
SendTo ==
  /\ gui = "sending"
  /\ SendSock(worker) \in {"unbound", "bound"}
  /\ gui' = "idle"
  /\ air' = air \cup {number}
  /\ early' = IF SendSock(worker) = "unbound" THEN early \cup {worker} ELSE early
  /\ UNCHANGED <<worker, threadVars, posted, number, failed, lost, dropped>>

(* It raises OSError, or AttributeError when the thread has forgotten the  *)
(* socket since: then the time stays.                                      *)
SendFails ==
  /\ gui = "sending"
  /\ gui' = "idle"
  /\ failed' = failed \cup {number}
  /\ last' = IF SendSock(worker) = None THEN last ELSE [last EXCEPT ![worker] = None]
  /\ UNCHANGED <<worker, pc, running, got, posted, number, air, early, lost, dropped>>

Delivers(kind) ==
  /\ gui = "idle" /\ posted # <<>> /\ Head(posted).kind = kind
  /\ posted' = Tail(posted)

(* _on_connect_status("Stopped"): the connection was lost.                 *)
on_stopped ==
  /\ Delivers("stopped")
  /\ IF worker # None THEN StopWorker("stopping") ELSE UNCHANGED <<gui, running>>
  /\ UNCHANGED <<worker, pc, last, got, number, air, histVars>>

(* _on_worker_error("Failed to bind ...").                                 *)
on_bind_failed ==
  /\ Delivers("bind_failed")
  /\ worker' = None
  /\ dropped' = dropped \cup ({worker} \ {None})
  /\ UNCHANGED <<gui, threadVars, number, air, early, failed, lost>>

(* _on_frame_received, as far as the worker goes.                          *)
on_frame ==
  /\ Delivers("frame")
  /\ UNCHANGED <<linkVars, threadVars, number, air, histVars>>

(* Everything the log sees nothing of.                                     *)
Slots == StopReturns \/ SendFails \/ on_stopped \/ on_bind_failed

Quiet ==
  \/ Slots \/ SendFrame
  \/ \E w \in Workers : Connect(w) \/ Run(w)
  \/ \E then \in {"stopping", "reconnecting"} : Disconnect(then)
  \/ \E n \in air : Lose(n)

UdpNext == Quiet \/ SendTo \/ on_frame

----------------------------------------------------------------------------

(* While the GUI thread is in its event loop the local port is held by the *)
(* current worker alone: whoever was stopped has let go of it, so a burn   *)
(* test or the next worker can have it.  Two kinds of worker are excepted: *)
(* those whose stop was overwritten by their own start, and those that a   *)
(* failed bind made the window forget.                                     *)
PortIsFree ==
  gui = "idle" => \A w \in Workers : Listens(w) => w = worker \/ w \in lost \cup dropped
=============================================================================
