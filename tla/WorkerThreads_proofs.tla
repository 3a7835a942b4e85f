------------------------ MODULE WorkerThreads_proofs ------------------------
(***************************************************************************)
(* Machine-checked proofs about the worker threads, for any number of      *)
(* connections, burn tests, frames, signals and rows.                      *)
(***************************************************************************)
EXTENDS MCWorkerThreads, FiniteSetTheorems, SequenceTheorems, TLAPS

----------------------------------------------------------------------------
(* The interactive link and its log.                                       *)

OrNone(S) == S \cup {None}

Signals == [kind : {"frame", "stopped", "bind_failed"}, w : Workers,
            n : OrNone(Sends), since : OrNone(Sends), past : BOOLEAN]

UdpTypes ==
  /\ worker \in OrNone(Workers)
  /\ gui \in {"idle", "sending", "stopping", "reconnecting"}
  /\ pc \in [Workers -> {"unborn", "starting", "bound", "half", "open", "loop", "recv",
                         "got", "ending", "closed", "nobind", "halfbind", "over"}]
  /\ running \in [Workers -> BOOLEAN]
  /\ last \in [Workers -> OrNone(Sends)]
  /\ DOMAIN got = Workers
  /\ \A w \in Workers : pc[w] = "got" => got[w] \in [n : Sends, seen : Nat]
  /\ posted \in Seq(Signals)
  /\ number \in 0 .. MaxSends

LogRows == [result : Results, reply : OrNone(Nat), since : OrNone(Nat)]

LogTypes ==
  /\ file \in {"open", "closed", "failed"}
  /\ pending \in OrNone(Sends)
  /\ flushTimer \in BOOLEAN
  /\ asked \subseteq 1 .. number
  /\ rows \in [Sends -> OrNone(LogRows)]

(* A thread that holds the port or will is the current worker's, or one of *)
(* those that PortIsFree excepts.                                          *)
Alive(w) == pc[w] \in {"starting", "bound", "half", "open", "loop", "recv", "got", "ending"}

PortShape ==
  /\ gui # "idle" => worker # None
  /\ \A w \in Workers : Alive(w) => w = worker \/ w \in lost \cup dropped

(* A frame is on the network only after its send has succeeded; a query is *)
(* asked of an open log just then.                                         *)
SendShape ==
  /\ failed \subseteq 1 .. number
  /\ air \subseteq 1 .. number
  /\ air \cap failed = {}
  /\ \A w \in Workers : /\ last[w] # None => last[w] <= number
                        /\ pc[w] = "got" => got[w].n <= number
  /\ gui = "sending" => number >= 1 /\ number \notin air \cup failed \cup asked

(* Since the current worker's last stamp, and since the pending query was  *)
(* sent, every send has failed, but perhaps one that is still under way.   *)
StampShape ==
  /\ worker # None /\ last[worker] # None =>
       \A m \in 1 .. number : m > last[worker] => m \in failed
  /\ \A w \in Workers : pc[w] = "unborn" => last[w] = None
  /\ file = "open" /\ pending # None =>
       /\ pending \in asked
       /\ \A m \in 1 .. number :
            m > pending => m \in failed \/ (m = number /\ gui = "sending")

(* A reply in hand or on its way to its slot carries the time of its own   *)
(* send or of a later one.                                                 *)
ReplyShape ==
  lost \cup dropped = {} =>
    /\ \A w \in Workers : pc[w] = "got" => last[w] = None \/ got[w].n <= last[w]
    /\ \A i \in 1 .. Len(posted) : posted[i].kind = "frame" =>
         /\ posted[i].n \in 1 .. number
         /\ posted[i].since # None => posted[i].since \in posted[i].n .. number

(* A query without a row is the pending one; what was not asked has none.  *)
RowShape ==
  /\ file = "closed" => pending = None
  /\ \A n \in Sends \ asked : rows[n] = None
  /\ RowPerQuery

LinkInv ==
  /\ UdpTypes /\ LogTypes
  /\ PortShape /\ SendShape /\ StampShape /\ ReplyShape /\ RowShape
  /\ OkRowTimedRight

LEMMA NoneIsNoNumber == None \notin Nat /\ None \notin Workers /\ None \notin Sends
BY UdpFramesAssumption DEF Workers, Sends

LEMMA NumberIsNat == UdpTypes => number \in Nat
BY UdpFramesAssumption DEF UdpTypes

LEMMA InitLink ==
  ASSUME NEW ended, NEW taken \in 0 .. MaxSends
  PROVE  LinkInit(ended, taken) => LinkInv
<1> SUFFICES ASSUME LinkInit(ended, taken) PROVE LinkInv
  OBVIOUS
<1> USE DEF LinkInit, UdpInit, LogInit
<1>1. UdpTypes
  BY EmptySeq, UdpFramesAssumption DEF UdpTypes, OrNone
<1>2. LogTypes /\ RowShape /\ OkRowTimedRight
  BY DEF LogTypes, OrNone, RowShape, RowPerQuery, OkRowTimedRight
<1>3. PortShape /\ SendShape /\ StampShape /\ ReplyShape
  BY EmptySeq DEF PortShape, Alive, SendShape, StampShape, ReplyShape
<1> QED BY <1>1, <1>2, <1>3 DEF LinkInv

(* What is posted last, and what stays when the first is delivered.        *)
LEMMA Posts ==
  ASSUME UdpTypes, NEW s \in Signals, posted' = Append(posted, s)
  PROVE  /\ posted' \in Seq(Signals)
         /\ \A i \in 1 .. Len(posted') : posted'[i] = s \/
              (i \in 1 .. Len(posted) /\ posted'[i] = posted[i])
BY AppendProperties DEF UdpTypes

LEMMA Takes ==
  ASSUME UdpTypes, posted # <<>>, posted' = Tail(posted)
  PROVE  /\ posted' \in Seq(Signals)
         /\ Head(posted) = posted[1] /\ 1 \in 1 .. Len(posted)
         /\ \A i \in 1 .. Len(posted') :
              i + 1 \in 1 .. Len(posted) /\ posted'[i] = posted[i + 1]
<1> posted \in Seq(Signals)
  BY DEF UdpTypes
<1> QED BY HeadTailProperties, EmptySeq

(* The types of the worker, one step at a time.                            *)
LEMMA RunTypes ==
  ASSUME UdpTypes, SendShape, NEW w \in Workers, Run(w)
  PROVE  UdpTypes'
<1> USE NoneIsNoNumber DEF UdpTypes, linkVars, histVars, Goes
<1>1. ASSUME NEW kind \in {"stopped", "bind_failed"} PROVE Status(kind, w) \in Signals
  BY DEF Status, Signal, Signals, OrNone
<1>2. CASE BindRecv(w)
  BY <1>1, <1>2, Posts DEF BindRecv
<1>3. CASE MakeSend(w)
  BY <1>3 DEF MakeSend
<1>4. CASE BindSend(w)
  BY <1>1, <1>4, Posts DEF BindSend
<1>5. CASE SetRunning(w)
  BY <1>5 DEF SetRunning
<1>6. CASE LoopTest(w)
  BY <1>6 DEF LoopTest
<1>7. CASE RecvTimeout(w) \/ RecvError(w) \/ CloseSockets(w)
  BY <1>7 DEF RecvTimeout, RecvError, CloseSockets
<1>8. CASE Emit(w)
  <2> DEFINE s == Signal("frame", w, got[w].n, last[w], last[w] = None \/ last[w] <= got[w].seen)
  <2>1. s \in Signals
    BY <1>8 DEF Emit, Signal, Signals, OrNone
  <2>2. posted' = Append(posted, s)
    BY <1>8 DEF Emit
  <2> HIDE DEF s
  <2>3. posted' \in Seq(Signals)
    BY <2>1, <2>2, Posts
  <2> QED BY <1>8, <2>3 DEF Emit, OrNone
<1>9. CASE EndRun(w)
  BY <1>1, <1>9, Posts DEF EndRun
<1>10. ASSUME NEW n \in air, NEW again \in BOOLEAN, Receive(w, n, again) PROVE UdpTypes'
  <2>1. n \in Sends /\ number \in Nat
    BY UdpFramesAssumption DEF SendShape, Sends
  <2>2. [n |-> n, seen |-> number] \in [n : Sends, seen : Nat]
    BY <2>1
  <2> QED BY <1>10, <2>2 DEF Receive
<1> QED BY <1>2, <1>3, <1>4, <1>5, <1>6, <1>7, <1>8, <1>9, <1>10 DEF Run

(* A step of a thread keeps the other parts: it changes neither the window *)
(* nor what was sent.                                                      *)
LEMMA RunInv ==
  ASSUME LinkInv, NEW w \in Workers, Run(w), UNCHANGED logVars
  PROVE  LinkInv'
<1> USE NoneIsNoNumber DEF LinkInv
<1>1. UdpTypes'
  BY RunTypes
<1>2. UNCHANGED <<linkVars, number, histVars, logVars>> /\ air' \subseteq air
  BY DEF Run, BindRecv, MakeSend, BindSend, SetRunning, LoopTest, RecvTimeout, RecvError,
         Emit, CloseSockets, EndRun, Receive
<1> USE <1>2 DEF linkVars, histVars, logVars
<1>3. LogTypes' /\ RowShape' /\ OkRowTimedRight'
  BY DEF LogTypes, RowShape, RowPerQuery, OkRowTimedRight, LogRows, Row
<1>4. PortShape'
  <2>1. \A v \in Workers : Alive(v)' => Alive(v)
    BY DEF Run, BindRecv, MakeSend, BindSend, SetRunning, LoopTest, RecvTimeout, RecvError,
           Emit, CloseSockets, EndRun, Receive, Goes, Alive, UdpTypes
  <2> QED BY <2>1 DEF PortShape
<1>6. \A v \in Workers : last'[v] \in {last[v], None}
  BY DEF Run, BindRecv, MakeSend, BindSend, SetRunning, LoopTest, RecvTimeout, RecvError,
         Emit, CloseSockets, EndRun, Receive, UdpTypes
<1>5. SendShape'
  <2>1. \A v \in Workers : pc'[v] = "got" =>
          (pc[v] = "got" /\ got'[v] = got[v]) \/ got'[v].n \in air
    BY DEF Run, BindRecv, MakeSend, BindSend, SetRunning, LoopTest, RecvTimeout, RecvError,
           Emit, CloseSockets, EndRun, Receive, Goes, UdpTypes
  <2>2. number \in Nat /\ \A n \in air : n \in 1 .. number
    BY NumberIsNat DEF SendShape
  <2>3. \A v \in Workers : last'[v] # None => last'[v] <= number
    BY <1>6 DEF SendShape
  <2>4. \A v \in Workers : pc'[v] = "got" => got'[v].n <= number
    <3> SUFFICES ASSUME NEW v \in Workers, pc'[v] = "got" PROVE got'[v].n <= number
      OBVIOUS
    <3>1. CASE pc[v] = "got" /\ got'[v] = got[v]
      BY <3>1 DEF SendShape
    <3>2. CASE got'[v].n \in air
      <4> got'[v].n \in 1 .. number
        BY <2>2, <3>2
      <4> QED BY <2>2
    <3> QED BY <2>1, <3>1, <3>2
  <2> QED BY <2>3, <2>4 DEF SendShape
<1>7. StampShape'
  <2>1. \A v \in Workers : pc'[v] = "unborn" => pc[v] = "unborn"
    BY DEF Run, BindRecv, MakeSend, BindSend, SetRunning, LoopTest, RecvTimeout, RecvError,
           Emit, CloseSockets, EndRun, Receive, Goes, UdpTypes
  <2> QED BY <1>6, <2>1 DEF StampShape, UdpTypes, OrNone
<1>8. ReplyShape'
  <2> SUFFICES ASSUME lost \cup dropped = {} PROVE ReplyShape'
    BY DEF ReplyShape
  <2>1. CASE Emit(w)
    <3> DEFINE s == Signal("frame", w, got[w].n, last[w], last[w] = None \/ last[w] <= got[w].seen)
    <3>1. pc[w] = "got" /\ posted' = Append(posted, s)
      BY <2>1 DEF Emit, Goes
    <3>2. s \in Signals
      BY <3>1 DEF UdpTypes, Signal, Signals, OrNone
    <3>3. s.n \in 1 .. number /\ (s.since # None => s.since \in s.n .. number)
      <4>1. s.n = got[w].n /\ s.since = last[w]
        BY DEF Signal
      <4>2. got[w].n \in Sends /\ got[w].n <= number /\ number \in Nat
        BY <3>1, UdpFramesAssumption DEF UdpTypes, SendShape
      <4>3. last[w] # None => last[w] \in Sends /\ last[w] <= number /\ got[w].n <= last[w]
        BY <3>1 DEF UdpTypes, SendShape, OrNone, ReplyShape
      <4> QED BY <4>1, <4>2, <4>3 DEF Sends
    <3> HIDE DEF s
    <3>4. \A v \in Workers : pc'[v] = "got" => pc[v] = "got" /\ got'[v] = got[v]
      BY <2>1 DEF Emit, Goes, UdpTypes
    <3> QED BY <1>6, <3>1, <3>2, <3>3, <3>4, Posts DEF ReplyShape
  <2>2. ASSUME NEW n \in air, NEW again \in BOOLEAN, Receive(w, n, again) PROVE ReplyShape'
    <3>1. w = worker
      BY <2>2 DEF Receive, Goes, PortShape, Alive
    <3>2. n \in 1 .. number /\ n \notin failed
      BY DEF SendShape
    <3>3. last[w] = None \/ n <= last[w]
      BY <3>1, <3>2 DEF StampShape, UdpTypes, OrNone, Sends
    <3>4. \A v \in Workers : pc'[v] = "got" =>
            (v = w /\ got'[v].n = n) \/ (pc[v] = "got" /\ got'[v] = got[v])
      BY <2>2 DEF Receive, Goes, UdpTypes
    <3> QED BY <1>6, <2>2, <3>3, <3>4 DEF Receive, ReplyShape
  <2>3. CASE ~Emit(w) /\ (\A n \in air, again \in BOOLEAN : ~Receive(w, n, again))
    <3>1. \A v \in Workers : pc'[v] = "got" => pc[v] = "got" /\ got'[v] = got[v]
      BY <2>3 DEF Run, BindRecv, MakeSend, BindSend, SetRunning, LoopTest, RecvTimeout,
         RecvError, CloseSockets, EndRun, Goes, UdpTypes
    <3>2. UNCHANGED posted \/ \E kind \in {"stopped", "bind_failed"} :
            posted' = Append(posted, Status(kind, w))
      BY <2>3 DEF Run, BindRecv, MakeSend, BindSend, SetRunning, LoopTest, RecvTimeout,
         RecvError, CloseSockets, EndRun
    <3>3. CASE UNCHANGED posted
      BY <1>6, <3>1, <3>3 DEF ReplyShape
    <3>4. ASSUME NEW kind \in {"stopped", "bind_failed"}, posted' = Append(posted, Status(kind, w))
          PROVE  ReplyShape'
      <4>1. Status(kind, w) \in Signals /\ Status(kind, w).kind # "frame"
        BY DEF Status, Signal, Signals, OrNone
      <4> QED BY <1>6, <3>1, <3>4, <4>1, Posts DEF ReplyShape
    <3> QED BY <3>2, <3>3, <3>4
  <2> QED BY <2>1, <2>2, <2>3
<1> QED BY <1>1, <1>3, <1>4, <1>5, <1>7, <1>8

----------------------------------------------------------------------------
(* The slots of the window.                                                *)

(* A slot that neither sends nor logs.                                     *)
LEMMA WindowTypes ==
  ASSUME UdpTypes, SendShape,
         \/ Slots \/ SendFrame \/ SendTo \/ on_frame \/ UNCHANGED udpVars
         \/ \E w \in Workers : Connect(w)
         \/ \E then \in {"stopping", "reconnecting"} : Disconnect(then)
         \/ \E n \in air : Lose(n)
  PROVE  UdpTypes'
<1> USE NoneIsNoNumber, UdpFramesAssumption
    DEF UdpTypes, linkVars, threadVars, histVars, StopWorker, OrNone
<1>1. CASE StopReturns
  BY <1>1 DEF StopReturns, NextWorker
<1>2. CASE SendFails
  BY <1>2 DEF SendFails
<1>3. CASE on_stopped \/ on_bind_failed \/ on_frame
  <2>1. posted' \in Seq(Signals)
    BY <1>3, Takes DEF on_stopped, on_bind_failed, on_frame, Delivers
  <2> QED BY <1>3, <2>1 DEF on_stopped, on_bind_failed, on_frame, Delivers
<1>4. CASE SendFrame
  BY <1>4 DEF SendFrame, Sends
<1>5. CASE SendTo
  BY <1>5 DEF SendTo
<1>6. ASSUME NEW w \in Workers, Connect(w) PROVE UdpTypes'
  BY <1>6 DEF Connect, NextWorker
<1>7. ASSUME NEW then \in {"stopping", "reconnecting"}, Disconnect(then) PROVE UdpTypes'
  BY <1>7 DEF Disconnect
<1>8. ASSUME NEW n \in air, Lose(n) PROVE UdpTypes'
  BY <1>8 DEF Lose
<1>9. CASE UNCHANGED udpVars
  BY <1>9 DEF udpVars
<1> QED BY <1>1, <1>2, <1>3, <1>4, <1>5, <1>6, <1>7, <1>8, <1>9 DEF Slots

(* Between sends nothing is logged; the log's part stays when the sends    *)
(* that failed only grow.                                                  *)
LEMMA LogKept ==
  ASSUME LinkInv, UdpTypes', UNCHANGED logVars, number' >= number, failed \subseteq failed',
         lost \subseteq lost', dropped \subseteq dropped'
  PROVE  LogTypes' /\ RowShape' /\ OkRowTimedRight'
<1> USE UdpFramesAssumption DEF LinkInv, logVars
<1>1. LogTypes'
  <2>1. 1 .. number \subseteq 1 .. number'
    BY DEF UdpTypes
  <2> QED BY <2>1 DEF LogTypes
<1>2. RowShape'
  BY DEF RowShape, RowPerQuery
<1>3. OkRowTimedRight'
  BY DEF OkRowTimedRight
<1> QED BY <1>1, <1>2, <1>3

LEMMA ConnectInv ==
  ASSUME LinkInv, UNCHANGED logVars, NEW w \in Workers, Connect(w)
  PROVE  LinkInv'
<1> USE NoneIsNoNumber, UdpFramesAssumption DEF LinkInv, Connect, NextWorker, histVars, logVars
<1>1. UdpTypes'
  BY WindowTypes
<1>2. LogTypes' /\ RowShape' /\ OkRowTimedRight'
  BY <1>1, LogKept DEF UdpTypes
<1>3. PortShape' /\ SendShape'
  BY DEF UdpTypes, PortShape, SendShape, Alive, OrNone
<1>4. ReplyShape'
  BY DEF UdpTypes, ReplyShape, OrNone
<1>5. StampShape'
  BY DEF UdpTypes, StampShape
<1> QED BY <1>1, <1>2, <1>3, <1>4, <1>5

LEMMA LoseInv ==
  ASSUME LinkInv, UNCHANGED logVars, NEW n \in air, Lose(n)
  PROVE  LinkInv'
<1> USE DEF LinkInv, Lose, linkVars, threadVars, histVars, logVars
<1>1. UdpTypes'
  BY WindowTypes
<1>2. LogTypes' /\ RowShape' /\ OkRowTimedRight'
  BY <1>1, UdpFramesAssumption, LogKept DEF UdpTypes
<1>3. PortShape' /\ StampShape' /\ ReplyShape'
  BY DEF PortShape, Alive, StampShape, ReplyShape
<1>4. SendShape'
  BY DEF SendShape
<1> QED BY <1>1, <1>2, <1>3, <1>4

LEMMA DisconnectInv ==
  ASSUME LinkInv, UNCHANGED logVars,
         NEW then \in {"stopping", "reconnecting"}, Disconnect(then)
  PROVE  LinkInv'
<1> USE DEF LinkInv, Disconnect, StopWorker, histVars, logVars
<1>1. UdpTypes'
  BY WindowTypes
<1>2. LogTypes' /\ RowShape' /\ OkRowTimedRight'
  BY <1>1, UdpFramesAssumption, LogKept DEF UdpTypes
<1>3. PortShape' /\ ReplyShape'
  BY DEF PortShape, Alive, ReplyShape
<1>4. SendShape'
  BY DEF SendShape
<1>5. StampShape'
  BY DEF StampShape
<1> QED BY <1>1, <1>2, <1>3, <1>4, <1>5

LEMMA StopReturnsInv ==
  ASSUME LinkInv, UNCHANGED logVars, StopReturns
  PROVE  LinkInv'
<1> USE NoneIsNoNumber, UdpFramesAssumption DEF LinkInv, StopReturns, logVars
<1>1. UdpTypes'
  BY WindowTypes DEF Slots
<1>2. LogTypes' /\ RowShape' /\ OkRowTimedRight'
  BY <1>1, LogKept DEF UdpTypes
<1>3. \/ worker' = None /\ UNCHANGED pc
      \/ \E w \in Workers : /\ pc[w] = "unborn" /\ worker' = w
                             /\ pc' = [pc EXCEPT ![w] = "starting"]
  BY DEF NextWorker
<1>4. worker \in Workers
  BY DEF PortShape, UdpTypes, OrNone
<1>5. \A v \in Workers : Alive(v)' => v = worker' \/ Alive(v)
  BY <1>3 DEF Alive, UdpTypes
<1>6. Alive(worker) => worker \in lost'
  BY <1>4 DEF Alive, Finished
<1>7. lost \subseteq lost'
  OBVIOUS
<1>8. PortShape'
  BY <1>4, <1>5, <1>6, <1>7 DEF PortShape
<1>9. \A v \in Workers : (pc'[v] = "got" => pc[v] = "got") /\ (pc'[v] = "unborn" => pc[v] = "unborn")
  BY <1>3 DEF UdpTypes
<1>10. SendShape' /\ ReplyShape'
  BY <1>7, <1>9 DEF SendShape, ReplyShape
<1>11. StampShape'
  BY <1>3, <1>9 DEF StampShape
<1> QED BY <1>1, <1>2, <1>8, <1>10, <1>11

LEMMA SendFailsInv ==
  ASSUME LinkInv, UNCHANGED logVars, SendFails
  PROVE  LinkInv'
<1> USE NoneIsNoNumber, UdpFramesAssumption DEF LinkInv, SendFails, logVars
<1>1. UdpTypes'
  BY WindowTypes DEF Slots
<1>2. LogTypes' /\ RowShape' /\ OkRowTimedRight'
  BY <1>1, LogKept DEF UdpTypes
<1>3. PortShape'
  BY DEF PortShape, Alive
<1>4. number \in Nat /\ number \in 1 .. number /\ number \notin air
  BY DEF UdpTypes, SendShape
<1>5. \A v \in Workers : last'[v] \in {last[v], None}
  BY DEF UdpTypes, OrNone
<1>6. SendShape'
  BY <1>4, <1>5 DEF SendShape
<1>7. StampShape'
  BY <1>5 DEF StampShape
<1>8. ReplyShape'
  BY <1>5 DEF ReplyShape
<1> QED BY <1>1, <1>2, <1>3, <1>6, <1>7, <1>8

LEMMA SendFrameInv ==
  ASSUME LinkInv, UNCHANGED logVars, SendFrame
  PROVE  LinkInv'
<1> USE NoneIsNoNumber, UdpFramesAssumption DEF LinkInv, SendFrame, logVars
<1>1. UdpTypes'
  BY WindowTypes
<1>2. number \in Nat /\ number' = number + 1 /\ failed \subseteq failed'
  BY DEF UdpTypes
<1>3. LogTypes' /\ RowShape' /\ OkRowTimedRight'
  BY <1>1, <1>2, LogKept
<1>4. PortShape'
  BY DEF PortShape, Alive
<1>5. worker \in Workers
  BY DEF UdpTypes, OrNone
<1>6. \A v \in Workers : last'[v] = last[v] \/ (v = worker /\ last'[v] = number')
  BY DEF UdpTypes, OrNone
<1>7. SendShape'
  <2>1. number' \notin air \cup failed \cup asked /\ number' >= 1
    BY <1>2 DEF SendShape, LogTypes
  <2>2. \A v \in Workers : /\ last'[v] # None => last'[v] <= number'
                           /\ pc'[v] = "got" => got'[v].n <= number'
    <3> SUFFICES ASSUME NEW v \in Workers
                 PROVE  /\ last'[v] # None => last'[v] <= number'
                        /\ pc'[v] = "got" => got'[v].n <= number'
      OBVIOUS
    <3>1. (last[v] # None => last[v] \in Nat) /\ (pc[v] = "got" => got[v].n \in Nat)
      BY DEF UdpTypes, OrNone, Sends
    <3> QED BY <1>2, <1>6, <3>1 DEF SendShape
  <2>3. failed' \subseteq 1 .. number' /\ air' \subseteq 1 .. number' /\ air' \cap failed' = {}
    BY <1>2, <2>1 DEF SendShape
  <2>4. gui' = "sending" => number' \notin air' \cup failed' \cup asked'
    BY <2>1
  <2> QED BY <2>1, <2>2, <2>3, <2>4 DEF SendShape
<1>8. StampShape'
  <2>1. worker # None /\ last'[worker] # None =>
          \A m \in 1 .. number' : m > last'[worker] => m \in failed'
    <3> SUFFICES ASSUME last'[worker] # None, NEW m \in 1 .. number', m > last'[worker]
                 PROVE  m \in failed'
      OBVIOUS
    <3>1. CASE last'[worker] = number'
      BY <1>2, <3>1
    <3>2. CASE last' = last /\ failed' = failed \cup {number'}
      <4>1. m \in 1 .. number \/ m = number'
        BY <1>2
      <4> QED BY <3>2, <4>1, <1>5 DEF StampShape
    <3> QED BY <1>2, <1>5, <3>1, <3>2 DEF UdpTypes
  <2>2. \A w \in Workers : pc[w] = "unborn" => last'[w] = None
    <3>1. SendSock(worker) # None => pc[worker] # "unborn"
      BY DEF SendSock
    <3> QED BY <3>1, <1>5 DEF StampShape, UdpTypes
  <2>3. file = "open" /\ pending # None =>
          /\ pending \in asked
          /\ \A m \in 1 .. number' :
               m > pending => m \in failed' \/ (m = number' /\ gui' = "sending")
    <3>1. \A m \in 1 .. number' : m \in 1 .. number \/ m = number'
      BY <1>2
    <3> QED BY <1>2, <3>1 DEF StampShape
  <2> QED BY <2>1, <2>2, <2>3 DEF StampShape
<1>9. ReplyShape'
  <2> SUFFICES ASSUME lost \cup dropped = {} PROVE ReplyShape'
    BY DEF ReplyShape
  <2>1. \A v \in Workers : pc'[v] = "got" => last'[v] = None \/ got'[v].n <= last'[v]
    <3> SUFFICES ASSUME NEW v \in Workers, pc[v] = "got"
                 PROVE  last'[v] = None \/ got[v].n <= last'[v]
      OBVIOUS
    <3>1. got[v].n \in Nat /\ got[v].n <= number
      BY DEF UdpTypes, Sends, SendShape
    <3> QED BY <1>2, <1>6, <3>1 DEF ReplyShape
  <2>2. \A i \in 1 .. Len(posted) : posted[i].kind = "frame" =>
         /\ posted[i].n \in 1 .. number'
         /\ posted[i].since # None => posted[i].since \in posted[i].n .. number'
    BY <1>2 DEF ReplyShape
  <2> QED BY <2>1, <2>2 DEF ReplyShape
<1> QED BY <1>1, <1>3, <1>4, <1>7, <1>8, <1>9

(* The signals of a worker's end.                                          *)
LEMMA EndsInv ==
  ASSUME LinkInv, UNCHANGED logVars, on_stopped \/ on_bind_failed
  PROVE  LinkInv'
<1> USE NoneIsNoNumber, UdpFramesAssumption
    DEF LinkInv, on_stopped, on_bind_failed, StopWorker, linkVars, threadVars, histVars, logVars
<1>1. UdpTypes'
  BY WindowTypes DEF Slots
<1>2. UNCHANGED <<pc, last, got, number, air, early, failed, lost>> /\ dropped \subseteq dropped'
      /\ gui = "idle" /\ gui' # "sending"
  BY DEF Delivers
<1>3. LogTypes' /\ RowShape' /\ OkRowTimedRight'
  BY <1>1, <1>2, LogKept DEF UdpTypes
<1>4. worker' \in {worker, None} /\ (worker' # worker => worker \in dropped')
      /\ (gui' # "idle" => worker' # None)
  BY DEF Delivers
<1>5. PortShape'
  BY <1>2, <1>4 DEF PortShape, Alive
<1>6. SendShape'
  BY <1>2 DEF SendShape
<1>7. StampShape'
  BY <1>2, <1>4 DEF StampShape
<1>8. ReplyShape'
  <2>1. \A i \in 1 .. Len(posted') : i + 1 \in 1 .. Len(posted) /\ posted'[i] = posted[i + 1]
    BY Takes DEF Delivers
  <2> QED BY <1>2, <2>1 DEF ReplyShape
<1> QED BY <1>1, <1>3, <1>5, <1>6, <1>7, <1>8

LEMMA Cells ==
  Timeout \in LogRows /\ Twice \in LogRows /\ Timeout # Twice /\ Timeout.result # "OK"
<1>1. Timeout \in LogRows /\ Twice \in LogRows
  BY DEF Timeout, Twice, Row, LogRows, Results, OrNone
<1>2. Timeout.result = "TIMEOUT" /\ Twice.result = "twice"
  BY DEF Timeout, Twice, Row
<1> QED BY <1>1, <1>2

(* The query is sent and the log is told of it in one slot.                *)
LEMMA SentInv ==
  ASSUME LinkInv, Sent
  PROVE  LinkInv'
<1> USE NoneIsNoNumber, UdpFramesAssumption DEF LinkInv
<1> PICK fails \in BOOLEAN : SendTo /\ log_tx(number, fails)
  BY DEF Sent
<1>1. UdpTypes'
  BY WindowTypes
<1>2. /\ UNCHANGED <<worker, threadVars, posted, number, failed, lost, dropped>>
      /\ gui = "sending" /\ gui' = "idle" /\ air' = air \cup {number}
  BY DEF SendTo
<1> USE <1>2 DEF threadVars
<1>3. number \in Nat /\ number \in Sends /\ number \in 1 .. number
      /\ number \notin failed \cup asked
  BY DEF UdpTypes, SendShape, Sends
<1>4. PortShape'
  BY DEF PortShape, Alive
<1>5. SendShape'
  BY <1>3 DEF SendShape
<1>6. ReplyShape'
  BY DEF ReplyShape
<1>7. CASE file # "open"
  <2>1. UNCHANGED logVars
    BY <1>7 DEF log_tx
  <2>2. LogTypes' /\ RowShape' /\ OkRowTimedRight'
    BY <1>1, <1>3, <2>1, LogKept
  <2>3. StampShape'
    BY <1>7, <2>1 DEF StampShape, logVars
  <2> QED BY <1>1, <1>4, <1>5, <1>6, <2>2, <2>3
<1>8. CASE file = "open"
  <2>1. /\ pending' = number /\ flushTimer' = TRUE /\ asked' = asked \cup {number}
        /\ \/ pending # None /\ write_row(pending, Timeout, fails)
           \/ pending = None /\ UNCHANGED <<file, rows>>
    BY <1>8 DEF log_tx
  <2>2. Timeout \in LogRows /\ Twice \in LogRows /\ Timeout # Twice
    BY Cells
  <2>3. None \notin LogRows
    BY FrameLoggerAssumption DEF LogRows, OrNone
  <2>4. pending # None => pending \in asked
    BY <1>8 DEF StampShape
  <2>5. \/ pending # None /\ file' = "open" /\ rows' = [rows EXCEPT ![pending] = Timeout]
        \/ UNCHANGED rows /\ (file' = "failed" \/ (pending = None /\ file' = file))
    <3>1. pending # None => pending \in asked /\ rows[pending] = None
      BY <1>8, <2>4 DEF RowShape, RowPerQuery
    <3> QED BY <1>8, <2>1, <3>1 DEF write_row, Written, LogTypes, OrNone
  <2>6. LogTypes'
    BY <1>3, <1>8, <2>1, <2>2, <2>5 DEF LogTypes, OrNone
  <2>7. asked \subseteq Sends
    BY <1>3 DEF LogTypes, Sends, UdpTypes
  <2>8. RowShape'
    <3>1. \A n \in Sends \ asked' : rows'[n] = None
      BY <2>1, <2>4, <2>5 DEF RowShape, LogTypes
    <3>2. RowPerQuery'
      <4> SUFFICES ASSUME file' # "failed", NEW n \in asked'
                   PROVE  rows'[n] # Twice /\ (rows'[n] = None <=> n = pending')
        BY DEF RowPerQuery
      <4>1. CASE n = number
        BY <1>3, <2>1, <2>2, <2>3, <2>4, <2>5, <4>1 DEF RowShape, LogTypes
      <4>2. CASE n # number
        <5>1. n \in asked /\ n \in Sends /\ rows[n] # Twice /\ (rows[n] = None <=> n = pending)
          BY <1>8, <2>1, <2>7, <4>2 DEF RowShape, RowPerQuery
        <5> QED BY <2>1, <2>2, <2>3, <2>5, <4>2, <5>1 DEF LogTypes
      <4> QED BY <4>1, <4>2
    <3>3. file' # "closed"
      BY <1>8, <2>5
    <3> QED BY <3>1, <3>2, <3>3 DEF RowShape
  <2>9. StampShape'
    <3>1. \A m \in 1 .. number : ~(m > number)
      BY <1>3
    <3> QED BY <2>1, <3>1 DEF StampShape
  <2>10. OkRowTimedRight'
    <3>1. Timeout.result # "OK"
      BY DEF Timeout, Row
    <3> QED BY <2>5, <3>1 DEF OkRowTimedRight, LogTypes
  <2> QED BY <1>1, <1>4, <1>5, <1>6, <2>6, <2>8, <2>9, <2>10
<1> QED BY <1>7, <1>8

(* The rows when the pending query, if any, got the row it was waiting for *)
(* and the others kept theirs.                                             *)
LEMMA PendingRow ==
  ASSUME LinkInv, NEW row \in LogRows, row # Twice,
         file = "open", pending # None, pending' = None, asked' = asked, number' = number,
         \/ file' \in {"open", "closed"} /\ rows' = Written(pending, row)
         \/ file' = "failed" /\ rows' = rows,
         flushTimer' \in BOOLEAN
  PROVE  /\ LogTypes' /\ RowShape'
         /\ \A n \in Sends : rows'[n] \in {rows[n], row} /\ (rows'[n] # rows[n] => n = pending)
<1> USE NoneIsNoNumber DEF LinkInv
<1>1. None \notin LogRows
  BY FrameLoggerAssumption DEF LogRows, OrNone
<1>2. pending \in asked /\ pending \in Sends /\ rows[pending] = None
  BY DEF StampShape, RowShape, RowPerQuery, LogTypes, OrNone
<1>3. \/ rows' = [rows EXCEPT ![pending] = row] /\ file' # "failed"
      \/ rows' = rows /\ file' = "failed"
  BY <1>2 DEF Written, LogTypes
<1>4. LogTypes'
  BY <1>2, <1>3 DEF LogTypes, OrNone
<1>5. RowShape'
  <2>1. \A n \in Sends \ asked' : rows'[n] = None
    BY <1>2, <1>3 DEF RowShape, LogTypes
  <2>2. RowPerQuery'
    <3> SUFFICES ASSUME file' # "failed", NEW n \in asked PROVE rows'[n] # Twice /\ rows'[n] # None
      BY <1>2 DEF RowPerQuery, LogTypes, UdpTypes, Sends
    <3>1. n \in Sends
      BY NumberIsNat, UdpFramesAssumption DEF LogTypes, UdpTypes, Sends
    <3>2. rows[n] # Twice /\ (rows[n] = None <=> n = pending)
      BY DEF RowShape, RowPerQuery
    <3> QED BY <1>1, <1>3, <3>1, <3>2 DEF LogTypes
  <2> QED BY <2>1, <2>2 DEF RowShape
<1> QED BY <1>2, <1>3, <1>4, <1>5 DEF LogTypes

(* A reply is displayed and logged in one slot.                            *)
LEMMA ReceivedInv ==
  ASSUME LinkInv, Received
  PROVE  LinkInv'
<1> USE NoneIsNoNumber, UdpFramesAssumption DEF LinkInv
<1> DEFINE s == Head(posted)
<1> PICK good \in BOOLEAN, fails \in BOOLEAN : log_rx(s.n, Since(s), good, fails)
  BY DEF Received
<1>0. on_frame
  BY DEF Received
<1>1. UdpTypes'
  BY <1>0, WindowTypes
<1>2. UNCHANGED <<linkVars, threadVars, number, air, histVars>> /\ gui = "idle"
      /\ posted # <<>> /\ posted' = Tail(posted) /\ s.kind = "frame"
  BY <1>0 DEF on_frame, Delivers
<1> USE <1>2 DEF linkVars, threadVars, histVars
<1>3. s \in Signals /\ s = posted[1] /\ 1 \in 1 .. Len(posted)
      /\ \A i \in 1 .. Len(posted') : i + 1 \in 1 .. Len(posted) /\ posted'[i] = posted[i + 1]
  BY <1>2, Takes, HeadTailProperties DEF UdpTypes
<1>4. ReplyShape'
  BY <1>3 DEF ReplyShape
<1>5. PortShape' /\ (asked' = asked => SendShape')
  BY DEF PortShape, Alive, SendShape
<1>6. s.n \in OrNone(Sends) /\ Since(s) \in OrNone(Sends) /\ Since(s) \in {s.since, None}
  BY <1>3 DEF Signals, Since, OrNone
<1> HIDE DEF s
<1>7. CASE UNCHANGED <<pending, asked, rows>> /\ flushTimer' \in BOOLEAN
           /\ file' \in {file, "failed"}
  <2>1. LogTypes' /\ OkRowTimedRight'
    BY <1>7 DEF LogTypes, OkRowTimedRight
  <2>2. RowShape'
    BY <1>7 DEF RowShape, RowPerQuery
  <2>3. StampShape'
    BY <1>7 DEF StampShape
  <2> QED BY <1>1, <1>4, <1>5, <1>7, <2>1, <2>2, <2>3
<1>8. CASE file = "open" /\ pending # None
  <2> DEFINE row == Row(Result(s.n, good), s.n, Since(s))
  <2>1. /\ pending' = None /\ flushTimer' = FALSE /\ asked' = asked
        /\ write_row(pending, row, fails)
    BY <1>8 DEF log_rx
  <2>2. row.result = Result(s.n, good) /\ row.reply = s.n /\ row.since = Since(s)
    BY DEF Row
  <2>3. Result(s.n, good) \in Results \ {"twice"}
    BY DEF Result, Results
  <2>4. row \in LogRows
    BY <1>6, <2>3 DEF Row, LogRows, OrNone, Sends
  <2>5. row # Twice
    BY <2>2, <2>3 DEF Twice, Row
  <2> HIDE DEF row
  <2>6. \/ file' \in {"open", "closed"} /\ rows' = Written(pending, row)
        \/ file' = "failed" /\ rows' = rows
    BY <1>8, <2>1 DEF write_row
  <2>7. /\ LogTypes' /\ RowShape'
        /\ \A n \in Sends : rows'[n] \in {rows[n], row} /\ (rows'[n] # rows[n] => n = pending)
    BY <1>8, <2>1, <2>4, <2>5, <2>6, PendingRow
  <2>8. StampShape'
    BY <2>1 DEF StampShape
  <2>9. OkRowTimedRight'
    <3> SUFFICES ASSUME lost \cup dropped = {}, row.result = "OK"
                 PROVE  row.reply = pending /\ row.since \in {pending, None} \cup failed
      BY <2>7 DEF OkRowTimedRight
    <3>1. s.n = pending
      BY <2>2 DEF Result
    <3>2. row.since # None => row.since = s.since /\ row.since \in s.n .. number
      BY <1>3, <1>6, <2>2 DEF ReplyShape
    <3>3. \A m \in 1 .. number : m > pending => m \in failed
      BY <1>8 DEF StampShape
    <3>4. pending \in Nat /\ pending >= 1 /\ number \in Nat
      BY <1>8 DEF LogTypes, OrNone, Sends, UdpTypes
    <3>5. row.since # None => row.since = pending \/ (row.since \in 1 .. number /\ row.since > pending)
      BY <3>1, <3>2, <3>4
    <3> QED BY <2>2, <3>1, <3>3, <3>5
  <2> QED BY <1>1, <1>4, <1>5, <2>1, <2>7, <2>8, <2>9
<1> QED BY <1>7, <1>8 DEF log_rx, logVars, LogTypes

(* The menu and the timer.                                                 *)
LEMMA LogInv ==
  ASSUME LinkInv, Log
  PROVE  LinkInv'
<1> USE NoneIsNoNumber, UdpFramesAssumption
    DEF LinkInv, udpVars, linkVars, threadVars, histVars
<1>1. UNCHANGED udpVars /\ gui = "idle"
  BY DEF Log
<1>2. UdpTypes' /\ PortShape' /\ ReplyShape'
  BY <1>1 DEF UdpTypes, PortShape, Alive, ReplyShape
<1>3. SendShape'
  BY <1>1 DEF SendShape
<1>4. CASE log_start
  <2>1. LogTypes' /\ RowShape' /\ OkRowTimedRight'
    BY <1>1, <1>4 DEF log_start, LogTypes, RowShape, RowPerQuery, OkRowTimedRight, OrNone
  <2>2. StampShape'
    BY <1>1, <1>4 DEF log_start, StampShape
  <2> QED BY <1>2, <1>3, <2>1, <2>2
<1>5. ASSUME NEW fails \in BOOLEAN, log_stop(fails) \/ pending_expired(fails)
      PROVE  LinkInv'
  <2>1. asked' = asked /\ flushTimer' = FALSE /\ pending' \in {pending, None}
    BY <1>5 DEF log_stop, pending_expired
  <2>2. CASE file = "open" /\ pending # None
    <3>1. /\ pending' = None
          /\ \/ file' \in {"open", "closed"} /\ rows' = Written(pending, Timeout)
             \/ file' = "failed" /\ rows' = rows
      BY <1>5, <2>2 DEF log_stop, pending_expired, write_row
    <3>2. /\ LogTypes' /\ RowShape'
          /\ \A n \in Sends : rows'[n] \in {rows[n], Timeout}
      BY <1>1, <2>1, <2>2, <3>1, Cells, PendingRow
    <3>3. StampShape'
      BY <1>1, <3>1 DEF StampShape
    <3>4. OkRowTimedRight'
      BY <1>1, <3>2, Cells DEF OkRowTimedRight
    <3> QED BY <1>2, <1>3, <3>2, <3>3, <3>4
  <2>3. CASE ~(file = "open" /\ pending # None)
    <3>1. /\ rows' = rows /\ pending' = pending
          /\ file' \in {file, "closed"} /\ (file' # file => file = "open" /\ pending = None)
      BY <1>5, <2>3 DEF log_stop, pending_expired
    <3>2. LogTypes' /\ OkRowTimedRight'
      BY <1>1, <2>1, <3>1 DEF LogTypes, OkRowTimedRight
    <3>3. RowShape'
      BY <2>1, <3>1 DEF RowShape, RowPerQuery, LogTypes
    <3>4. StampShape'
      BY <1>1, <2>1, <3>1 DEF StampShape, LogTypes
    <3> QED BY <1>2, <1>3, <3>2, <3>3, <3>4
  <2> QED BY <2>2, <2>3
<1> QED BY <1>4, <1>5 DEF Log

LEMMA LinkStep == LinkInv /\ [LinkNext]_linkLogVars => LinkInv'
<1> SUFFICES ASSUME LinkInv, [LinkNext]_linkLogVars PROVE LinkInv'
  OBVIOUS
<1>1. CASE Sent \/ Received \/ Log
  BY <1>1, SentInv, ReceivedInv, LogInv
<1>2. CASE Quiet /\ UNCHANGED logVars
  BY <1>2, RunInv, ConnectInv, LoseInv, DisconnectInv, StopReturnsInv, SendFailsInv,
     SendFrameInv, EndsInv DEF Quiet, Slots
<1>3. CASE UNCHANGED linkLogVars
  BY <1>3 DEF LinkInv, linkLogVars, udpVars, linkVars, threadVars, histVars, logVars, UdpTypes,
     LogTypes, PortShape, Alive, SendShape, StampShape, ReplyShape, RowShape, RowPerQuery,
     OkRowTimedRight
<1> QED BY <1>1, <1>2, <1>3 DEF LinkNext

(* PortIsFree: a connection that waits for events holds the port alone.    *)
LEMMA PortFree == LinkInv => PortIsFree
<1> SUFFICES ASSUME LinkInv, NEW w \in Workers, Listens(w)
             PROVE  w = worker \/ w \in lost \cup dropped
  BY DEF PortIsFree
<1> QED BY DEF LinkInv, PortShape, Alive, Listens

LEMMA RowsAreSound == LinkInv => RowsSound
BY DEF LinkInv, RowShape, RowsSound

----------------------------------------------------------------------------
(* The burn test.                                                          *)

BurnResults == {"OK", "CRC_FAIL", "TIMEOUT", "UNSOLICITED"}
BurnRows == [n : Sends, result : BurnResults]
BurnSignals == [kind : {"rows", "stopped", "error"}, r : Runs, batch : Seq(BurnRows)]

Peeked == {r \in Runs : at[r] = "peeked"}

BurnTypes ==
  /\ burn \in OrNone(Runs) /\ waiting \in BOOLEAN
  /\ waiting => burn # None
  /\ at \in [Runs -> {"unborn", "binding", "ready", "loop", "drain", "peeked", "evict",
                      "flush", "over"}]
  /\ going \in [Runs -> BOOLEAN]
  /\ DOMAIN key = Runs
  /\ table \in [Runs -> Seq(Sends)]
  /\ inHand \in [Runs -> Seq(BurnRows)]
  /\ made \in [Runs -> Seq(BurnRows)]
  /\ count \in [Runs -> [sent : Nat, ok : Nat, timeouts : Nat]]
  /\ burnPosted \in Seq(BurnSignals)
  /\ log \in {"open", "closed", "failed"}
  /\ csv \in Seq(BurnRows)
  /\ counter \in Nat
  /\ burnAir \subseteq 1 .. counter
  /\ logged \subseteq Runs
  /\ carried \in [Runs -> [Sends -> OrNone(Nat)]]

(* Every number looked at can still be taken.                              *)
CounterBound == counter + Cardinality(Peeked) <= MaxSends

(* The number a run has looked at is one no frame of it was sent under,    *)
(* though the counter may have moved on since.                             *)
KeysFresh ==
  \A r \in Runs :
    /\ at[r] = "peeked" => key[r] \in Sends /\ key[r] <= counter + 1
    /\ \A n \in FramesOf(r) : n <= counter /\ (at[r] = "peeked" => n < key[r])

InTable(r, n) == \E i \in 1 .. Len(table[r]) : table[r][i] = n
Answered(r) == RowsWith(r, {"OK", "CRC_FAIL", "TIMEOUT"})

(* What is outstanding was sent, each once; a row other than UNSOLICITED   *)
(* is about a frame that was sent and is not outstanding, and there is one *)
(* for each such frame.                                                    *)
RowsMatch(r) ==
  /\ \A i \in 1 .. Len(table[r]) :
       /\ table[r][i] \in FramesOf(r)
       /\ \A j \in 1 .. Len(table[r]) : table[r][i] = table[r][j] => i = j
  /\ \A i \in Answered(r) :
       /\ made[r][i].n \in FramesOf(r) /\ ~InTable(r, made[r][i].n)
       /\ \A j \in Answered(r) : made[r][i].n = made[r][j].n => i = j
  /\ \A n \in FramesOf(r) : ~InTable(r, n) => \E i \in Answered(r) : made[r][i].n = n

CountsMatch(r) ==
  /\ count[r].sent = Cardinality(FramesOf(r))
  /\ count[r].sent = Len(table[r]) + count[r].timeouts
       + Cardinality(RowsWith(r, {"OK", "CRC_FAIL"}))

Accounted == \A r \in Runs : RowsMatch(r) /\ CountsMatch(r)

(* Runs are begun in order, and a run has no rows before nor in hand after.*)
RunOrder ==
  \A r \in Runs :
    /\ \A s \in Runs : s < r /\ at[r] # "unborn" => at[s] # "unborn"
    /\ at[r] = "unborn" => r \notin logged
    /\ at[r] \in {"unborn", "binding"} => made[r] = <<>> /\ inHand[r] = <<>>
    /\ at[r] = "over" => inHand[r] = <<>>

(* Without a survivor only the current run works, and it is the latest.    *)
OneRun ==
  survivors = {} =>
    /\ \A r \in Runs : r # burn => at[r] \in {"unborn", "over"}
    /\ burn # None => Latest(burn)

(* What is posted is the latest run's; its end is the last of it.          *)
SignalShape(i) ==
  LET s == burnPosted[i] IN
  /\ Latest(s.r)
  /\ s.kind = "stopped" => i = Len(burnPosted) /\ at[s.r] = "over"
  /\ s.kind = "error" => made[s.r] = <<>> /\ at[s.r] = "over"
  /\ at[s.r] = "over" => burnPosted[Len(burnPosted)].kind = "stopped"

QueueShape == survivors = {} => \A i \in 1 .. Len(burnPosted) : SignalShape(i)

(* The rows from `from' on are those of the part.                          *)
PartOf(part, whole, from) ==
  /\ from + Len(part) <= Len(whole)
  /\ \A j \in 1 .. Len(part) : part[j] = whole[from + j]

(* File, batches and hand are the rows made: st says where each begins.    *)
ChainOf(written, queue, hand, all) ==
  \E st \in [1 .. Len(queue) + 1 -> 0 .. Len(all)] :
    /\ st[1] = Len(written) /\ PartOf(written, all, 0)
    /\ \A i \in 1 .. Len(queue) :
         IF queue[i].kind = "rows"
         THEN st[i + 1] = st[i] + Len(queue[i].batch) /\ PartOf(queue[i].batch, all, st[i])
         ELSE st[i + 1] = st[i]
    /\ st[Len(queue) + 1] + Len(hand) = Len(all)
    /\ PartOf(hand, all, st[Len(queue) + 1])

FileShape ==
  survivors = {} => \A r \in logged : Latest(r) =>
    /\ log = "open" => ChainOf(csv, burnPosted, inHand[r], made[r])
    /\ log = "closed" => at[r] = "over" /\ csv = made[r]

BurnInv ==
  /\ BurnTypes /\ CounterBound /\ KeysFresh /\ Accounted
  /\ RunOrder /\ OneRun /\ QueueShape /\ FileShape

(* How the chain moves on.                                                 *)

(* Rows are made and stay in hand.                                         *)
LEMMA ChainGrows ==
  ASSUME NEW c \in Seq(BurnRows), NEW q \in Seq(BurnSignals), NEW h \in Seq(BurnRows),
         NEW m \in Seq(BurnRows), NEW x \in Seq(BurnRows), ChainOf(c, q, h, m)
  PROVE  ChainOf(c, q, h \o x, m \o x)
<1> DEFINE m2 == m \o x
           h2 == h \o x
<1>1. /\ h2 \in Seq(BurnRows) /\ Len(h2) = Len(h) + Len(x)
      /\ \A i \in 1 .. Len(h2) : h2[i] = IF i <= Len(h) THEN h[i] ELSE x[i - Len(h)]
  BY ConcatProperties
<1>2. /\ m2 \in Seq(BurnRows) /\ Len(m2) = Len(m) + Len(x)
      /\ \A i \in 1 .. Len(m2) : m2[i] = IF i <= Len(m) THEN m[i] ELSE x[i - Len(m)]
  BY ConcatProperties
<1>3. Len(m) \in Nat /\ Len(x) \in Nat /\ Len(h) \in Nat /\ Len(c) \in Nat /\ Len(q) \in Nat
  BY LenProperties
<1>4. PICK st \in [1 .. Len(q) + 1 -> 0 .. Len(m)] :
        /\ st[1] = Len(c) /\ PartOf(c, m, 0)
        /\ \A i \in 1 .. Len(q) :
             IF q[i].kind = "rows"
             THEN st[i + 1] = st[i] + Len(q[i].batch) /\ PartOf(q[i].batch, m, st[i])
             ELSE st[i + 1] = st[i]
        /\ st[Len(q) + 1] + Len(h) = Len(m)
        /\ PartOf(h, m, st[Len(q) + 1])
  BY DEF ChainOf
<1> HIDE DEF m2, h2
<1>5. \A part \in Seq(BurnRows), from \in Nat : PartOf(part, m, from) => PartOf(part, m2, from)
  <2> SUFFICES ASSUME NEW part \in Seq(BurnRows), NEW from \in Nat, PartOf(part, m, from)
               PROVE  PartOf(part, m2, from)
    OBVIOUS
  <2>1. Len(part) \in Nat /\ from + Len(part) <= Len(m)
    BY LenProperties DEF PartOf
  <2>2. ASSUME NEW j \in 1 .. Len(part) PROVE part[j] = m2[from + j]
    <3>1. part[j] = m[from + j]
      BY DEF PartOf
    <3>2. from + j \in 1 .. Len(m2) /\ from + j <= Len(m)
      BY <1>2, <1>3, <2>1
    <3> QED BY <1>2, <3>1, <3>2
  <2>3. from + Len(part) <= Len(m2)
    BY <1>2, <1>3, <2>1
  <2> QED BY <2>2, <2>3 DEF PartOf
<1>6. \A i \in 1 .. Len(q) : q[i].batch \in Seq(BurnRows)
  <2> TAKE i \in 1 .. Len(q)
  <2> q[i] \in BurnSignals
    BY LenProperties
  <2> QED BY DEF BurnSignals
<1>7. \A i \in 1 .. Len(q) + 1 : st[i] \in Nat
  <2> TAKE i \in 1 .. Len(q) + 1
  <2> st[i] \in 0 .. Len(m)
    BY <1>4
  <2> QED BY <1>3
<1> DEFINE e == st[Len(q) + 1]
<1>14. e \in Nat /\ Len(m) = e + Len(h) /\ PartOf(h, m, e)
  BY <1>3, <1>4, <1>7
<1> HIDE DEF e
<1>16. Len(m2) = e + Len(h2) /\ Len(m2) \in Nat /\ Len(h2) \in Nat
  <2>1. Len(h2) = Len(h) + Len(x) /\ Len(m2) = Len(m) + Len(x) /\ e \in Nat /\ Len(m) = e + Len(h)
    BY <1>1, <1>2, <1>14
  <2>2. Len(h2) \in Nat /\ Len(m2) \in Nat
    BY <1>1, <1>2, LenProperties
  <2> QED BY <1>3, <2>1, <2>2
<1>15. PartOf(h2, m2, e)
  <2>1. ASSUME NEW j \in 1 .. Len(h2) PROVE h2[j] = m2[e + j]
    <3>0. e \in Nat /\ Len(m) = e + Len(h)
      BY <1>14
    <3>1. e + j \in 1 .. Len(m2) /\ (e + j <= Len(m) <=> j <= Len(h))
          /\ (e + j) - Len(m) = j - Len(h)
      BY <1>3, <1>16, <3>0
    <3>2. ASSUME j <= Len(h) PROVE h[j] = m[e + j]
      <4>1. j \in 1 .. Len(h)
        BY <1>3, <3>2
      <4>2. \A k \in 1 .. Len(h) : h[k] = m[e + k]
        BY <1>14 DEF PartOf
      <4> QED BY <4>1, <4>2
    <3>3. /\ h2[j] = IF j <= Len(h) THEN h[j] ELSE x[j - Len(h)]
          /\ m2[e + j] = IF e + j <= Len(m) THEN m[e + j] ELSE x[(e + j) - Len(m)]
      BY <1>1, <1>2, <3>1
    <3> QED BY <3>1, <3>2, <3>3
  <2>2. e + Len(h2) <= Len(m2)
    BY <1>16, <1>14
  <2> QED BY <2>1, <2>2 DEF PartOf
<1>8. PartOf(h2, m2, st[Len(q) + 1])
  BY <1>15 DEF e
<1>9. st \in [1 .. Len(q) + 1 -> 0 .. Len(m2)]
  BY <1>2, <1>3, <1>4
<1>10. PartOf(c, m2, 0)
  BY <1>4, <1>5
<1>11. \A i \in 1 .. Len(q) :
          IF q[i].kind = "rows"
          THEN st[i + 1] = st[i] + Len(q[i].batch) /\ PartOf(q[i].batch, m2, st[i])
          ELSE st[i + 1] = st[i]
  BY <1>4, <1>5, <1>6, <1>7
<1>12. st[Len(q) + 1] + Len(h2) = Len(m2)
  BY <1>16 DEF e
<1>13. ChainOf(c, q, h2, m2)
  BY <1>4, <1>8, <1>9, <1>10, <1>11, <1>12 DEF ChainOf
<1> QED BY <1>13 DEF m2, h2

(* What is in hand is posted, or an end is.                                *)
LEMMA ChainPosts ==
  ASSUME NEW c \in Seq(BurnRows), NEW q \in Seq(BurnSignals), NEW h \in Seq(BurnRows),
         NEW m \in Seq(BurnRows), NEW s \in BurnSignals, NEW left \in Seq(BurnRows),
         ChainOf(c, q, h, m),
         \/ s.kind = "rows" /\ s.batch = h /\ left = <<>>
         \/ s.kind # "rows" /\ left = h
  PROVE  ChainOf(c, Append(q, s), left, m)
<1> DEFINE q2 == Append(q, s)
<1>1. /\ Len(q2) = Len(q) + 1 /\ q2[Len(q) + 1] = s
      /\ \A i \in 1 .. Len(q) : q2[i] = q[i]
  BY AppendProperties
<1>2. Len(m) \in Nat /\ Len(h) \in Nat /\ Len(c) \in Nat /\ Len(q) \in Nat /\ Len(<<>>) = 0
  BY LenProperties, EmptySeq
<1>3. PICK st \in [1 .. Len(q) + 1 -> 0 .. Len(m)] :
        /\ st[1] = Len(c) /\ PartOf(c, m, 0)
        /\ \A i \in 1 .. Len(q) :
             IF q[i].kind = "rows"
             THEN st[i + 1] = st[i] + Len(q[i].batch) /\ PartOf(q[i].batch, m, st[i])
             ELSE st[i + 1] = st[i]
        /\ st[Len(q) + 1] + Len(h) = Len(m)
        /\ PartOf(h, m, st[Len(q) + 1])
  BY DEF ChainOf
<1> HIDE DEF q2
<1> DEFINE n == Len(q)
           e == IF s.kind = "rows" THEN Len(m) ELSE st[n + 1]
           st2 == [i \in 1 .. n + 2 |-> IF i <= n + 1 THEN st[i] ELSE e]
<1>4. e \in 0 .. Len(m) /\ st[n + 1] \in 0 .. Len(m)
  <2>1. st[n + 1] \in 0 .. Len(m)
    <3>1. n + 1 \in 1 .. Len(q) + 1
      BY <1>2
    <3>2. st \in [1 .. Len(q) + 1 -> 0 .. Len(m)]
      BY <1>3
    <3> HIDE DEF n
    <3> QED BY <3>1, <3>2
  <2>2. Len(m) \in 0 .. Len(m)
    BY <1>2
  <2> QED BY <2>1, <2>2
<1> HIDE DEF e
<1>5. /\ st2 \in [1 .. n + 2 -> 0 .. Len(m)] /\ st2[n + 2] = e /\ st2[n + 1] = st[n + 1]
      /\ st2[1] = st[1] /\ \A i \in 1 .. n : st2[i] = st[i] /\ st2[i + 1] = st[i + 1]
  <2>0. n \in Nat
    BY <1>2
  <2>1. \A i \in 1 .. n + 1 : st[i] \in 0 .. Len(m)
    BY <1>3
  <2>2. st2 \in [1 .. n + 2 -> 0 .. Len(m)]
    BY <1>4, <2>0, <2>1
  <2>3. \A i \in 1 .. n + 2 : st2[i] = IF i <= n + 1 THEN st[i] ELSE e
    OBVIOUS
  <2> HIDE DEF st2, n
  <2>4. st2[n + 2] = e /\ st2[n + 1] = st[n + 1] /\ st2[1] = st[1]
    BY <2>0, <2>3
  <2>5. \A i \in 1 .. n : st2[i] = st[i] /\ st2[i + 1] = st[i + 1]
    BY <2>0, <2>3
  <2> QED BY <2>2, <2>4, <2>5
<1>6. e + Len(left) = Len(m) /\ PartOf(left, m, e)
  BY <1>2, <1>3, <1>4 DEF PartOf, e
<1>7. IF s.kind = "rows" THEN e = st[n + 1] + Len(s.batch) /\ PartOf(s.batch, m, st[n + 1])
                         ELSE e = st[n + 1]
  BY <1>3 DEF e
<1> HIDE DEF st2
<1>8. \A i \in 1 .. Len(q2) :
          IF q2[i].kind = "rows"
          THEN st2[i + 1] = st2[i] + Len(q2[i].batch) /\ PartOf(q2[i].batch, m, st2[i])
          ELSE st2[i + 1] = st2[i]
  <2> TAKE i \in 1 .. Len(q2)
  <2>1. CASE i \in 1 .. n
    BY <1>1, <1>3, <1>5, <2>1
  <2>2. CASE i = n + 1
    BY <1>1, <1>2, <1>5, <1>7, <2>2
  <2> QED BY <1>1, <1>2, <2>1, <2>2
<1>9. st2[Len(q2) + 1] + Len(left) = Len(m) /\ PartOf(left, m, st2[Len(q2) + 1])
  BY <1>1, <1>2, <1>5, <1>6
<1>10. st2 \in [1 .. Len(q2) + 1 -> 0 .. Len(m)]
  BY <1>1, <1>2, <1>5
<1>11. ChainOf(c, q2, left, m)
  BY <1>3, <1>5, <1>8, <1>9, <1>10 DEF ChainOf
<1> QED BY <1>11 DEF q2

(* The first signal is delivered: a batch is written, the others are not.  *)
LEMMA ChainDelivers ==
  ASSUME NEW c \in Seq(BurnRows), NEW q \in Seq(BurnSignals), NEW h \in Seq(BurnRows),
         NEW m \in Seq(BurnRows), NEW w \in Seq(BurnRows), q # <<>>, ChainOf(c, q, h, m),
         \/ Head(q).kind = "rows" /\ w = c \o Head(q).batch
         \/ Head(q).kind # "rows" /\ w = c
  PROVE  ChainOf(w, Tail(q), h, m)
<1> DEFINE q2 == Tail(q)
           n == Len(q)
<1>1. /\ Len(q2) = n - 1 /\ n \in Nat /\ n >= 1 /\ Head(q) = q[1] /\ Head(q) \in BurnSignals
      /\ \A i \in 1 .. Len(q2) : q2[i] = q[i + 1]
  BY HeadTailProperties, EmptySeq, LenProperties
<1>2. Len(m) \in Nat /\ Len(h) \in Nat /\ Len(c) \in Nat /\ q[1].batch \in Seq(BurnRows)
      /\ Len(q[1].batch) \in Nat
  BY <1>1, LenProperties DEF BurnSignals
<1>3. PICK st \in [1 .. n + 1 -> 0 .. Len(m)] :
        /\ st[1] = Len(c) /\ PartOf(c, m, 0)
        /\ \A i \in 1 .. n :
             IF q[i].kind = "rows"
             THEN st[i + 1] = st[i] + Len(q[i].batch) /\ PartOf(q[i].batch, m, st[i])
             ELSE st[i + 1] = st[i]
        /\ st[n + 1] + Len(h) = Len(m)
        /\ PartOf(h, m, st[n + 1])
  BY DEF ChainOf
<1> HIDE DEF q2, n
<1> DEFINE st2 == [i \in 1 .. n |-> st[i + 1]]
<1>4. st2 \in [1 .. n -> 0 .. Len(m)] /\ \A i \in 1 .. n : st2[i] = st[i + 1]
  BY <1>1, <1>3
<1>5. /\ st2[1] = Len(w) /\ PartOf(w, m, 0)
  <2>1. CASE q[1].kind = "rows"
    <3> DEFINE b == q[1].batch
    <3>0. 1 \in 1 .. n /\ 1 + 1 = 2 /\ b \in Seq(BurnRows) /\ Len(b) \in Nat
      BY <1>1, <1>2
    <3>1. st[2] = Len(c) + Len(b) /\ PartOf(b, m, Len(c))
      BY <3>0, <1>3, <2>1
    <3>5. w = c \o b
      BY <1>1, <2>1
    <3> HIDE DEF b
    <3>2. /\ Len(w) = Len(c) + Len(b)
          /\ \A i \in 1 .. Len(w) : w[i] = IF i <= Len(c) THEN c[i] ELSE b[i - Len(c)]
      BY <3>0, <3>5, ConcatProperties
    <3>3. \A i \in 1 .. Len(w) : w[i] = m[0 + i]
      <4> TAKE i \in 1 .. Len(w)
      <4>1. CASE i <= Len(c)
        BY <1>2, <1>3, <3>2, <4>1 DEF PartOf
      <4>2. CASE ~(i <= Len(c))
        <5>1. i - Len(c) \in 1 .. Len(b) /\ Len(c) + (i - Len(c)) = i /\ 0 + i = i
          BY <1>2, <3>0, <3>2, <4>2
        <5>2. b[i - Len(c)] = m[Len(c) + (i - Len(c))]
          BY <3>1, <5>1 DEF PartOf
        <5> QED BY <3>2, <4>2, <5>1, <5>2
      <4> QED BY <4>1, <4>2
    <3>4. 0 + Len(w) <= Len(m)
      BY <1>2, <3>1, <3>2 DEF PartOf
    <3> QED BY <1>1, <1>4, <3>1, <3>2, <3>3, <3>4 DEF PartOf
  <2>2. CASE q[1].kind # "rows"
    BY <1>1, <1>3, <1>4, <2>2
  <2> QED BY <2>1, <2>2
<1> HIDE DEF st2
<1>6. \A i \in 1 .. Len(q2) :
          IF q2[i].kind = "rows"
          THEN st2[i + 1] = st2[i] + Len(q2[i].batch) /\ PartOf(q2[i].batch, m, st2[i])
          ELSE st2[i + 1] = st2[i]
  <2> TAKE i \in 1 .. Len(q2)
  <2>1. q2[i] = q[i + 1] /\ i \in 1 .. n /\ i + 1 \in 1 .. n
    BY <1>1
  <2> QED BY <1>3, <1>4, <2>1
<1>7. st2[Len(q2) + 1] = st[n + 1] /\ Len(q2) + 1 = n
  BY <1>1, <1>4
<1>8. ChainOf(w, q2, h, m)
  BY <1>3, <1>4, <1>5, <1>6, <1>7 DEF ChainOf
<1> QED BY <1>8 DEF q2

(* Where the chain begins and what it comes to.                            *)
LEMMA ChainBegins == ChainOf(<<>>, <<>>, <<>>, <<>>)
<1> DEFINE st == [i \in 1 .. 1 |-> 0]
<1>1. Len(<<>>) = 0
  BY EmptySeq
<1>2. st \in [1 .. Len(<<>>) + 1 -> 0 .. Len(<<>>)] /\ st[1] = 0
  BY <1>1
<1> HIDE DEF st
<1>3. PartOf(<<>>, <<>>, 0)
  BY <1>1 DEF PartOf
<1> QED BY <1>1, <1>2, <1>3 DEF ChainOf

LEMMA ChainEnds ==
  ASSUME NEW c \in Seq(BurnRows), NEW q \in Seq(BurnSignals), NEW h \in Seq(BurnRows),
         NEW m \in Seq(BurnRows), ChainOf(c, q, h, m)
  PROVE  /\ c = SubSeq(m, 1, Len(c))
         /\ q = <<>> => c \o h = m
         /\ q = <<>> /\ h = <<>> => c = m
         /\ m = <<>> => c = m
<1>1. Len(m) \in Nat /\ Len(h) \in Nat /\ Len(c) \in Nat /\ Len(<<>>) = 0
      /\ \A i \in 1 .. Len(m) : m[i] \in BurnRows
  BY LenProperties, EmptySeq
<1>2. PartOf(c, m, 0)
  BY DEF ChainOf
<1>3. c = SubSeq(m, 1, Len(c))
  <2>1. /\ SubSeq(m, 1, Len(c)) \in Seq(BurnRows) /\ Len(SubSeq(m, 1, Len(c))) = Len(c)
        /\ \A i \in 1 .. Len(c) : SubSeq(m, 1, Len(c))[i] = m[i]
    BY <1>1, <1>2, SubSeqProperties DEF PartOf
  <2> QED BY <1>1, <1>2, <2>1, SeqEqual DEF PartOf
<1>4. ASSUME q = <<>> PROVE c \o h = m
  <2>1. Len(c) + Len(h) = Len(m) /\ PartOf(h, m, Len(c))
    BY <1>1, <1>4 DEF ChainOf
  <2>2. /\ c \o h \in Seq(BurnRows) /\ Len(c \o h) = Len(m)
        /\ \A i \in 1 .. Len(m) : (c \o h)[i] = IF i <= Len(c) THEN c[i] ELSE h[i - Len(c)]
    BY <2>1, ConcatProperties
  <2>3. ASSUME NEW i \in 1 .. Len(m) PROVE (c \o h)[i] = m[i]
    <3>1. CASE i <= Len(c)
      <4>1. i \in 1 .. Len(c) /\ 0 + i = i
        BY <1>1, <3>1
      <4>2. c[i] = m[0 + i]
        BY <1>2, <4>1 DEF PartOf
      <4> QED BY <2>2, <3>1, <4>1, <4>2
    <3>2. CASE ~(i <= Len(c))
      <4>1. i - Len(c) \in 1 .. Len(h) /\ Len(c) + (i - Len(c)) = i
        BY <1>1, <2>1, <3>2
      <4>2. h[i - Len(c)] = m[Len(c) + (i - Len(c))]
        BY <2>1, <4>1 DEF PartOf
      <4> QED BY <2>2, <3>2, <4>1, <4>2
    <3> QED BY <3>1, <3>2
  <2> QED BY <2>2, <2>3, SeqEqual
<1>5. m = <<>> => c = m
  BY <1>1, <1>2, EmptySeq DEF PartOf
<1> QED BY <1>3, <1>4, <1>5, ConcatEmptySeq

LEMMA ChainEnded ==
  ASSUME NEW c \in Seq(BurnRows), NEW q \in Seq(BurnSignals), NEW h \in Seq(BurnRows),
         NEW m \in Seq(BurnRows), ChainOf(c, q, h, m), (q = <<>> /\ h = <<>>) \/ m = <<>>
  PROVE  c = m
BY ChainEnds

----------------------------------------------------------------------------
(* The thread of a burn test.                                              *)

LEMMA RunsAreFinite == IsFiniteSet(Runs) /\ IsFiniteSet(Sends) /\ IsFiniteSet(Peeked)
<1>1. IsFiniteSet(Runs) /\ IsFiniteSet(Sends)
  BY FS_Interval, BurnTestAssumption, UdpFramesAssumption DEF Runs, Sends
<1> QED BY <1>1, FS_Subset DEF Peeked

LEMMA NoRunIsNone == None \notin Runs /\ None \notin Nat
BY UdpFramesAssumption DEF Runs

LEMMA TwoPosted ==
  ASSUME NEW q \in Seq(BurnSignals), NEW a \in BurnSignals, NEW b \in BurnSignals
  PROVE  /\ q \o <<a, b>> = Append(Append(q, a), b)
         /\ (q \o <<a>>) \o <<b>> = Append(Append(q, a), b)
         /\ (q \o <<>>) \o <<b>> = Append(q, b)
         /\ Append(q, a) \in Seq(BurnSignals) /\ Append(q, b) \in Seq(BurnSignals)
         /\ Append(Append(q, a), b) \in Seq(BurnSignals)
<1>1. Append(q, a) \in Seq(BurnSignals) /\ Append(q, b) \in Seq(BurnSignals)
      /\ Append(Append(q, a), b) \in Seq(BurnSignals)
  BY AppendProperties
<1>2. q \o <<a>> = Append(q, a) /\ Append(Append(q, a), b) = Append(q, a) \o <<b>>
      /\ q \o <<b>> = Append(q, b)
  BY <1>1, AppendIsConcat
<1>3. <<a>> \in Seq(BurnSignals) /\ <<b>> \in Seq(BurnSignals) /\ <<a, b>> \in Seq(BurnSignals)
  OBVIOUS
<1>5. <<a>> \o <<b>> = <<a, b>>
  <2> DEFINE c == <<a>> \o <<b>>
  <2>1. c \in Seq(BurnSignals) /\ Len(c) = 2 /\ c[1] = a /\ c[2] = b
    BY <1>3, ConcatProperties
  <2> HIDE DEF c
  <2>2. Len(<<a, b>>) = 2 /\ \A i \in 1 .. Len(c) : c[i] = <<a, b>>[i]
    BY <2>1
  <2>3. c = <<a, b>>
    BY <1>3, <2>1, <2>2, SeqEqual
  <2> QED BY <2>3 DEF c
<1>4. q \o <<a, b>> = (q \o <<a>>) \o <<b>>
  <2> DEFINE x == <<a>>
             y == <<b>>
  <2>1. x \in Seq(BurnSignals) /\ y \in Seq(BurnSignals)
    BY <1>3
  <2> HIDE DEF x, y
  <2>2. (q \o x) \o y = q \o (x \o y)
    BY <2>1, ConcatAssociative
  <2> QED BY <1>5, <2>2 DEF x, y
<1> QED BY <1>1, <1>2, <1>4, ConcatEmptySeq

(* A reply takes its frame out of the table.                               *)
LEMMA Pops ==
  ASSUME NEW t \in Seq(Sends), NEW i0 \in 1 .. Len(t),
         \A i, j \in 1 .. Len(t) : t[i] = t[j] => i = j
  PROVE  /\ pop(t, t[i0]) \in Seq(Sends)
         /\ Len(pop(t, t[i0])) = Len(t) - 1
         /\ \A i \in 1 .. Len(t) - 1 : pop(t, t[i0])[i] = IF i < i0 THEN t[i] ELSE t[i + 1]
<1>1. Len(t) \in Nat /\ \A i \in 1 .. Len(t) : t[i] \in Sends
  BY LenProperties
<1>2. pop(t, t[i0]) = RemoveAt(t, i0)
  <2>1. (CHOOSE i \in 1 .. Len(t) : t[i] = t[i0]) = i0
    OBVIOUS
  <2> QED BY <2>1 DEF pop, Contains
<1> DEFINE a == SubSeq(t, 1, i0 - 1)
           b == SubSeq(t, i0 + 1, Len(t))
<1>3. /\ a \in Seq(Sends) /\ Len(a) = i0 - 1 /\ \A i \in 1 .. i0 - 1 : a[i] = t[i]
  <2>1. \A i \in 1 .. i0 - 1 : t[i] \in Sends
    BY <1>1
  <2>2. /\ a \in Seq(Sends) /\ Len(a) = IF 1 <= i0 - 1 THEN i0 - 1 - 1 + 1 ELSE 0
        /\ \A i \in 1 .. i0 - 1 - 1 + 1 : a[i] = t[1 + i - 1]
    BY <2>1, <1>1, SubSeqProperties
  <2> HIDE DEF a
  <2> QED BY <1>1, <2>2
<1>4. /\ b \in Seq(Sends) /\ Len(b) = Len(t) - i0 /\ \A i \in 1 .. Len(t) - i0 : b[i] = t[i0 + i]
  <2>1. \A i \in i0 + 1 .. Len(t) : t[i] \in Sends
    BY <1>1
  <2>2. /\ b \in Seq(Sends)
        /\ Len(b) = IF i0 + 1 <= Len(t) THEN Len(t) - (i0 + 1) + 1 ELSE 0
        /\ \A i \in 1 .. Len(t) - (i0 + 1) + 1 : b[i] = t[(i0 + 1) + i - 1]
    BY <2>1, <1>1, SubSeqProperties
  <2> HIDE DEF b
  <2> QED BY <1>1, <2>2
<1>5. RemoveAt(t, i0) = a \o b
  BY DEF RemoveAt
<1> HIDE DEF a, b
<1>6. /\ a \o b \in Seq(Sends) /\ Len(a \o b) = Len(a) + Len(b)
      /\ \A i \in 1 .. Len(a) + Len(b) : (a \o b)[i] = IF i <= Len(a) THEN a[i] ELSE b[i - Len(a)]
  <2> a \in Seq(Sends) /\ b \in Seq(Sends)
    BY <1>3, <1>4
  <2> QED BY ConcatProperties
<1>7. ASSUME NEW i \in 1 .. Len(t) - 1 PROVE (a \o b)[i] = IF i < i0 THEN t[i] ELSE t[i + 1]
  <2>1. CASE i < i0
    BY <1>1, <1>3, <1>4, <1>6, <2>1
  <2>2. CASE ~(i < i0)
    <3>1. i - (i0 - 1) \in 1 .. Len(t) - i0 /\ i0 + (i - (i0 - 1)) = i + 1
      BY <1>1, <2>2
    <3>2. (a \o b)[i] = b[i - (i0 - 1)]
      BY <1>1, <1>3, <1>4, <1>6, <2>2
    <3> QED BY <1>4, <2>2, <3>1, <3>2
  <2> QED BY <2>1, <2>2
<1>8. pop(t, t[i0]) = a \o b
  BY <1>2, <1>5
<1>9. Len(a \o b) = Len(t) - 1
  BY <1>1, <1>3, <1>4, <1>6
<1> QED BY <1>6, <1>7, <1>8, <1>9

LEMMA TimeoutRowsAre ==
  ASSUME NEW ns \in Seq(Sends)
  PROVE  /\ TimeoutRows(ns) \in Seq(BurnRows) /\ Len(TimeoutRows(ns)) = Len(ns)
         /\ \A i \in 1 .. Len(ns) : TimeoutRows(ns)[i] = [n |-> ns[i], result |-> "TIMEOUT"]
<1>1. Len(ns) \in Nat /\ \A i \in 1 .. Len(ns) : ns[i] \in Sends
  BY LenProperties
<1>2. \A i \in 1 .. Len(ns) : [n |-> ns[i], result |-> "TIMEOUT"] \in BurnRows
  BY <1>1 DEF BurnRows, BurnResults
<1> QED BY <1>1, <1>2 DEF TimeoutRows, BurnRow

LEMMA Splits ==
  ASSUME NEW t \in Seq(Sends), NEW k \in 0 .. Len(t)
  PROVE  /\ SubSeq(t, 1, k) \in Seq(Sends) /\ Len(SubSeq(t, 1, k)) = k
         /\ \A i \in 1 .. k : SubSeq(t, 1, k)[i] = t[i]
         /\ SubSeq(t, k + 1, Len(t)) \in Seq(Sends)
         /\ Len(SubSeq(t, k + 1, Len(t))) = Len(t) - k
         /\ \A i \in 1 .. Len(t) - k : SubSeq(t, k + 1, Len(t))[i] = t[k + i]
<1>1. Len(t) \in Nat /\ k \in Nat /\ \A i \in 1 .. Len(t) : t[i] \in Sends
  BY LenProperties
<1> DEFINE a == SubSeq(t, 1, k)
           b == SubSeq(t, k + 1, Len(t))
<1>2. /\ a \in Seq(Sends) /\ Len(a) = IF 1 <= k THEN k - 1 + 1 ELSE 0
      /\ \A i \in 1 .. k - 1 + 1 : a[i] = t[1 + i - 1]
  BY <1>1, SubSeqProperties
<1>3. /\ b \in Seq(Sends) /\ Len(b) = IF k + 1 <= Len(t) THEN Len(t) - (k + 1) + 1 ELSE 0
      /\ \A i \in 1 .. Len(t) - (k + 1) + 1 : b[i] = t[(k + 1) + i - 1]
  BY <1>1, SubSeqProperties
<1> HIDE DEF a, b
<1>4. Len(a) = k /\ \A i \in 1 .. k : a[i] = t[i]
  BY <1>1, <1>2
<1>5. Len(b) = Len(t) - k /\ \A i \in 1 .. Len(t) - k : b[i] = t[k + i]
  BY <1>1, <1>3
<1> QED BY <1>2, <1>3, <1>4, <1>5 DEF a, b

(* New rows are joined to those a run has made.                            *)
LEMMA RowsJoin ==
  ASSUME BurnTypes, NEW r \in Runs, NEW new \in Seq(BurnRows), NEW left \in Seq(BurnRows),
         made' = [made EXCEPT ![r] = @ \o new], inHand' = [inHand EXCEPT ![r] = left]
  PROVE  /\ made' \in [Runs -> Seq(BurnRows)] /\ inHand' \in [Runs -> Seq(BurnRows)]
         /\ made'[r] = made[r] \o new /\ inHand'[r] = left
         /\ \A s \in Runs \ {r} : made'[s] = made[s] /\ inHand'[s] = inHand[s]
         /\ Len(made'[r]) = Len(made[r]) + Len(new)
         /\ \A i \in 1 .. Len(made[r]) + Len(new) :
              made'[r][i] = IF i <= Len(made[r]) THEN made[r][i] ELSE new[i - Len(made[r])]
<1>1. made[r] \in Seq(BurnRows)
  BY DEF BurnTypes
<1>2. /\ made[r] \o new \in Seq(BurnRows) /\ Len(made[r] \o new) = Len(made[r]) + Len(new)
      /\ \A i \in 1 .. Len(made[r]) + Len(new) :
           (made[r] \o new)[i] = IF i <= Len(made[r]) THEN made[r][i] ELSE new[i - Len(made[r])]
  BY <1>1, ConcatProperties
<1> DEFINE m == made[r] \o new
<1>3. /\ m \in Seq(BurnRows) /\ made' = [made EXCEPT ![r] = m] /\ Len(m) = Len(made[r]) + Len(new)
      /\ \A i \in 1 .. Len(made[r]) + Len(new) :
           m[i] = IF i <= Len(made[r]) THEN made[r][i] ELSE new[i - Len(made[r])]
  BY <1>2
<1> HIDE DEF m
<1>4. made' \in [Runs -> Seq(BurnRows)] /\ inHand' \in [Runs -> Seq(BurnRows)]
      /\ made'[r] = m /\ inHand'[r] = left
      /\ \A s \in Runs \ {r} : made'[s] = made[s] /\ inHand'[s] = inHand[s]
  <2>1. made \in [Runs -> Seq(BurnRows)] /\ m \in Seq(BurnRows) /\ made' = [made EXCEPT ![r] = m]
    BY <1>3 DEF BurnTypes
  <2>2. inHand \in [Runs -> Seq(BurnRows)]
    BY DEF BurnTypes
  <2>3. /\ made' \in [Runs -> Seq(BurnRows)] /\ made'[r] = m
        /\ \A s \in Runs \ {r} : made'[s] = made[s]
    BY <2>1
  <2>4. /\ inHand' \in [Runs -> Seq(BurnRows)] /\ inHand'[r] = left
        /\ \A s \in Runs \ {r} : inHand'[s] = inHand[s]
    BY <2>2
  <2> QED BY <2>3, <2>4
<1> QED BY <1>3, <1>4 DEF m

LEMMA CounterFits ==
  ASSUME BurnTypes, CounterBound
  PROVE  /\ counter <= MaxSends /\ burnAir \subseteq Sends /\ Cardinality(Peeked) \in Nat
         /\ \A r \in Runs : at[r] = "peeked" => counter + 1 <= MaxSends
<1>1. Cardinality(Peeked) \in Nat
  BY RunsAreFinite, FS_CardinalityType
<1>2. counter <= MaxSends /\ burnAir \subseteq Sends
  BY <1>1, UdpFramesAssumption DEF BurnTypes, CounterBound, Sends
<1>3. ASSUME NEW r \in Runs, at[r] = "peeked" PROVE counter + 1 <= MaxSends
  <2>1. Peeked # {}
    BY <1>3 DEF Peeked
  <2>2. Cardinality(Peeked) # 0
    BY <2>1, RunsAreFinite, FS_EmptySet
  <2> QED BY <1>1, <2>2, UdpFramesAssumption DEF BurnTypes, CounterBound
<1> QED BY <1>1, <1>2, <1>3

(* What a reply does.                                                      *)
Replied(r, n, row) ==
  /\ row.n = n /\ (row.result \in {"OK", "CRC_FAIL"} <=> InTable(r, n))
  /\ row.result \in {"OK", "CRC_FAIL", "UNSOLICITED"}
  /\ made' = [made EXCEPT ![r] = @ \o <<row>>]
  /\ inHand' = [inHand EXCEPT ![r] = inHand[r] \o <<row>>]
  /\ table' = [table EXCEPT ![r] = pop(@, n)]
  /\ count' \in {count, [count EXCEPT ![r].ok = @ + 1]}

LEMMA DrainStep ==
  ASSUME BurnInv, NEW r \in Runs, NEW n \in burnAir, NEW good \in BOOLEAN, NEW again \in BOOLEAN,
         Drain(r, n, good, again)
  PROVE  \E row \in BurnRows : Replied(r, n, row)
<1> DEFINE result == IF ~InTable(r, n) THEN "UNSOLICITED" ELSE IF good THEN "OK" ELSE "CRC_FAIL"
           row == [n |-> n, result |-> result]
<1>1. row \in BurnRows
  BY CounterFits DEF BurnInv, BurnRows, BurnResults
<1>2. Append(inHand[r], row) = inHand[r] \o <<row>>
  BY <1>1, AppendIsConcat DEF BurnInv, BurnTypes
<1> QED BY <1>1, <1>2 DEF Drain, handle_response, Makes, BurnRow, InTable, Contains, Replied

LEMMA BurnRunTypes ==
  ASSUME BurnInv, NEW r \in Runs, BurnRun(r)
  PROVE  BurnTypes'
<1> USE DEF burnGuiVars, Steps
<1>0. BurnTypes /\ <<>> \in Seq(BurnRows) /\ <<>> \in Seq(Sends)
  BY EmptySeq DEF BurnInv
<1>a. /\ table[r] \in Seq(Sends) /\ inHand[r] \in Seq(BurnRows) /\ made[r] \in Seq(BurnRows)
      /\ burnPosted \in Seq(BurnSignals) /\ counter \in Nat
      /\ carried[r] \in [Sends -> OrNone(Nat)]
  BY <1>0 DEF BurnTypes
<1>b. ASSUME NEW i \in Nat
      PROVE  /\ [count EXCEPT ![r].sent = @ + 1] \in [Runs -> [sent : Nat, ok : Nat, timeouts : Nat]]
             /\ [count EXCEPT ![r].ok = @ + 1] \in [Runs -> [sent : Nat, ok : Nat, timeouts : Nat]]
             /\ [count EXCEPT ![r].timeouts = @ + i] \in [Runs -> [sent : Nat, ok : Nat, timeouts : Nat]]
  <2>1. count \in [Runs -> [sent : Nat, ok : Nat, timeouts : Nat]]
    BY <1>0 DEF BurnTypes
  <2>2. count[r].sent + 1 \in Nat /\ count[r].ok + 1 \in Nat /\ count[r].timeouts + i \in Nat
    BY <2>1
  <2> QED BY <2>1, <2>2
<1>1. CASE Bind(r)
  <2> DEFINE e == BurnSignal("error", r, <<>>)
             s == BurnSignal("stopped", r, <<>>)
  <2>1. e \in BurnSignals /\ s \in BurnSignals
    BY <1>0 DEF BurnSignal, BurnSignals
  <2>2. UNCHANGED burnPosted \/ burnPosted' = burnPosted \o <<e, s>>
    BY <1>1 DEF Bind
  <2> HIDE DEF e, s
  <2>3. burnPosted' \in Seq(BurnSignals)
    <3>1. /\ burnPosted \o <<e, s>> = Append(Append(burnPosted, e), s)
          /\ Append(Append(burnPosted, e), s) \in Seq(BurnSignals)
      BY <1>a, <2>1, TwoPosted
    <3>2. CASE UNCHANGED burnPosted
      BY <1>a, <3>2
    <3>3. CASE burnPosted' = burnPosted \o <<e, s>>
      BY <3>1, <3>3
    <3> QED BY <2>2, <3>2, <3>3
  <2> QED BY <1>0, <1>1, <2>3 DEF Bind, BurnTypes
<1>2. CASE BurnBegins(r) \/ BurnLoopTest(r) \/ Drained(r)
  <2>1. at' \in [Runs -> {"unborn", "binding", "ready", "loop", "drain", "peeked", "evict",
                         "flush", "over"}]
    BY <1>0, <1>2 DEF BurnBegins, BurnLoopTest, Drained, BurnTypes
  <2>2. going' \in [Runs -> BOOLEAN]
    BY <1>0, <1>2 DEF BurnBegins, BurnLoopTest, Drained, BurnTypes
  <2>3. UNCHANGED <<burnGuiVars, key, table, inHand, count, made, carried, burnPosted, counter,
                    burnAir>>
    BY <1>2 DEF BurnBegins, BurnLoopTest, Drained
  <2> QED BY <1>0, <2>1, <2>2, <2>3 DEF BurnTypes
<1>3. CASE Peek(r)
  BY <1>0, <1>3 DEF Peek, BurnTypes
<1>4. CASE Send(r)
  <2>1. key[r] \in Sends
    BY <1>4 DEF Send, BurnInv, KeysFresh
  <2>2. table' \in [Runs -> Seq(Sends)]
    <3>1. Append(table[r], key[r]) \in Seq(Sends)
      BY <1>a, <2>1, AppendProperties
    <3>2. table \in [Runs -> Seq(Sends)]
      BY <1>0 DEF BurnTypes
    <3>3. table' = table \/ table' = [table EXCEPT ![r] = Append(table[r], key[r])]
      BY <1>4 DEF Send
    <3> QED BY <3>1, <3>2, <3>3
  <2>3. carried' \in [Runs -> [Sends -> OrNone(Nat)]]
    <3>1. [carried[r] EXCEPT ![key[r]] = counter + 1] \in [Sends -> OrNone(Nat)]
      BY <1>a, <2>1 DEF OrNone
    <3>2. UNCHANGED carried \/ carried' = [carried EXCEPT ![r] = [carried[r] EXCEPT ![key[r]] = counter + 1]]
      BY <1>4 DEF Send
    <3> QED BY <1>0, <3>1, <3>2 DEF BurnTypes
  <2>4. count' \in [Runs -> [sent : Nat, ok : Nat, timeouts : Nat]]
    BY <1>0, <1>4, <1>b DEF Send, BurnTypes
  <2>5. counter' \in Nat /\ burnAir' \subseteq 1 .. counter'
    BY <1>0, <1>4 DEF Send, BurnTypes
  <2> QED BY <1>0, <1>4, <2>2, <2>3, <2>4, <2>5 DEF Send, BurnTypes
<1>5. ASSUME NEW n \in burnAir, NEW good \in BOOLEAN, NEW again \in BOOLEAN,
             Drain(r, n, good, again)
      PROVE  BurnTypes'
  <2>r. PICK row \in BurnRows : Replied(r, n, row)
    BY <1>5, DrainStep
  <2>1. made' \in [Runs -> Seq(BurnRows)] /\ inHand' \in [Runs -> Seq(BurnRows)]
    <3>1. <<row>> \in Seq(BurnRows) /\ inHand[r] \o <<row>> \in Seq(BurnRows)
      BY <1>a, ConcatProperties
    <3> QED BY <1>0, <2>r, <3>1, RowsJoin DEF Replied
  <2>2. table' \in [Runs -> Seq(Sends)]
    <3>1. pop(table[r], n) \in Seq(Sends)
      <4>1. CASE ~InTable(r, n)
        BY <1>a, <4>1 DEF pop, Contains, InTable
      <4>2. CASE InTable(r, n)
        <5>1. PICK i \in 1 .. Len(table[r]) : table[r][i] = n
          BY <4>2 DEF InTable
        <5>2. \A j, l \in 1 .. Len(table[r]) : table[r][j] = table[r][l] => j = l
          BY DEF BurnInv, Accounted, RowsMatch
        <5> QED BY <1>a, <5>1, <5>2, Pops
      <4> QED BY <4>1, <4>2
    <3> QED BY <1>0, <2>r, <3>1 DEF BurnTypes, Replied
  <2>3. count' \in [Runs -> [sent : Nat, ok : Nat, timeouts : Nat]]
    BY <1>0, <1>b, <2>r DEF BurnTypes, Replied
  <2>4. UNCHANGED <<burnGuiVars, at, going, key, burnPosted, counter, carried>>
        /\ burnAir' \subseteq burnAir
    BY <1>5 DEF Drain
  <2> QED BY <1>0, <2>1, <2>2, <2>3, <2>4 DEF BurnTypes
<1>6. ASSUME NEW k \in 0 .. Len(table[r]), NEW due \in BOOLEAN, Turn(r, k, due)
      PROVE  BurnTypes'
  <2> DEFINE new == TimeoutRows(SubSeq(table[r], 1, k))
             batch == inHand[r] \o new
             left == IF due /\ batch # <<>> THEN <<>> ELSE batch
             s == BurnSignal("rows", r, batch)
  <2>1. new \in Seq(BurnRows)
    BY <1>a, Splits, TimeoutRowsAre
  <2>2. batch \in Seq(BurnRows)
    <3> HIDE DEF new
    <3> QED BY <1>a, <2>1, ConcatProperties
  <2>3. made' = [made EXCEPT ![r] = @ \o new] /\ inHand' = [inHand EXCEPT ![r] = left]
    BY <1>6 DEF Turn, Makes
  <2>4. UNCHANGED burnPosted \/ burnPosted' = Append(burnPosted, s)
    BY <1>6 DEF Turn
  <2>5. s \in BurnSignals /\ left \in Seq(BurnRows)
    BY <1>0, <2>2 DEF BurnSignal, BurnSignals
  <2> HIDE DEF s, left, batch, new
  <2>6. made' \in [Runs -> Seq(BurnRows)] /\ inHand' \in [Runs -> Seq(BurnRows)]
    BY <1>0, <2>1, <2>3, <2>5, RowsJoin
  <2>7. burnPosted' \in Seq(BurnSignals)
    <3>1. Append(burnPosted, s) \in Seq(BurnSignals)
      BY <1>a, <2>5, AppendProperties
    <3> QED BY <1>a, <2>4, <3>1
  <2>8. table' \in [Runs -> Seq(Sends)]
    <3>1. table' = [table EXCEPT ![r] = SubSeq(table[r], k + 1, Len(table[r]))]
      BY <1>6 DEF Turn
    <3>2. SubSeq(table[r], k + 1, Len(table[r])) \in Seq(Sends)
      BY <1>a, Splits
    <3> QED BY <1>0, <3>1, <3>2 DEF BurnTypes
  <2>9. count' \in [Runs -> [sent : Nat, ok : Nat, timeouts : Nat]]
    <3>1. k \in Nat
      BY <1>a, LenProperties
    <3> QED BY <1>6, <1>b, <3>1 DEF Turn
  <2>10. UNCHANGED <<burnGuiVars, going, key, carried, counter, burnAir>> /\ Steps(r, "evict", "loop")
    BY <1>6 DEF Turn
  <2> QED BY <1>0, <2>6, <2>7, <2>8, <2>9, <2>10 DEF BurnTypes
<1>7. CASE Flush(r)
  <2> DEFINE new == TimeoutRows(table[r])
             batch == inHand[r] \o new
             b == BurnSignal("rows", r, batch)
             s == BurnSignal("stopped", r, <<>>)
  <2>1. new \in Seq(BurnRows) /\ Len(new) \in Nat
    BY <1>a, TimeoutRowsAre, LenProperties
  <2>2. batch \in Seq(BurnRows)
    <3> HIDE DEF new
    <3> QED BY <1>a, <2>1, ConcatProperties
  <2>3. b \in BurnSignals /\ s \in BurnSignals
    BY <1>0, <2>2 DEF BurnSignal, BurnSignals
  <2>4. made' = [made EXCEPT ![r] = @ \o new] /\ inHand' = [inHand EXCEPT ![r] = <<>>]
    BY <1>7 DEF Flush
  <2>5. \/ burnPosted' = (burnPosted \o <<>>) \o <<s>>
        \/ burnPosted' = (burnPosted \o <<b>>) \o <<s>>
    BY <1>7 DEF Flush
  <2>6. count' = [count EXCEPT ![r].timeouts = @ + Len(new)]
    BY <1>7 DEF Flush
  <2> HIDE DEF s, b, batch, new
  <2>7. made' \in [Runs -> Seq(BurnRows)] /\ inHand' \in [Runs -> Seq(BurnRows)]
    BY <1>0, <2>1, <2>4, RowsJoin
  <2>8. burnPosted' \in Seq(BurnSignals)
    <3>1. /\ (burnPosted \o <<>>) \o <<s>> = Append(burnPosted, s)
          /\ (burnPosted \o <<b>>) \o <<s>> = Append(Append(burnPosted, b), s)
          /\ Append(burnPosted, s) \in Seq(BurnSignals)
          /\ Append(Append(burnPosted, b), s) \in Seq(BurnSignals)
      BY <1>a, <2>3, TwoPosted
    <3> QED BY <2>5, <3>1
  <2>9. count' \in [Runs -> [sent : Nat, ok : Nat, timeouts : Nat]]
    BY <1>b, <2>1, <2>6
  <2>10. table' \in [Runs -> Seq(Sends)]
    BY <1>0, <1>7 DEF Flush, BurnTypes
  <2>11. UNCHANGED <<burnGuiVars, going, key, carried, counter, burnAir>> /\ Steps(r, "flush", "over")
    BY <1>7 DEF Flush
  <2> QED BY <1>0, <2>7, <2>8, <2>9, <2>10, <2>11 DEF BurnTypes
<1> QED BY <1>1, <1>2, <1>3, <1>4, <1>5, <1>6, <1>7 DEF BurnRun

LEMMA BurnWindowTypes ==
  ASSUME BurnInv,
         \/ BurnSlots \/ Stop \/ TakeNumber \/ UNCHANGED burnVars
         \/ \E r \in Runs, withLog \in BOOLEAN : Start(r, withLog)
         \/ \E n \in burnAir : BurnLose(n)
  PROVE  BurnTypes'
<1> USE NoRunIsNone DEF burnGuiVars, burnThreadVars, OrNone
<1>0. BurnTypes /\ <<>> \in Seq(BurnRows) /\ csv \in Seq(BurnRows) /\ burnPosted \in Seq(BurnSignals)
  BY EmptySeq DEF BurnInv, BurnTypes
<1>1. CASE BurnStopReturns
  BY <1>0, <1>1 DEF BurnStopReturns, BurnTypes
<1>2. CASE append_rows \/ on_burn_stopped \/ on_burn_error
  <2>1. burnPosted # <<>> /\ burnPosted' = Tail(burnPosted) /\ ~waiting
    BY <1>2 DEF append_rows, on_burn_stopped, on_burn_error, BurnDelivers
  <2>2. burnPosted' \in Seq(BurnSignals) /\ Head(burnPosted).batch \in Seq(BurnRows)
    <3>1. Head(burnPosted) \in BurnSignals /\ Tail(burnPosted) \in Seq(BurnSignals)
      BY <1>0, <2>1, HeadTailProperties
    <3> QED BY <2>1, <3>1 DEF BurnSignals
  <2>3. csv' \in Seq(BurnRows)
    <3>1. csv \o Head(burnPosted).batch \in Seq(BurnRows)
      BY <1>0, <2>2, ConcatProperties
    <3> QED BY <1>0, <1>2, <3>1 DEF append_rows, on_burn_stopped, on_burn_error
  <2>4. CASE append_rows
    BY <1>0, <2>2, <2>3, <2>4 DEF append_rows, BurnTypes
  <2>5. CASE on_burn_stopped
    BY <1>0, <2>2, <2>3, <2>5 DEF on_burn_stopped, BurnTypes
  <2>6. CASE on_burn_error
    BY <1>0, <2>2, <2>3, <2>6 DEF on_burn_error, BurnTypes
  <2> QED BY <1>2, <2>4, <2>5, <2>6
<1>3. CASE Stop
  BY <1>0, <1>3 DEF Stop, BurnTypes
<1>4. CASE TakeNumber
  BY <1>0, <1>4 DEF TakeNumber, BurnTypes
<1>5. ASSUME NEW r \in Runs, NEW withLog \in BOOLEAN, Start(r, withLog) PROVE BurnTypes'
  BY <1>0, <1>5 DEF Start, Clickable, BurnTypes
<1>6. ASSUME NEW n \in burnAir, BurnLose(n) PROVE BurnTypes'
  BY <1>0, <1>6 DEF BurnLose, BurnTypes
<1>7. CASE UNCHANGED burnVars
  BY <1>0, <1>7 DEF burnVars, BurnTypes
<1> QED BY <1>1, <1>2, <1>3, <1>4, <1>5, <1>6, <1>7 DEF BurnSlots

(* Message numbers.  All steps but three leave them alone.                 *)
NumbersKept ==
  /\ UNCHANGED <<key, carried, counter>>
  /\ \A s \in Runs : at'[s] = "peeked" <=> at[s] = "peeked"

LEMMA RunNumbers ==
  ASSUME BurnTypes, NEW r \in Runs, BurnRun(r)
  PROVE  NumbersKept \/ Peek(r) \/ Send(r)
<1>2. at \in [Runs -> {"unborn", "binding", "ready", "loop", "drain", "peeked", "evict",
                      "flush", "over"}]
  BY DEF BurnTypes
<1>3. CASE Bind(r) \/ BurnBegins(r) \/ BurnLoopTest(r) \/ Drained(r)
  BY <1>2, <1>3 DEF Bind, BurnBegins, BurnLoopTest, Drained, Steps, NumbersKept
<1>4. CASE \E n \in burnAir, good, again \in BOOLEAN : Drain(r, n, good, again)
  BY <1>4 DEF Drain, NumbersKept
<1>5. CASE \E k \in 0 .. Len(table[r]), due \in BOOLEAN : Turn(r, k, due)
  BY <1>2, <1>5 DEF Turn, Steps, NumbersKept
<1>6. CASE Flush(r)
  BY <1>2, <1>6 DEF Flush, Steps, NumbersKept
<1> QED BY <1>3, <1>4, <1>5, <1>6 DEF BurnRun

LEMMA WindowNumbers ==
  ASSUME BurnTypes,
         \/ BurnSlots \/ Stop \/ TakeNumber \/ UNCHANGED burnVars
         \/ \E r \in Runs, withLog \in BOOLEAN : Start(r, withLog)
         \/ \E n \in burnAir : BurnLose(n)
  PROVE  NumbersKept \/ TakeNumber
<1> USE DEF burnThreadVars, NumbersKept
<1>1. CASE BurnSlots
  BY <1>1 DEF BurnSlots, BurnStopReturns, append_rows, on_burn_stopped, on_burn_error
<1>2. CASE Stop \/ UNCHANGED burnVars \/ \E n \in burnAir : BurnLose(n)
  BY <1>2 DEF Stop, burnVars, BurnLose
<1>3. CASE \E r \in Runs, withLog \in BOOLEAN : Start(r, withLog)
  BY <1>3 DEF Start, BurnTypes
<1> QED BY <1>1, <1>2, <1>3

LEMMA NumbersInv ==
  ASSUME BurnInv, NumbersKept \/ TakeNumber \/ \E r \in Runs : Peek(r) \/ Send(r)
  PROVE  CounterBound' /\ KeysFresh'
<1>0. /\ BurnTypes /\ counter \in Nat /\ Cardinality(Peeked) \in Nat /\ MaxSends \in Nat
      /\ counter + Cardinality(Peeked) <= MaxSends
  BY CounterFits, UdpFramesAssumption DEF BurnInv, BurnTypes, CounterBound
<1>k. KeysFresh /\ \A s \in Runs : FramesOf(s) \subseteq Sends
  BY DEF BurnInv, FramesOf
<1>1. CASE NumbersKept
  <2>1. Peeked' = Peeked /\ counter' = counter
    BY <1>1 DEF NumbersKept, Peeked
  <2>2. CounterBound'
    BY <1>0, <2>1 DEF CounterBound
  <2>3. KeysFresh'
    BY <1>1, <1>k DEF NumbersKept, KeysFresh, FramesOf
  <2> QED BY <2>2, <2>3
<1>2. CASE TakeNumber
  <2>1. Peeked' = Peeked /\ counter' = counter + 1 /\ counter + Cardinality(Peeked) < MaxSends
        /\ UNCHANGED <<at, key, carried>>
    BY <1>2 DEF TakeNumber, NumbersLeft, Peeked, burnThreadVars
  <2>2. CounterBound'
    BY <1>0, <2>1 DEF CounterBound
  <2>3. KeysFresh'
    <3> SUFFICES ASSUME NEW s \in Runs
                 PROVE  /\ at[s] = "peeked" => key[s] \in Sends /\ key[s] <= counter + 1 + 1
                        /\ \A n \in FramesOf(s) : n <= counter + 1
                                                 /\ (at[s] = "peeked" => n < key[s])
      BY <2>1 DEF KeysFresh, FramesOf
    <3> QED BY <1>0, <1>k DEF KeysFresh, Sends
  <2> QED BY <2>2, <2>3
<1>3. ASSUME NEW r \in Runs, Peek(r) PROVE CounterBound' /\ KeysFresh'
  <2>1. /\ counter' = counter /\ carried' = carried /\ counter + Cardinality(Peeked) < MaxSends
        /\ at[r] = "drain" /\ at' = [at EXCEPT ![r] = "peeked"]
        /\ key' = [key EXCEPT ![r] = counter + 1]
    BY <1>3 DEF Peek, NumbersLeft, Peeked, Steps
  <2>2. Peeked' = Peeked \cup {r} /\ r \notin Peeked
    BY <1>0, <2>1 DEF Peeked, BurnTypes
  <2>3. Cardinality(Peeked') = Cardinality(Peeked) + 1
    BY <2>2, RunsAreFinite, FS_AddElement
  <2>4. CounterBound'
    BY <1>0, <2>1, <2>3 DEF CounterBound
  <2>5. KeysFresh'
    <3> SUFFICES ASSUME NEW s \in Runs
                 PROVE  /\ at'[s] = "peeked" => key'[s] \in Sends /\ key'[s] <= counter + 1
                        /\ \A n \in FramesOf(s) : n <= counter
                                                 /\ (at'[s] = "peeked" => n < key'[s])
      BY <2>1 DEF KeysFresh, FramesOf
    <3>1. CASE s = r
      <4>1. key'[s] = counter + 1 /\ counter + 1 \in Sends
        BY <1>0, <2>1, <3>1 DEF BurnTypes, Sends
      <4> QED BY <1>0, <1>k, <4>1 DEF KeysFresh, Sends
    <3>2. CASE s # r
      BY <1>0, <1>k, <2>1, <3>2 DEF KeysFresh, BurnTypes
    <3> QED BY <3>1, <3>2
  <2> QED BY <2>4, <2>5
<1>4. ASSUME NEW r \in Runs, Send(r) PROVE CounterBound' /\ KeysFresh'
  <2>1. /\ counter' = counter + 1
        /\ at[r] = "peeked" /\ at' = [at EXCEPT ![r] = "evict"]
        /\ key' = [key EXCEPT ![r] = None]
        /\ carried' = [carried EXCEPT ![r][key[r]] = counter + 1] \/ carried' = carried
    BY <1>4 DEF Send, Steps
  <2>2. Peeked' = Peeked \ {r} /\ r \in Peeked
    BY <1>0, <2>1 DEF Peeked, BurnTypes
  <2>3. Cardinality(Peeked') = Cardinality(Peeked) - 1
    BY <2>2, RunsAreFinite, FS_RemoveElement
  <2>4. CounterBound'
    BY <1>0, <2>1, <2>3 DEF CounterBound
  <2>5. KeysFresh'
    <3> SUFFICES ASSUME NEW s \in Runs
                 PROVE  /\ at'[s] = "peeked" => key'[s] \in Sends /\ key'[s] <= counter + 1 + 1
                        /\ \A n \in FramesOf(s)' : n <= counter + 1
                                                  /\ (at'[s] = "peeked" => n < key'[s])
      BY <2>1 DEF KeysFresh
    <3>1. CASE s = r
      <4>1. \A n \in FramesOf(s)' : n \in FramesOf(s) \/ n = key[s]
        BY <1>0, <2>1, <3>1 DEF FramesOf, BurnTypes
      <4>2. at'[s] = "evict"
        BY <1>0, <2>1, <3>1 DEF BurnTypes
      <4>3. key[s] \in Sends /\ key[s] <= counter + 1
        BY <1>k, <2>1, <3>1 DEF KeysFresh
      <4> QED BY <1>0, <1>k, <4>1, <4>2, <4>3 DEF KeysFresh, Sends
    <3>2. CASE s # r
      <4>0. carried'[s] = carried[s]
        <5>1. carried \in [Runs -> [Sends -> OrNone(Nat)]]
          BY <1>0 DEF BurnTypes
        <5>2. CASE carried' = carried
          BY <5>2
        <5>3. CASE carried' = [carried EXCEPT ![r][key[r]] = counter + 1]
          BY <3>2, <5>1, <5>3
        <5> QED BY <2>1, <5>2, <5>3
      <4>1. FramesOf(s)' = FramesOf(s) /\ at'[s] = at[s] /\ key'[s] = key[s]
        BY <1>0, <2>1, <3>2, <4>0 DEF FramesOf, BurnTypes
      <4> QED BY <1>0, <1>k, <4>1 DEF KeysFresh, Sends
    <3> QED BY <3>1, <3>2
  <2> QED BY <2>4, <2>5
<1> QED BY <1>1, <1>2, <1>3, <1>4

(* Accounts.                                                               *)

LEMMA RowSetsAreFinite ==
  ASSUME BurnTypes, NEW r \in Runs, NEW results
  PROVE  /\ IsFiniteSet(RowsWith(r, results)) /\ IsFiniteSet(FramesOf(r))
         /\ RowsWith(r, results) = {i \in 1 .. Len(made[r]) : made[r][i].result \in results}
         /\ Cardinality(RowsWith(r, results)) \in Nat
<1>1. DOMAIN made[r] = 1 .. Len(made[r]) /\ Len(made[r]) \in Nat
  BY LenProperties DEF BurnTypes
<1>2. IsFiniteSet(DOMAIN made[r])
  BY <1>1, FS_Interval
<1>3. IsFiniteSet(RowsWith(r, results))
  BY <1>2, FS_Subset DEF RowsWith
<1>4. IsFiniteSet(FramesOf(r))
  BY RunsAreFinite, FS_Subset DEF FramesOf
<1> QED BY <1>1, <1>3, <1>4, FS_CardinalityType DEF RowsWith

LEMMA AccountsKept ==
  ASSUME NEW s \in Runs, RowsMatch(s), CountsMatch(s), table'[s] = table[s], made'[s] = made[s],
         carried'[s] = carried[s], count'[s].sent = count[s].sent,
         count'[s].timeouts = count[s].timeouts
  PROVE  RowsMatch(s)' /\ CountsMatch(s)'
<1>1. FramesOf(s)' = FramesOf(s) /\ \A results : RowsWith(s, results)' = RowsWith(s, results)
  BY DEF FramesOf, RowsWith
<1>2. Answered(s)' = Answered(s) /\ \A n : InTable(s, n)' = InTable(s, n)
  BY DEF Answered, RowsWith, InTable
<1>3. RowsMatch(s)'
  BY <1>1, <1>2 DEF RowsMatch
<1>4. CountsMatch(s)'
  BY <1>1 DEF CountsMatch
<1> QED BY <1>3, <1>4

(* A send that succeeds puts its frame at the end of the table.            *)
LEMMA SendAccounts ==
  ASSUME BurnInv, NEW r \in Runs, Send(r)
  PROVE  Accounted'
<1>0. BurnTypes /\ Accounted /\ KeysFresh
  BY DEF BurnInv
<1>1. UNCHANGED made /\ at[r] = "peeked"
  BY DEF Send, Steps
<1>2. ASSUME NEW s \in Runs \ {r} PROVE RowsMatch(s)' /\ CountsMatch(s)'
  <2>1. table'[s] = table[s] /\ carried'[s] = carried[s] /\ count'[s] = count[s]
    BY <1>0 DEF Send, BurnTypes
  <2> QED BY <1>0, <1>1, <2>1, AccountsKept DEF Accounted
<1>3. CASE UNCHANGED <<table, carried, count>>
  BY <1>0, <1>1, <1>3, AccountsKept DEF Accounted
<1>4. CASE /\ table' = [table EXCEPT ![r] = Append(@, key[r])]
           /\ carried' = [carried EXCEPT ![r][key[r]] = counter + 1]
           /\ count' = [count EXCEPT ![r].sent = @ + 1]
  <2> DEFINE t == table[r]
             n == key[r]
  <2>1. n \in Sends /\ \A m \in FramesOf(r) : m < n
    BY <1>0, <1>1 DEF KeysFresh
  <2>2. t \in Seq(Sends) /\ Len(t) \in Nat
    BY <1>0, LenProperties DEF BurnTypes
  <2>3. /\ table'[r] = Append(t, n) /\ Len(table'[r]) = Len(t) + 1 /\ table'[r][Len(t) + 1] = n
        /\ \A i \in 1 .. Len(t) : table'[r][i] = t[i]
    <3>1. /\ Len(Append(t, n)) = Len(t) + 1 /\ Append(t, n)[Len(t) + 1] = n
          /\ \A i \in 1 .. Len(t) : Append(t, n)[i] = t[i]
      BY <2>1, <2>2, AppendProperties
    <3> HIDE DEF t, n
    <3>2. table'[r] = Append(t, n)
      BY <1>0, <1>4 DEF BurnTypes, t, n
    <3> QED BY <3>1, <3>2
  <2>4. FramesOf(r)' = FramesOf(r) \cup {n} /\ n \notin FramesOf(r)
    <3>1. counter + 1 # None
      BY <1>0, NoRunIsNone DEF BurnTypes
    <3>2. \A m \in Sends : carried'[r][m] = IF m = n THEN counter + 1 ELSE carried[r][m]
      BY <1>0, <1>4, <2>1 DEF BurnTypes
    <3>3. n \notin FramesOf(r)
      BY <2>1 DEF Sends
    <3> QED BY <2>1, <3>1, <3>2, <3>3 DEF FramesOf
  <2>5. \A results : RowsWith(r, results)' = RowsWith(r, results)
    BY <1>1 DEF RowsWith
  <2>6. Answered(r)' = Answered(r)
    BY <1>1 DEF Answered, RowsWith
  <2> HIDE DEF t, n
  <2>7. \A m : InTable(r, m)' <=> InTable(r, m) \/ m = n
    <3>1. /\ Len(t) + 1 \in 1 .. Len(t) + 1 /\ \A i \in 1 .. Len(t) : i \in 1 .. Len(t) + 1
          /\ \A i \in 1 .. Len(t) + 1 : i \in 1 .. Len(t) \/ i = Len(t) + 1
      BY <2>2
    <3> QED BY <2>3, <3>1 DEF InTable, t
  <2>8. RowsMatch(r)
    BY <1>0 DEF Accounted
  <2>9. RowsMatch(r)'
    <3>1. ASSUME NEW i \in 1 .. Len(table'[r])
          PROVE  /\ table'[r][i] \in FramesOf(r)'
                 /\ \A j \in 1 .. Len(table'[r]) : table'[r][i] = table'[r][j] => i = j
      <4>1. \A j \in 1 .. Len(table'[r]) :
              \/ j \in 1 .. Len(t) /\ table'[r][j] = t[j] /\ t[j] \in FramesOf(r)
              \/ j = Len(t) + 1 /\ table'[r][j] = n
        BY <2>2, <2>3, <2>8 DEF RowsMatch, t
      <4> QED BY <2>4, <2>8, <4>1 DEF RowsMatch, t
    <3>2. ASSUME NEW i \in Answered(r)'
          PROVE  /\ made[r][i].n \in FramesOf(r)' /\ ~InTable(r, made[r][i].n)'
                 /\ \A j \in Answered(r)' : made[r][i].n = made[r][j].n => i = j
      BY <1>1, <2>4, <2>6, <2>7, <2>8 DEF RowsMatch
    <3>3. ASSUME NEW m \in FramesOf(r)', ~InTable(r, m)'
          PROVE  \E i \in Answered(r)' : made[r][i].n = m
      BY <1>1, <2>4, <2>6, <2>7, <2>8, <3>3 DEF RowsMatch
    <3> QED BY <1>1, <3>1, <3>2, <3>3 DEF RowsMatch
  <2>10. CountsMatch(r)'
    <3>1. count'[r].sent = count[r].sent + 1 /\ count'[r].timeouts = count[r].timeouts
          /\ count[r].timeouts \in Nat
      BY <1>0, <1>4 DEF BurnTypes
    <3>2. Cardinality(FramesOf(r)') = Cardinality(FramesOf(r)) + 1
      BY <1>0, <2>4, RowSetsAreFinite, FS_AddElement
    <3>3. Cardinality(RowsWith(r, {"OK", "CRC_FAIL"})) \in Nat
      BY <1>0, RowSetsAreFinite
    <3>4. CountsMatch(r)
      BY <1>0 DEF Accounted
    <3> QED BY <2>2, <2>3, <2>5, <3>1, <3>2, <3>3, <3>4 DEF CountsMatch, t
  <2> QED BY <1>2, <2>9, <2>10 DEF Accounted
<1> QED BY <1>3, <1>4 DEF Send

(* The rows of a kind, when new ones are joined to those made.             *)
LEMMA NewRows ==
  ASSUME BurnTypes, NEW r \in Runs, NEW new \in Seq(BurnRows), NEW left \in Seq(BurnRows),
         made' = [made EXCEPT ![r] = @ \o new], inHand' = [inHand EXCEPT ![r] = left],
         NEW results
  PROVE  /\ RowsWith(r, results) \subseteq 1 .. Len(made[r])
         /\ RowsWith(r, results)' =
              RowsWith(r, results) \cup
                {Len(made[r]) + j : j \in {j \in 1 .. Len(new) : new[j].result \in results}}
         /\ \A i \in 1 .. Len(made[r]) : made'[r][i] = made[r][i]
         /\ \A j \in 1 .. Len(new) : made'[r][Len(made[r]) + j] = new[j]
<1> DEFINE L == Len(made[r])
           N == Len(new)
<1>1. /\ made'[r] \in Seq(BurnRows) /\ Len(made'[r]) = L + N
      /\ \A i \in 1 .. L + N : made'[r][i] = IF i <= L THEN made[r][i] ELSE new[i - L]
  <2> HIDE DEF L, N
  <2>1. made \in [Runs -> Seq(BurnRows)] /\ made[r] \in Seq(BurnRows)
    BY DEF BurnTypes
  <2>2. made'[r] = made[r] \o new
    BY <2>1
  <2>3. /\ made[r] \o new \in Seq(BurnRows) /\ Len(made[r] \o new) = Len(made[r]) + Len(new)
        /\ \A i \in 1 .. Len(made[r]) + Len(new) :
             (made[r] \o new)[i] = IF i <= Len(made[r]) THEN made[r][i] ELSE new[i - Len(made[r])]
    BY <2>1, ConcatProperties
  <2> QED BY <2>2, <2>3 DEF L, N
<1>2. L \in Nat /\ N \in Nat /\ DOMAIN made'[r] = 1 .. L + N /\ DOMAIN made[r] = 1 .. L
  BY <1>1, LenProperties DEF BurnTypes
<1> HIDE DEF L, N
<1>3. \A i \in 1 .. L : made'[r][i] = made[r][i]
  BY <1>1, <1>2
<1>4. \A j \in 1 .. N : made'[r][L + j] = new[j]
  <2> TAKE j \in 1 .. N
  <2>1. L + j \in 1 .. L + N /\ ~(L + j <= L) /\ (L + j) - L = j
    BY <1>2
  <2> QED BY <1>1, <2>1
<1>5. RowsWith(r, results) \subseteq 1 .. L
  BY <1>2 DEF RowsWith
<1>6. RowsWith(r, results)' =
        RowsWith(r, results) \cup {L + j : j \in {j \in 1 .. N : new[j].result \in results}}
  <2>1. ASSUME NEW i \in RowsWith(r, results)'
        PROVE  \/ i \in RowsWith(r, results)
               \/ \E j \in 1 .. N : i = L + j /\ new[j].result \in results
    <3>1. i \in 1 .. L + N /\ made'[r][i].result \in results
      BY <1>2 DEF RowsWith
    <3>2. CASE i <= L
      <4>1. i \in 1 .. L
        BY <1>2, <3>1, <3>2
      <4> QED BY <1>2, <1>3, <3>1, <4>1 DEF RowsWith
    <3>3. CASE ~(i <= L)
      <4>1. i - L \in 1 .. N /\ i = L + (i - L)
        BY <1>2, <3>1, <3>3
      <4> QED BY <1>4, <3>1, <4>1
    <3> QED BY <3>2, <3>3
  <2>2. ASSUME NEW i \in RowsWith(r, results) PROVE i \in RowsWith(r, results)'
    <3>1. i \in 1 .. L /\ made[r][i].result \in results
      BY <1>2 DEF RowsWith
    <3>2. i \in 1 .. L + N
      BY <1>2, <3>1
    <3> QED BY <1>2, <1>3, <3>1, <3>2 DEF RowsWith
  <2>3. ASSUME NEW j \in 1 .. N, new[j].result \in results PROVE L + j \in RowsWith(r, results)'
    <3>1. L + j \in 1 .. L + N
      BY <1>2
    <3> QED BY <1>2, <1>4, <2>3, <3>1 DEF RowsWith
  <2> QED BY <2>1, <2>2, <2>3
<1> QED BY <1>3, <1>4, <1>5, <1>6 DEF L, N

(* A reply takes its frame out of the table and gives it its row; one that *)
(* is in no table is UNSOLICITED.                                          *)
LEMMA DrainAccounts ==
  ASSUME BurnInv, NEW r \in Runs, NEW n \in burnAir, NEW good \in BOOLEAN, NEW again \in BOOLEAN,
         Drain(r, n, good, again)
  PROVE  Accounted'
<1>0. BurnTypes /\ Accounted /\ UNCHANGED carried
  BY DEF BurnInv, Drain
<1>1. PICK row \in BurnRows : Replied(r, n, row)
  BY DrainStep
<1>2. ASSUME NEW s \in Runs
      PROVE  count'[s].sent = count[s].sent /\ count'[s].timeouts = count[s].timeouts
  <2>1. count \in [Runs -> [sent : Nat, ok : Nat, timeouts : Nat]]
    BY <1>0 DEF BurnTypes
  <2>2. CASE count' = count
    BY <2>2
  <2>3. CASE count' = [count EXCEPT ![r].ok = @ + 1]
    <3>1. CASE s = r
      BY <2>1, <2>3, <3>1
    <3>2. CASE s # r
      BY <2>1, <2>3, <3>2
    <3> QED BY <3>1, <3>2
  <2> QED BY <1>1, <2>2, <2>3 DEF Replied
<1>3. ASSUME NEW s \in Runs \ {r} PROVE RowsMatch(s)' /\ CountsMatch(s)'
  <2>1. table'[s] = table[s] /\ made'[s] = made[s]
    BY <1>0, <1>1 DEF Replied, BurnTypes
  <2> QED BY <1>0, <1>2, <2>1, AccountsKept DEF Accounted
<1> DEFINE L == Len(made[r])
           t == table[r]
<1>4. L \in Nat /\ t \in Seq(Sends) /\ Len(t) \in Nat
  BY <1>0, LenProperties DEF BurnTypes
<1>5. /\ \A results :
            /\ RowsWith(r, results) \subseteq 1 .. L
            /\ RowsWith(r, results)' = RowsWith(r, results) \cup
                                         (IF row.result \in results THEN {L + 1} ELSE {})
      /\ \A i \in 1 .. L : made'[r][i] = made[r][i]
      /\ made'[r][L + 1] = row
  <2> DEFINE new == <<row>>
  <2>1. new \in Seq(BurnRows) /\ Len(new) = 1 /\ new[1] = row
    OBVIOUS
  <2>2. inHand[r] \o new \in Seq(BurnRows)
    <3> HIDE DEF new
    <3> QED BY <1>0, <2>1, ConcatProperties DEF BurnTypes
  <2>3. made' = [made EXCEPT ![r] = @ \o new] /\ inHand' = [inHand EXCEPT ![r] = inHand[r] \o new]
    BY <1>1 DEF Replied
  <2> HIDE DEF new
  <2>4. ASSUME NEW results
        PROVE  /\ RowsWith(r, results) \subseteq 1 .. L
               /\ RowsWith(r, results)' =
                    RowsWith(r, results) \cup
                      {L + j : j \in {j \in 1 .. Len(new) : new[j].result \in results}}
               /\ \A i \in 1 .. L : made'[r][i] = made[r][i]
               /\ \A j \in 1 .. Len(new) : made'[r][L + j] = new[j]
    BY <1>0, <2>1, <2>2, <2>3, NewRows
  <2>5. ASSUME NEW results
        PROVE  {L + j : j \in {j \in 1 .. Len(new) : new[j].result \in results}}
                 = IF row.result \in results THEN {L + 1} ELSE {}
    <3>1. \A j \in 1 .. Len(new) : j = 1
      BY <2>1
    <3> QED BY <2>1, <3>1
  <2>6. 1 \in 1 .. Len(new)
    BY <2>1
  <2> QED BY <2>1, <2>4, <2>5, <2>6
<1> HIDE DEF L, t
<1>6. RowsMatch(r) /\ CountsMatch(r) /\ FramesOf(r)' = FramesOf(r)
  BY <1>0 DEF Accounted, FramesOf
<1>7. /\ Answered(r) \subseteq 1 .. L
      /\ Answered(r)' = Answered(r) \cup
                          (IF row.result \in {"OK", "CRC_FAIL"} THEN {L + 1} ELSE {})
  <2>1. row.result \in {"OK", "CRC_FAIL"} <=> row.result \in {"OK", "CRC_FAIL", "TIMEOUT"}
    BY <1>1 DEF Replied
  <2> QED BY <1>5, <2>1 DEF Answered
<1>8. row.n = n /\ (row.result \in {"OK", "CRC_FAIL"} <=> InTable(r, n))
      /\ table'[r] = pop(t, n)
  BY <1>0, <1>1 DEF Replied, BurnTypes, t
<1>9. CASE ~InTable(r, n)
  <2>1. table'[r] = t
    BY <1>8, <1>9 DEF pop, Contains, InTable, t
  <2>2. Answered(r)' = Answered(r)
    BY <1>7, <1>8, <1>9
  <2>3. RowsMatch(r)'
    <3>1. \A m : InTable(r, m)' <=> InTable(r, m)
      BY <2>1 DEF InTable, t
    <3>2. \A i \in Answered(r) : made'[r][i] = made[r][i]
      BY <1>5, <1>7
    <3> QED BY <1>6, <2>1, <2>2, <3>1, <3>2 DEF RowsMatch, t
  <2>4. CountsMatch(r)'
    <3>1. RowsWith(r, {"OK", "CRC_FAIL"})' = RowsWith(r, {"OK", "CRC_FAIL"})
      <4> DEFINE answered == {"OK", "CRC_FAIL"}
      <4>1. row.result \notin answered
        BY <1>8, <1>9
      <4> HIDE DEF answered
      <4>2. RowsWith(r, answered)' = RowsWith(r, answered)
        BY <1>5, <4>1
      <4> QED BY <4>2 DEF answered
    <3>2. count'[r].sent = count[r].sent /\ count'[r].timeouts = count[r].timeouts
      BY <1>2
    <3> QED BY <1>6, <2>1, <3>1, <3>2 DEF CountsMatch, t
  <2> QED BY <1>3, <2>3, <2>4 DEF Accounted
<1>10. CASE InTable(r, n)
  <2>1. PICK i0 \in 1 .. Len(t) : t[i0] = n
    BY <1>10 DEF InTable, t
  <2>2. \A i, j \in 1 .. Len(t) : t[i] = t[j] => i = j
    BY <1>6 DEF RowsMatch, t
  <2> DEFINE p == table'[r]
  <2> HIDE DEF p
  <2>3. /\ Len(p) = Len(t) - 1
        /\ \A i \in 1 .. Len(t) - 1 : p[i] = IF i < i0 THEN t[i] ELSE t[i + 1]
    <3>1. p = pop(t, t[i0])
      BY <1>8, <2>1 DEF p
    <3>2. /\ Len(pop(t, t[i0])) = Len(t) - 1
          /\ \A i \in 1 .. Len(t) - 1 : pop(t, t[i0])[i] = IF i < i0 THEN t[i] ELSE t[i + 1]
      BY <1>4, <2>1, <2>2, Pops
    <3> QED BY <3>1, <3>2
  <2>4. \A i \in 1 .. Len(p) : \E k \in 1 .. Len(t) : k # i0 /\ p[i] = t[k]
                                  /\ k = IF i < i0 THEN i ELSE i + 1
    <3> SUFFICES ASSUME NEW i \in 1 .. Len(p)
                 PROVE \E k \in 1 .. Len(t) : k # i0 /\ p[i] = t[k]
                                  /\ k = IF i < i0 THEN i ELSE i + 1
      OBVIOUS
    <3> DEFINE k0 == IF i < i0 THEN i ELSE i + 1
    <3>1. Len(t) \in Nat /\ i \in 1 .. Len(t) - 1 /\ Len(p) = Len(t) - 1
      BY <1>4, <2>3
    <3>2. k0 \in 1 .. Len(t) /\ k0 # i0
      BY <2>1, <3>1
    <3>3. p[i] = t[k0]
      BY <2>3, <3>1
    <3> QED BY <3>2, <3>3
  <2>5. \A k \in 1 .. Len(t) : k # i0 => \E i \in 1 .. Len(p) : p[i] = t[k]
    <3> SUFFICES ASSUME NEW k \in 1 .. Len(t), k # i0 PROVE \E i \in 1 .. Len(p) : p[i] = t[k]
      OBVIOUS
    <3>1. CASE k < i0
      <4>1. k \in 1 .. Len(t) - 1
        BY <1>4, <3>1
      <4> QED BY <2>3, <3>1, <4>1
    <3>2. CASE ~(k < i0)
      <4>1. k - 1 \in 1 .. Len(t) - 1 /\ ~(k - 1 < i0) /\ (k - 1) + 1 = k
        BY <1>4, <3>2
      <4> QED BY <2>3, <4>1
    <3> QED BY <3>1, <3>2
  <2>6. \A m : InTable(r, m)' <=> InTable(r, m) /\ m # n
    BY <2>1, <2>2, <2>4, <2>5 DEF InTable, p, t
  <2>7. Answered(r)' = Answered(r) \cup {L + 1} /\ L + 1 \notin Answered(r)
    BY <1>4, <1>7, <1>8, <1>10
  <2>8. n \in FramesOf(r)
    BY <1>6, <2>1 DEF RowsMatch, t
  <2>9. \A i \in Answered(r)' :
           \/ i \in Answered(r) /\ made'[r][i] = made[r][i] /\ made[r][i].n # n
           \/ i = L + 1 /\ made'[r][i].n = n
    <3>1. \A i \in Answered(r) : made'[r][i] = made[r][i] /\ made[r][i].n # n
      BY <1>5, <1>6, <1>7, <1>10 DEF RowsMatch
    <3> QED BY <1>5, <1>8, <2>7, <3>1
  <2>10. RowsMatch(r)'
    <3>1. ASSUME NEW i \in 1 .. Len(p)
          PROVE  /\ p[i] \in FramesOf(r)
                 /\ \A j \in 1 .. Len(p) : p[i] = p[j] => i = j
      <4>1. \A j \in 1 .. Len(p) : p[j] \in FramesOf(r)
        BY <1>6, <2>4 DEF RowsMatch, t
      <4>2. ASSUME NEW j \in 1 .. Len(p), p[i] = p[j] PROVE i = j
        <5>1. PICK k \in 1 .. Len(t) : p[i] = t[k] /\ k = IF i < i0 THEN i ELSE i + 1
          BY <2>4
        <5>2. PICK l \in 1 .. Len(t) : p[j] = t[l] /\ l = IF j < i0 THEN j ELSE j + 1
          BY <2>4
        <5>3. k = l
          BY <2>2, <4>2, <5>1, <5>2
        <5> QED BY <1>4, <2>3, <5>1, <5>2, <5>3
      <4> QED BY <4>1, <4>2
    <3>2. ASSUME NEW i \in Answered(r)'
          PROVE  /\ (made[r][i].n \in FramesOf(r))' /\ (~InTable(r, made[r][i].n))'
                 /\ (\A j \in Answered(r) : made[r][i].n = made[r][j].n => i = j)'
      <4>1. made'[r][i].n \in FramesOf(r) /\ \A j \in Answered(r)' : made'[r][i].n = made'[r][j].n => i = j
        BY <1>6, <2>8, <2>9 DEF RowsMatch
      <4>2. ~\E k \in 1 .. Len(p) : p[k] = made'[r][i].n
        <5>1. \A k \in 1 .. Len(p) : p[k] # n /\ \E l \in 1 .. Len(t) : p[k] = t[l]
          BY <2>1, <2>2, <2>4
        <5>2. i \in Answered(r) => \A l \in 1 .. Len(t) : t[l] # made[r][i].n
          BY <1>6 DEF RowsMatch, InTable, t
        <5> QED BY <2>9, <5>1, <5>2
      <4> QED BY <1>6, <4>1, <4>2 DEF InTable, p
    <3>3. ASSUME NEW m \in FramesOf(r), ~InTable(r, m)'
          PROVE  \E i \in Answered(r)' : made'[r][i].n = m
      <4>1. CASE m = n
        BY <1>5, <1>8, <2>7, <4>1
      <4>2. CASE m # n
        <5>1. PICK i \in Answered(r) : made[r][i].n = m
          BY <1>6, <2>6, <3>3, <4>2 DEF RowsMatch
        <5> QED BY <1>5, <1>7, <2>7, <5>1
      <4> QED BY <4>1, <4>2
    <3> QED BY <1>6, <3>1, <3>2, <3>3 DEF RowsMatch, p
  <2>11. CountsMatch(r)'
    <3> DEFINE R == RowsWith(r, {"OK", "CRC_FAIL"})
    <3>1. R' = R \cup {L + 1} /\ L + 1 \notin R
      BY <1>4, <1>5, <1>8, <1>10
    <3>2. IsFiniteSet(R) /\ Cardinality(R) \in Nat
      BY <1>0, RowSetsAreFinite
    <3> HIDE DEF R
    <3>3. Cardinality(R') = Cardinality(R) + 1
      BY <3>1, <3>2, FS_AddElement
    <3>4. count[r].timeouts \in Nat
      BY <1>0 DEF BurnTypes
    <3>5. /\ Len(p) = Len(t) - 1 /\ Cardinality(R)' = Cardinality(R) + 1
          /\ count'[r].timeouts = count[r].timeouts /\ count'[r].sent = count[r].sent
      BY <1>2, <2>3, <3>3
    <3>6. count[r].sent = Len(t) + count[r].timeouts + Cardinality(R)
      BY <1>6 DEF CountsMatch, R, t
    <3>7. count'[r].sent = Len(p) + count'[r].timeouts + Cardinality(R)'
      <4>1. \A a, b, c \in Nat : a + b + c = (a - 1) + b + (c + 1)
        OBVIOUS
      <4>2. Len(t) \in Nat /\ count[r].timeouts \in Nat /\ Cardinality(R) \in Nat
        BY <1>4, <3>2, <3>4
      <4>3. Len(t) + count[r].timeouts + Cardinality(R)
              = (Len(t) - 1) + count[r].timeouts + (Cardinality(R) + 1)
        BY <4>1, <4>2
      <4>4. count'[r].sent = (Len(t) - 1) + count[r].timeouts + (Cardinality(R) + 1)
        BY <3>5, <3>6, <4>3
      <4> QED BY <3>5, <4>4
    <3>8. count'[r].sent = Cardinality(FramesOf(r))'
      BY <1>6, <3>5 DEF CountsMatch
    <3> QED BY <3>7, <3>8 DEF CountsMatch, R, p
  <2> QED BY <1>3, <2>10, <2>11 DEF Accounted
<1> QED BY <1>9, <1>10

(* The k oldest frames outstanding get their row, TIMEOUT.                 *)
LEMMA TimeoutAccounts ==
  ASSUME BurnInv, NEW r \in Runs, NEW k \in 0 .. Len(table[r]), NEW left \in Seq(BurnRows),
         UNCHANGED carried,
         made' = [made EXCEPT ![r] = @ \o TimeoutRows(SubSeq(table[r], 1, k))],
         inHand' = [inHand EXCEPT ![r] = left],
         table' = [table EXCEPT ![r] = SubSeq(@, k + 1, Len(@))],
         count' = [count EXCEPT ![r].timeouts = @ + k]
  PROVE  Accounted'
<1>0. /\ BurnTypes /\ Accounted
      /\ count \in [Runs -> [sent : Nat, ok : Nat, timeouts : Nat]]
      /\ table \in [Runs -> Seq(Sends)]
  BY DEF BurnInv, BurnTypes
<1>1. ASSUME NEW s \in Runs \ {r} PROVE RowsMatch(s)' /\ CountsMatch(s)'
  <2>1. table'[s] = table[s] /\ made'[s] = made[s] /\ count'[s] = count[s]
    BY <1>0 DEF BurnTypes
  <2> QED BY <1>0, <2>1, AccountsKept DEF Accounted
<1> DEFINE L == Len(made[r])
           t == table[r]
           p == table'[r]
           new == TimeoutRows(SubSeq(t, 1, k))
<1>2. /\ L \in Nat /\ t \in Seq(Sends) /\ Len(t) \in Nat /\ k \in Nat /\ k <= Len(t)
      /\ k \in 0 .. Len(t) /\ p = SubSeq(t, k + 1, Len(t))
  <2>1. L \in Nat
    BY <1>0, LenProperties DEF BurnTypes
  <2>2. p = SubSeq(t, k + 1, Len(t))
    BY <1>0
  <2>3. t \in Seq(Sends) /\ Len(t) \in Nat
    BY <1>0, LenProperties
  <2> QED BY <2>1, <2>2, <2>3
<1>5. made' = [made EXCEPT ![r] = @ \o new]
  OBVIOUS
<1> HIDE DEF L, t, p, new
<1>3. /\ SubSeq(t, 1, k) \in Seq(Sends) /\ Len(SubSeq(t, 1, k)) = k
      /\ \A i \in 1 .. k : SubSeq(t, 1, k)[i] = t[i]
      /\ Len(p) = Len(t) - k /\ \A i \in 1 .. Len(t) - k : p[i] = t[k + i]
  BY <1>2, Splits
<1>4. /\ new \in Seq(BurnRows) /\ Len(new) = k
      /\ \A i \in 1 .. k : new[i].n = t[i] /\ new[i].result = "TIMEOUT"
  <2> DEFINE ns == SubSeq(t, 1, k)
  <2>1. ns \in Seq(Sends) /\ Len(ns) = k /\ (\A i \in 1 .. k : ns[i] = t[i]) /\ new = TimeoutRows(ns)
    BY <1>3 DEF new
  <2> HIDE DEF ns
  <2>2. /\ new \in Seq(BurnRows) /\ Len(new) = k
        /\ \A i \in 1 .. k : new[i] = [n |-> ns[i], result |-> "TIMEOUT"]
    BY <2>1, TimeoutRowsAre
  <2> QED BY <2>1, <2>2
<1>6. ASSUME NEW results
      PROVE  /\ RowsWith(r, results) \subseteq 1 .. L
             /\ RowsWith(r, results)' =
                  RowsWith(r, results) \cup
                    {L + j : j \in {j \in 1 .. k : new[j].result \in results}}
             /\ \A i \in 1 .. L : made'[r][i] = made[r][i]
             /\ \A j \in 1 .. k : made'[r][L + j] = new[j]
  <2>1. /\ RowsWith(r, results) \subseteq 1 .. L
        /\ RowsWith(r, results)' =
             RowsWith(r, results) \cup
               {L + j : j \in {j \in 1 .. Len(new) : new[j].result \in results}}
        /\ \A i \in 1 .. L : made'[r][i] = made[r][i]
        /\ \A j \in 1 .. Len(new) : made'[r][L + j] = new[j]
    BY <1>0, <1>4, <1>5, NewRows DEF L
  <2> QED BY <1>4, <2>1
<1>7. \A i \in 1 .. L : made'[r][i] = made[r][i]
  BY <1>6
<1>8. \A j \in 1 .. k : made'[r][L + j].n = t[j]
  BY <1>4, <1>6
<1>9. RowsMatch(r) /\ CountsMatch(r) /\ FramesOf(r)' = FramesOf(r)
  BY <1>0 DEF Accounted, FramesOf
<1>10. Answered(r) \subseteq 1 .. L /\ Answered(r)' = Answered(r) \cup {L + j : j \in 1 .. k}
  <2> DEFINE results == {"OK", "CRC_FAIL", "TIMEOUT"}
  <2>1. {j \in 1 .. k : new[j].result \in results} = 1 .. k
    BY <1>4
  <2> HIDE DEF results
  <2>2. /\ RowsWith(r, results) \subseteq 1 .. L
        /\ RowsWith(r, results)' = RowsWith(r, results) \cup {L + j : j \in 1 .. k}
    BY <1>6, <2>1
  <2> QED BY <2>2 DEF Answered, results
<1>11. \A i, j \in 1 .. Len(t) : t[i] \in FramesOf(r) /\ (t[i] = t[j] => i = j)
  BY <1>9 DEF RowsMatch, t
<1>12. \A m : InTable(r, m) <=> \E i \in 1 .. Len(t) : t[i] = m
  BY DEF InTable, t
<1>13. \A m : InTable(r, m)' <=> \E i \in k + 1 .. Len(t) : t[i] = m
  <2> SUFFICES ASSUME NEW m
               PROVE  (\E i \in 1 .. Len(p) : p[i] = m) <=> \E i \in k + 1 .. Len(t) : t[i] = m
    BY DEF InTable, p
  <2>1. ASSUME NEW i \in 1 .. Len(p) PROVE k + i \in k + 1 .. Len(t) /\ p[i] = t[k + i]
    <3>1. i \in 1 .. Len(t) - k
      BY <1>3
    <3>2. k + i \in k + 1 .. Len(t)
      BY <1>2, <3>1
    <3> QED BY <1>3, <3>1, <3>2
  <2>2. ASSUME NEW i \in k + 1 .. Len(t) PROVE i - k \in 1 .. Len(p) /\ p[i - k] = t[i]
    <3>1. i - k \in 1 .. Len(t) - k /\ k + (i - k) = i
      BY <1>2
    <3> QED BY <1>3, <3>1
  <2> QED BY <2>1, <2>2
<1>14. RowsMatch(r)'
  <2>1. ASSUME NEW i \in 1 .. Len(p)
        PROVE  p[i] \in FramesOf(r) /\ \A j \in 1 .. Len(p) : p[i] = p[j] => i = j
    <3>1. ASSUME NEW j \in 1 .. Len(p) PROVE k + j \in 1 .. Len(t) /\ p[j] = t[k + j]
      <4>1. j \in 1 .. Len(t) - k
        BY <1>3
      <4>2. k + j \in 1 .. Len(t)
        BY <1>2, <4>1
      <4> QED BY <1>3, <4>1, <4>2
    <3>2. ASSUME NEW j \in 1 .. Len(p), p[i] = p[j] PROVE i = j
      <4>1. k + i = k + j
        BY <1>11, <3>1, <3>2
      <4> QED BY <1>2, <4>1
    <3> QED BY <1>11, <3>1, <3>2
  <2>2. \A i \in Answered(r)' :
          \/ i \in Answered(r) /\ made'[r][i].n = made[r][i].n /\ ~InTable(r, made[r][i].n)
          \/ \E j \in 1 .. k : i = L + j /\ made'[r][i].n = t[j]
    <3>1. ASSUME NEW i \in Answered(r)
          PROVE  made'[r][i].n = made[r][i].n /\ ~InTable(r, made[r][i].n)
      BY <1>7, <1>9, <1>10 DEF RowsMatch
    <3>2. ASSUME NEW i \in {L + j : j \in 1 .. k}
          PROVE  \E j \in 1 .. k : i = L + j /\ made'[r][i].n = t[j]
      BY <1>8
    <3> QED BY <1>10, <3>1, <3>2
  <2>3. \A j \in 1 .. k : /\ j \in 1 .. Len(t) /\ InTable(r, t[j])
                         /\ ~\E l \in k + 1 .. Len(t) : t[l] = t[j]
    <3> TAKE j \in 1 .. k
    <3>1. j \in 1 .. Len(t) /\ j \notin k + 1 .. Len(t)
      BY <1>2
    <3>2. \A i \in k + 1 .. Len(t) : i \in 1 .. Len(t) /\ i # j
      BY <1>2, <3>1
    <3> QED BY <1>11, <1>12, <3>1, <3>2
  <2>4. \A m : (\E l \in k + 1 .. Len(t) : t[l] = m) => InTable(r, m)
    <3>1. \A i \in k + 1 .. Len(t) : i \in 1 .. Len(t)
      BY <1>2
    <3> QED BY <1>12, <3>1
  <2>5. ASSUME NEW i \in Answered(r)'
        PROVE  /\ made'[r][i].n \in FramesOf(r) /\ ~\E l \in 1 .. Len(p) : p[l] = made'[r][i].n
               /\ \A j \in Answered(r)' : made'[r][i].n = made'[r][j].n => i = j
    <3>1. made'[r][i].n \in FramesOf(r)
      BY <1>9, <1>11, <2>2, <2>3 DEF RowsMatch
    <3>2. ~\E l \in k + 1 .. Len(t) : t[l] = made'[r][i].n
      <4>1. CASE i \in Answered(r) /\ made'[r][i].n = made[r][i].n /\ ~InTable(r, made[r][i].n)
        BY <2>4, <4>1
      <4>2. CASE \E j \in 1 .. k : i = L + j /\ made'[r][i].n = t[j]
        BY <2>3, <4>2
      <4> QED BY <2>2, <4>1, <4>2
    <3>3. ASSUME NEW j \in Answered(r)', made'[r][i].n = made'[r][j].n PROVE i = j
      <4>1. CASE i \in Answered(r) /\ made'[r][i].n = made[r][i].n /\ ~InTable(r, made[r][i].n)
        <5>1. ~\E l \in 1 .. k : j = L + l /\ made'[r][j].n = t[l]
          BY <2>3, <3>3, <4>1
        <5> QED BY <1>9, <2>2, <3>3, <4>1, <5>1 DEF RowsMatch
      <4>2. CASE \E l \in 1 .. k : i = L + l /\ made'[r][i].n = t[l]
        <5>1. \E l \in 1 .. k : j = L + l /\ made'[r][j].n = t[l]
          BY <2>2, <2>3, <3>3, <4>2
        <5> QED BY <1>11, <2>3, <3>3, <4>2, <5>1
      <4> QED BY <2>2, <4>1, <4>2
    <3>4. ~\E l \in 1 .. Len(p) : p[l] = made'[r][i].n
      <4>1. ASSUME NEW l \in 1 .. Len(p) PROVE k + l \in k + 1 .. Len(t) /\ p[l] = t[k + l]
        <5>1. l \in 1 .. Len(t) - k
          BY <1>3
        <5>2. k + l \in k + 1 .. Len(t)
          <6> DEFINE open == Len(t)
          <6>1. open \in Nat /\ k \in Nat /\ l \in 1 .. open - k
            BY <1>2, <5>1
          <6> HIDE DEF open
          <6>2. k + l \in k + 1 .. open
            BY <6>1
          <6> QED BY <6>2 DEF open
        <5> QED BY <1>3, <5>1, <5>2
      <4> QED BY <3>2, <4>1
    <3> QED BY <3>1, <3>3, <3>4
  <2>6. ASSUME NEW m \in FramesOf(r), ~InTable(r, m)'
        PROVE  \E i \in Answered(r)' : made'[r][i].n = m
    <3>1. CASE InTable(r, m)
      <4>1. PICK l \in 1 .. Len(t) : t[l] = m
        BY <1>12, <3>1
      <4>2. l \in 1 .. k
        <5>1. l \notin k + 1 .. Len(t)
          BY <1>13, <2>6, <4>1
        <5> QED BY <1>2, <5>1
      <4> QED BY <1>8, <1>10, <4>1, <4>2
    <3>2. CASE ~InTable(r, m)
      <4>1. PICK i \in Answered(r) : made[r][i].n = m
        BY <1>9, <3>2 DEF RowsMatch
      <4> QED BY <1>7, <1>10, <4>1
    <3> QED BY <3>1, <3>2
  <2>7. ASSUME NEW i \in Answered(r)'
        PROVE  /\ (made[r][i].n \in FramesOf(r))' /\ (~InTable(r, made[r][i].n))'
               /\ (\A j \in Answered(r) : made[r][i].n = made[r][j].n => i = j)'
    BY <1>9, <2>5 DEF InTable, p
  <2>8. ASSUME NEW i \in 1 .. Len(table'[r])
        PROVE  /\ table'[r][i] \in FramesOf(r)'
               /\ \A j \in 1 .. Len(table'[r]) : table'[r][i] = table'[r][j] => i = j
    BY <1>9, <2>1 DEF p
  <2>9. ASSUME NEW m \in FramesOf(r)', ~InTable(r, m)'
        PROVE  \E i \in Answered(r)' : made'[r][i].n = m
    BY <1>9, <2>6, <2>9
  <2> QED BY <2>7, <2>8, <2>9 DEF RowsMatch
<1>15. CountsMatch(r)'
  <2> DEFINE R == RowsWith(r, {"OK", "CRC_FAIL"})
  <2>1. R' = R
    <3> DEFINE results == {"OK", "CRC_FAIL"}
    <3>1. {j \in 1 .. k : new[j].result \in results} = {}
      BY <1>4
    <3> HIDE DEF results
    <3>2. {L + j : j \in {j \in 1 .. k : new[j].result \in results}} = {}
      BY <3>1
    <3>3. RowsWith(r, results)' = RowsWith(r, results) \cup {}
      BY <1>6, <3>2
    <3>4. RowsWith(r, results)' = RowsWith(r, results)
      BY <3>3
    <3> QED BY <3>4 DEF results
  <2>2. Cardinality(R) \in Nat
    BY <1>0, RowSetsAreFinite
  <2> HIDE DEF R
  <2>3. /\ count[r].timeouts \in Nat /\ count'[r].timeouts = count[r].timeouts + k
        /\ count'[r].sent = count[r].sent
    BY <1>0
  <2>4. count[r].sent = Len(t) + count[r].timeouts + Cardinality(R)
        /\ count[r].sent = Cardinality(FramesOf(r))
    BY <1>9 DEF CountsMatch, R, t
  <2>6. count[r].sent = (Len(t) - k) + (count[r].timeouts + k) + Cardinality(R)
    <3>1. Len(t) \in Nat /\ count[r].timeouts \in Nat /\ Cardinality(R) \in Nat /\ k \in Nat
      BY <1>2, <2>2, <2>3
    <3>2. Len(t) + count[r].timeouts + Cardinality(R)
            = (Len(t) - k) + (count[r].timeouts + k) + Cardinality(R)
      <4> DEFINE open == Len(t)
                 late == count[r].timeouts
                 back == Cardinality(R)
      <4>1. open \in Nat /\ late \in Nat /\ back \in Nat /\ k \in Nat
        BY <3>1
      <4> HIDE DEF open, late, back
      <4>2. open + late + back = (open - k) + (late + k) + back
        BY <4>1
      <4> QED BY <4>2 DEF open, late, back
    <3> QED BY <2>4, <3>2
  <2>7. count'[r].sent = Len(p) + count'[r].timeouts + Cardinality(R)'
    BY <1>3, <2>1, <2>3, <2>6
  <2> QED BY <1>9, <2>3, <2>4, <2>7 DEF CountsMatch, R, p
<1> QED BY <1>1, <1>14, <1>15 DEF Accounted

LEMMA Whole ==
  ASSUME NEW t \in Seq(Sends)
  PROVE  SubSeq(t, 1, Len(t)) = t /\ SubSeq(t, Len(t) + 1, Len(t)) = <<>>
<1>1. Len(t) \in Nat /\ Len(t) \in 0 .. Len(t)
  BY LenProperties
<1> DEFINE a == SubSeq(t, 1, Len(t))
           b == SubSeq(t, Len(t) + 1, Len(t))
<1>2. /\ a \in Seq(Sends) /\ Len(a) = Len(t) /\ \A i \in 1 .. Len(t) : a[i] = t[i]
      /\ b \in Seq(Sends) /\ Len(b) = Len(t) - Len(t)
  BY <1>1, Splits
<1> HIDE DEF a, b
<1>3. a = t
  BY <1>2, SeqEqual
<1>4. b = <<>>
  BY <1>1, <1>2, EmptySeq
<1> QED BY <1>3, <1>4 DEF a, b

LEMMA AccountedInv ==
  ASSUME BurnInv, [BurnNext]_burnVars
  PROVE  Accounted'
<1>0. BurnTypes /\ Accounted
  BY DEF BurnInv
<1>1. ASSUME UNCHANGED <<table, made, carried, count>> PROVE Accounted'
  BY <1>0, <1>1, AccountsKept DEF Accounted
<1>2. ASSUME NEW r \in Runs, BurnRun(r) PROVE Accounted'
  <2>0. /\ table[r] \in Seq(Sends) /\ inHand[r] \in Seq(BurnRows) /\ <<>> \in Seq(BurnRows)
        /\ Len(table[r]) \in Nat /\ count \in [Runs -> [sent : Nat, ok : Nat, timeouts : Nat]]
    BY <1>0, EmptySeq, LenProperties DEF BurnTypes
  <2>1. CASE Bind(r) \/ BurnBegins(r) \/ BurnLoopTest(r) \/ Drained(r) \/ Peek(r)
    BY <1>1, <2>1 DEF Bind, BurnBegins, BurnLoopTest, Drained, Peek
  <2>2. CASE Send(r)
    BY <2>2, SendAccounts
  <2>3. ASSUME NEW n \in burnAir, NEW good \in BOOLEAN, NEW again \in BOOLEAN,
               Drain(r, n, good, again)
        PROVE  Accounted'
    BY <2>3, DrainAccounts
  <2>4. ASSUME NEW k \in 0 .. Len(table[r]), NEW due \in BOOLEAN, Turn(r, k, due)
        PROVE  Accounted'
    <3> DEFINE stale == SubSeq(table[r], 1, k)
               batch == inHand[r] \o TimeoutRows(stale)
               left == IF due /\ batch # <<>> THEN <<>> ELSE batch
    <3>1. TimeoutRows(stale) \in Seq(BurnRows)
      BY <2>0, Splits, TimeoutRowsAre
    <3>2. batch \in Seq(BurnRows)
      BY <2>0, <3>1, ConcatProperties
    <3>3. left \in Seq(BurnRows)
      BY <2>0, <3>2
    <3>4. /\ UNCHANGED carried
          /\ made' = [made EXCEPT ![r] = @ \o TimeoutRows(SubSeq(table[r], 1, k))]
          /\ inHand' = [inHand EXCEPT ![r] = left]
          /\ table' = [table EXCEPT ![r] = SubSeq(@, k + 1, Len(@))]
          /\ count' = [count EXCEPT ![r].timeouts = @ + k]
      BY <2>4 DEF Turn, Makes
    <3> HIDE DEF left
    <3> QED BY <3>3, <3>4, TimeoutAccounts
  <2>5. CASE Flush(r)
    <3> DEFINE k == Len(table[r])
    <3>1. Len(TimeoutRows(table[r])) = k /\ k \in 0 .. Len(table[r])
      BY <2>0, TimeoutRowsAre
    <3>2. /\ UNCHANGED carried
          /\ made' = [made EXCEPT ![r] = @ \o TimeoutRows(SubSeq(table[r], 1, k))]
          /\ inHand' = [inHand EXCEPT ![r] = <<>>]
          /\ table' = [table EXCEPT ![r] = SubSeq(@, k + 1, Len(@))]
          /\ count' = [count EXCEPT ![r].timeouts = @ + k]
      BY <2>0, <2>5, <3>1, Whole DEF Flush
    <3> QED BY <2>0, <3>1, <3>2, TimeoutAccounts
  <2> QED BY <1>2, <2>1, <2>2, <2>3, <2>4, <2>5 DEF BurnRun
<1>3. ASSUME \/ BurnSlots \/ Stop \/ TakeNumber \/ UNCHANGED burnVars
             \/ \E r \in Runs, withLog \in BOOLEAN : Start(r, withLog)
             \/ \E n \in burnAir : BurnLose(n)
      PROVE  Accounted'
  <2>1. UNCHANGED <<table, made, carried, count>>
    BY <1>3 DEF BurnSlots, BurnStopReturns, append_rows, on_burn_stopped, on_burn_error, Stop,
                TakeNumber, burnVars, Start, BurnLose, burnThreadVars
  <2> QED BY <1>1, <2>1
<1> QED BY <1>2, <1>3 DEF BurnNext

(* The order of the runs.                                                  *)

LEMMA OneLatest ==
  ASSUME NEW r \in Runs, NEW s \in Runs, Latest(r), Latest(s)
  PROVE  r = s
BY DEF Latest, Runs

LEMMA LatestKept ==
  ASSUME \A s \in Runs : at'[s] = "unborn" <=> at[s] = "unborn"
  PROVE  \A s \in Runs : Latest(s)' <=> Latest(s)
BY DEF Latest

(* What a step of a run's thread changes.                                  *)
LEMMA RunSteps ==
  ASSUME BurnInv, NEW r \in Runs, BurnRun(r)
  PROVE  /\ at[r] \notin {"unborn", "over"} /\ at'[r] \notin {"unborn", "binding"}
         /\ \A s \in Runs \ {r} : at'[s] = at[s] /\ made'[s] = made[s] /\ inHand'[s] = inHand[s]
         /\ UNCHANGED <<burn, waiting, log, csv, logged, survivors>>
         /\ at'[r] = "over" => inHand'[r] = <<>>
<1> USE DEF burnGuiVars, Steps
<1>0. /\ at \in [Runs -> {"unborn", "binding", "ready", "loop", "drain", "peeked", "evict",
                          "flush", "over"}]
      /\ made \in [Runs -> Seq(BurnRows)] /\ inHand \in [Runs -> Seq(BurnRows)]
      /\ at[r] = "binding" => inHand[r] = <<>>
  BY DEF BurnInv, BurnTypes, RunOrder
<1>1. CASE Bind(r)
  BY <1>0, <1>1 DEF Bind
<1>2. CASE BurnBegins(r) \/ BurnLoopTest(r) \/ Drained(r) \/ Peek(r) \/ Send(r)
  BY <1>0, <1>2 DEF BurnBegins, BurnLoopTest, Drained, Peek, Send
<1>3. CASE Flush(r)
  BY <1>0, <1>3 DEF Flush
<1>4. CASE \E n \in burnAir, good, again \in BOOLEAN : Drain(r, n, good, again)
  BY <1>0, <1>4 DEF Drain, handle_response, Makes
<1>5. CASE \E k \in 0 .. Len(table[r]), due \in BOOLEAN : Turn(r, k, due)
  BY <1>0, <1>5 DEF Turn, Makes
<1> QED BY <1>1, <1>2, <1>3, <1>4, <1>5 DEF BurnRun

LEMMA RunKeepsOrder ==
  ASSUME BurnInv, NEW r \in Runs, BurnRun(r)
  PROVE  /\ RunOrder' /\ OneRun'
         /\ \A s \in Runs : Latest(s)' <=> Latest(s)
         /\ survivors = {} => r = burn /\ Latest(r)
<1>0. RunOrder /\ OneRun
  BY DEF BurnInv
<1>1. \A s \in Runs : Latest(s)' <=> Latest(s)
  BY RunSteps, LatestKept
<1>2. survivors = {} => r = burn /\ Latest(r)
  BY <1>0, RunSteps, NoRunIsNone DEF OneRun
<1>3. RunOrder'
  <2> SUFFICES ASSUME NEW q \in Runs
               PROVE  /\ \A s \in Runs : s < q /\ at'[q] # "unborn" => at'[s] # "unborn"
                      /\ at'[q] = "unborn" => q \notin logged'
                      /\ at'[q] \in {"unborn", "binding"} => made'[q] = <<>> /\ inHand'[q] = <<>>
                      /\ at'[q] = "over" => inHand'[q] = <<>>
    BY DEF RunOrder
  <2>1. \A s \in Runs : at'[s] = "unborn" <=> at[s] = "unborn"
    BY RunSteps
  <2>2. \A s \in Runs : s < q /\ at'[q] # "unborn" => at'[s] # "unborn"
    BY <1>0, <2>1 DEF RunOrder
  <2>3. at'[q] = "unborn" => q \notin logged'
    BY <1>0, <2>1, RunSteps DEF RunOrder
  <2>4. /\ at'[q] \in {"unborn", "binding"} => made'[q] = <<>> /\ inHand'[q] = <<>>
        /\ at'[q] = "over" => inHand'[q] = <<>>
    BY <1>0, RunSteps DEF RunOrder
  <2> QED BY <2>2, <2>3, <2>4
<1>4. OneRun'
  <2> SUFFICES ASSUME survivors' = {}
               PROVE  /\ \A s \in Runs : s # burn' => at'[s] \in {"unborn", "over"}
                      /\ burn' # None => Latest(burn)'
    BY DEF OneRun
  <2>1. survivors = {} /\ burn' = burn
    BY RunSteps
  <2>2. \A s \in Runs : s # burn' => at'[s] \in {"unborn", "over"}
    BY <1>0, <1>2, <2>1, RunSteps DEF OneRun
  <2>3. burn' # None => Latest(burn)'
    BY <1>0, <1>1, <1>2, <2>1, RunSteps DEF OneRun
  <2> QED BY <2>2, <2>3
<1> QED BY <1>1, <1>2, <1>3, <1>4

(* Queue and file.                                                         *)

LEMMA AppendedAre ==
  ASSUME NEW q \in Seq(BurnSignals), NEW s \in BurnSignals
  PROVE  /\ Append(q, s) \in Seq(BurnSignals) /\ Len(Append(q, s)) = Len(q) + 1
         /\ Append(q, s)[Len(q) + 1] = s
         /\ \A i \in 1 .. Len(q) + 1 : Append(q, s)[i] = IF i = Len(q) + 1 THEN s ELSE q[i]
<1>1. /\ Append(q, s) \in Seq(BurnSignals) /\ Len(Append(q, s)) = Len(q) + 1
      /\ Append(q, s)[Len(q) + 1] = s /\ \A i \in 1 .. Len(q) : Append(q, s)[i] = q[i]
  BY AppendProperties
<1>2. Len(q) \in Nat
  BY LenProperties
<1>3. \A i \in 1 .. Len(q) + 1 : i = Len(q) + 1 \/ i \in 1 .. Len(q)
  BY <1>2
<1> QED BY <1>1, <1>2, <1>3

(* While the latest run works, all that is queued are batches of its rows. *)
Batches(q, r) == \A i \in 1 .. Len(q) : q[i].r = r /\ q[i].kind = "rows"

(* The signals of a run that ends: batches, perhaps an error, and the end. *)
Ending(q, r, none) ==
  /\ Len(q) > 0 /\ q[Len(q)].kind = "stopped"
  /\ \A i \in 1 .. Len(q) :
       /\ q[i].r = r /\ (q[i].kind = "stopped" => i = Len(q))
       /\ q[i].kind = "error" => none

LEMMA RunQueue ==
  ASSUME BurnInv, NEW r \in Runs, BurnRun(r), survivors = {}
  PROVE  Batches(burnPosted, r)
<1>1. QueueShape /\ at[r] # "over" /\ Latest(r) /\ burnPosted \in Seq(BurnSignals)
  BY RunSteps, RunKeepsOrder DEF BurnInv, BurnTypes
<1> SUFFICES ASSUME NEW i \in 1 .. Len(burnPosted)
             PROVE  burnPosted[i].r = r /\ burnPosted[i].kind = "rows"
  BY DEF Batches
<1> DEFINE s == burnPosted[i]
<1>2. s \in BurnSignals
  BY <1>1, LenProperties
<1>3. s.kind \in {"rows", "stopped", "error"} /\ s.r \in Runs
  BY <1>2 DEF BurnSignals
<1>4. /\ Latest(s.r) /\ (s.kind = "stopped" => at[s.r] = "over")
      /\ (s.kind = "error" => at[s.r] = "over")
  BY <1>1 DEF QueueShape, SignalShape
<1>5. s.r = r
  BY <1>1, <1>3, <1>4, OneLatest
<1> QED BY <1>1, <1>3, <1>4, <1>5

LEMMA RunQueueShape ==
  ASSUME BurnInv, NEW r \in Runs, BurnRun(r),
         survivors = {} => \/ at'[r] # "over" /\ Batches(burnPosted', r)
                           \/ at'[r] = "over" /\ Ending(burnPosted', r, made'[r] = <<>>)
  PROVE  QueueShape'
<1> SUFFICES ASSUME survivors' = {}, NEW i \in 1 .. Len(burnPosted')
             PROVE  SignalShape(i)'
  BY DEF QueueShape
<1>1. survivors = {} /\ Latest(r)'
  BY RunSteps, RunKeepsOrder
<1>2. CASE at'[r] # "over" /\ Batches(burnPosted', r)
  <2>1. burnPosted'[i].r = r /\ burnPosted'[i].kind = "rows"
    BY <1>2 DEF Batches
  <2> QED BY <1>1, <1>2, <2>1 DEF SignalShape
<1>3. CASE at'[r] = "over" /\ Ending(burnPosted', r, made'[r] = <<>>)
  <2>1. /\ burnPosted'[Len(burnPosted')].kind = "stopped"
        /\ burnPosted'[i].r = r /\ (burnPosted'[i].kind = "stopped" => i = Len(burnPosted'))
        /\ burnPosted'[i].kind = "error" => made'[r] = <<>>
    BY <1>3 DEF Ending
  <2> QED BY <1>1, <1>3, <2>1 DEF SignalShape
<1> QED BY <1>1, <1>2, <1>3

LEMMA RunFileShape ==
  ASSUME BurnInv, NEW r \in Runs, BurnRun(r),
         survivors = {} /\ ChainOf(csv, burnPosted, inHand[r], made[r])
           => ChainOf(csv, burnPosted', inHand'[r], made'[r])
  PROVE  FileShape'
<1> SUFFICES ASSUME survivors' = {}, NEW q \in logged', Latest(q)'
             PROVE  /\ log' = "open" => (ChainOf(csv, burnPosted, inHand[q], made[q]))'
                    /\ log' = "closed" => at'[q] = "over" /\ csv' = made'[q]
  BY DEF FileShape
<1>1. survivors = {} /\ q \in logged /\ q \in Runs /\ csv' = csv /\ log' = log
  BY RunSteps DEF BurnInv, BurnTypes
<1>2. Latest(q) /\ Latest(r)
  BY <1>1, RunKeepsOrder
<1>3. q = r
  BY <1>1, <1>2, OneLatest
<1>4. /\ log = "open" => ChainOf(csv, burnPosted, inHand[r], made[r])
      /\ log = "closed" => at[r] = "over"
  BY <1>1, <1>2, <1>3 DEF BurnInv, FileShape
<1>5. log # "closed"
  BY <1>4, RunSteps
<1> QED BY <1>1, <1>3, <1>4, <1>5

LEMMA BatchPosted ==
  ASSUME NEW q \in Seq(BurnSignals), NEW r \in Runs, Batches(q, r), NEW s \in BurnSignals,
         s.r = r
  PROVE  /\ s.kind = "rows" => Batches(Append(q, s), r)
         /\ s.kind = "stopped" => \A none \in BOOLEAN : Ending(Append(q, s), r, none)
<1> DEFINE q2 == Append(q, s)
<1>1. /\ Len(q) \in Nat /\ Len(q2) = Len(q) + 1 /\ q2[Len(q2)] = s
      /\ \A i \in 1 .. Len(q2) : q2[i] = IF i = Len(q2) THEN s ELSE q[i]
  BY AppendedAre, LenProperties
<1> HIDE DEF q2
<1>2. \A i \in 1 .. Len(q2) : i # Len(q2) => i \in 1 .. Len(q)
  BY <1>1
<1>3. \A i \in 1 .. Len(q2) : q2[i].r = r /\ (q2[i].kind = "rows" \/ i = Len(q2))
  BY <1>1, <1>2 DEF Batches
<1>4. ASSUME s.kind = "rows" PROVE Batches(q2, r)
  BY <1>1, <1>3, <1>4 DEF Batches
<1>5. ASSUME s.kind = "stopped", NEW none \in BOOLEAN PROVE Ending(q2, r, none)
  <2>1. Len(q2) > 0
    BY <1>1
  <2>2. \A i \in 1 .. Len(q2) : q2[i].kind = "stopped" => i = Len(q2)
    BY <1>3
  <2>3. \A i \in 1 .. Len(q2) : q2[i].kind # "error"
    BY <1>1, <1>3, <1>5
  <2> QED BY <1>1, <1>3, <1>5, <2>1, <2>2, <2>3 DEF Ending
<1> QED BY <1>4, <1>5 DEF q2

LEMMA BindFile ==
  ASSUME BurnInv, NEW r \in Runs, BurnRun(r), Bind(r)
  PROVE  QueueShape' /\ FileShape'
<1>0. /\ BurnTypes /\ at[r] = "binding" /\ UNCHANGED <<made, inHand>>
      /\ made[r] \in Seq(BurnRows) /\ inHand[r] \in Seq(BurnRows)
      /\ burnPosted \in Seq(BurnSignals) /\ csv \in Seq(BurnRows) /\ <<>> \in Seq(BurnRows)
      /\ made[r] = <<>>
  BY EmptySeq DEF BurnInv, BurnTypes, RunOrder, Bind, Steps
<1>1. CASE at' = [at EXCEPT ![r] = "ready"] /\ UNCHANGED burnPosted
  <2>1. at'[r] # "over"
    BY <1>0, <1>1 DEF BurnTypes
  <2>2. QueueShape'
    BY <1>1, <2>1, RunQueue, RunQueueShape
  <2>3. FileShape'
    BY <1>0, <1>1, RunFileShape
  <2> QED BY <2>2, <2>3
<1>2. CASE /\ at' = [at EXCEPT ![r] = "over"]
           /\ burnPosted' = burnPosted \o <<BurnSignal("error", r, <<>>), BurnSignal("stopped", r, <<>>)>>
  <2> DEFINE a == BurnSignal("error", r, <<>>)
             b == BurnSignal("stopped", r, <<>>)
             q1 == Append(burnPosted, a)
             q2 == Append(q1, b)
  <2>1. /\ a \in BurnSignals /\ a.kind = "error" /\ a.r = r
        /\ b \in BurnSignals /\ b.kind = "stopped" /\ b.r = r
    BY <1>0 DEF BurnSignal, BurnSignals
  <2>2. burnPosted' = burnPosted \o <<a, b>> /\ at'[r] = "over"
    BY <1>0, <1>2 DEF BurnTypes
  <2> HIDE DEF a, b
  <2>3. burnPosted' = q2 /\ q1 \in Seq(BurnSignals)
    BY <1>0, <2>1, <2>2, TwoPosted
  <2>4. /\ Len(burnPosted) \in Nat /\ Len(q1) = Len(burnPosted) + 1 /\ Len(q2) = Len(q1) + 1
        /\ \A i \in 1 .. Len(q1) : q1[i] = IF i = Len(q1) THEN a ELSE burnPosted[i]
        /\ \A i \in 1 .. Len(q2) : q2[i] = IF i = Len(q2) THEN b ELSE q1[i]
    BY <1>0, <2>1, <2>3, AppendedAre, LenProperties
  <2>5. ASSUME survivors = {} PROVE Ending(q2, r, TRUE)
    <3>1. Batches(burnPosted, r)
      BY <2>5, RunQueue
    <3> HIDE DEF q1, q2
    <3>2. \A i \in 1 .. Len(q2) : /\ i # Len(q2) => i \in 1 .. Len(q1)
                                 /\ i # Len(q2) /\ i # Len(q1) => i \in 1 .. Len(burnPosted)
      BY <2>4
    <3>3. \A i \in 1 .. Len(q2) : q2[i].r = r /\ (q2[i].kind = "stopped" => i = Len(q2))
      BY <2>1, <2>4, <3>1, <3>2 DEF Batches
    <3>4. Len(q2) > 0 /\ q2[Len(q2)] = b
      BY <2>4
    <3> QED BY <2>1, <3>3, <3>4 DEF Ending
  <2>6. QueueShape'
    <3>1. made'[r] = <<>>
      BY <1>0
    <3> QED BY <2>2, <2>3, <2>5, <3>1, RunQueueShape
  <2>7. ASSUME ChainOf(csv, burnPosted, inHand[r], made[r])
        PROVE  ChainOf(csv, burnPosted', inHand'[r], made'[r])
    <3>1. ChainOf(csv, q1, inHand[r], made[r])
      BY <1>0, <2>1, <2>7, ChainPosts
    <3> HIDE DEF q1
    <3>2. ChainOf(csv, q2, inHand[r], made[r])
      BY <1>0, <2>1, <2>3, <3>1, ChainPosts
    <3> QED BY <1>0, <2>3, <3>2
  <2>8. FileShape'
    BY <2>7, RunFileShape
  <2> QED BY <2>6, <2>8
<1> QED BY <1>1, <1>2 DEF Bind, Steps

LEMMA DrainFile ==
  ASSUME BurnInv, NEW r \in Runs, BurnRun(r), NEW n \in burnAir, NEW good \in BOOLEAN,
         NEW again \in BOOLEAN, Drain(r, n, good, again)
  PROVE  QueueShape' /\ FileShape'
<1>0. /\ BurnTypes /\ at[r] = "drain" /\ UNCHANGED <<burnPosted, at>>
      /\ made[r] \in Seq(BurnRows) /\ inHand[r] \in Seq(BurnRows)
      /\ burnPosted \in Seq(BurnSignals) /\ csv \in Seq(BurnRows)
      /\ made \in [Runs -> Seq(BurnRows)] /\ inHand \in [Runs -> Seq(BurnRows)]
  BY DEF BurnInv, BurnTypes, Drain
<1>1. PICK row \in BurnRows : Replied(r, n, row)
  BY DrainStep
<1> DEFINE new == <<row>>
<1>2. new \in Seq(BurnRows)
  OBVIOUS
<1>3. made'[r] = made[r] \o new /\ inHand'[r] = inHand[r] \o new
  BY <1>0, <1>1 DEF Replied
<1> HIDE DEF new
<1>4. ASSUME ChainOf(csv, burnPosted, inHand[r], made[r])
      PROVE  ChainOf(csv, burnPosted', inHand'[r], made'[r])
  BY <1>0, <1>2, <1>3, <1>4, ChainGrows
<1>5. FileShape'
  BY <1>4, RunFileShape
<1>6. QueueShape'
  BY <1>0, RunQueue, RunQueueShape
<1> QED BY <1>5, <1>6

LEMMA TurnFile ==
  ASSUME BurnInv, NEW r \in Runs, BurnRun(r), NEW k \in 0 .. Len(table[r]), NEW due \in BOOLEAN,
         Turn(r, k, due)
  PROVE  QueueShape' /\ FileShape'
<1>0. /\ BurnTypes /\ table[r] \in Seq(Sends)
      /\ made[r] \in Seq(BurnRows) /\ inHand[r] \in Seq(BurnRows) /\ <<>> \in Seq(BurnRows)
      /\ burnPosted \in Seq(BurnSignals) /\ csv \in Seq(BurnRows)
      /\ made \in [Runs -> Seq(BurnRows)] /\ inHand \in [Runs -> Seq(BurnRows)]
  BY EmptySeq DEF BurnInv, BurnTypes
<1> DEFINE new == TimeoutRows(SubSeq(table[r], 1, k))
           batch == inHand[r] \o new
           ticks == due /\ batch # <<>>
           s == BurnSignal("rows", r, batch)
<1>1. new \in Seq(BurnRows)
  BY <1>0, Splits, TimeoutRowsAre
<1>2. /\ at' = [at EXCEPT ![r] = "loop"] /\ made' = [made EXCEPT ![r] = @ \o new]
      /\ inHand' = [inHand EXCEPT ![r] = IF ticks THEN <<>> ELSE batch]
      /\ IF ticks THEN burnPosted' = Append(burnPosted, s) ELSE burnPosted' = burnPosted
  BY DEF Turn, Makes, Steps
<1> HIDE DEF new
<1>3. batch \in Seq(BurnRows)
  BY <1>0, <1>1, ConcatProperties
<1>4. s \in BurnSignals /\ s.kind = "rows" /\ s.r = r /\ s.batch = batch
  BY <1>3 DEF BurnSignal, BurnSignals
<1>5. /\ at'[r] # "over" /\ made'[r] = made[r] \o new
      /\ inHand'[r] = IF ticks THEN <<>> ELSE batch
  BY <1>0, <1>2 DEF BurnTypes
<1> HIDE DEF s
<1>6. survivors = {} => Batches(burnPosted', r)
  BY <1>0, <1>2, <1>4, RunQueue, BatchPosted
<1>7. ASSUME ChainOf(csv, burnPosted, inHand[r], made[r])
      PROVE  ChainOf(csv, burnPosted', inHand'[r], made'[r])
  <2> DEFINE m == made[r] \o new
  <2>1. m \in Seq(BurnRows)
    BY <1>0, <1>1, ConcatProperties
  <2>2. ChainOf(csv, burnPosted, batch, m)
    BY <1>0, <1>1, <1>7, ChainGrows
  <2>3. made'[r] = m
    BY <1>5
  <2> HIDE DEF m, batch
  <2>4. CASE ticks
    <3>1. ChainOf(csv, Append(burnPosted, s), <<>>, m)
      BY <1>0, <1>3, <1>4, <2>1, <2>2, ChainPosts
    <3> QED BY <1>2, <1>5, <2>3, <2>4, <3>1
  <2>5. CASE ~ticks
    BY <1>2, <1>5, <2>2, <2>3, <2>5
  <2> QED BY <2>4, <2>5
<1>8. QueueShape'
  BY <1>5, <1>6, RunQueueShape
<1>9. FileShape'
  BY <1>7, RunFileShape
<1> QED BY <1>8, <1>9

LEMMA FlushFile ==
  ASSUME BurnInv, NEW r \in Runs, BurnRun(r), Flush(r)
  PROVE  QueueShape' /\ FileShape'
<1>0. /\ BurnTypes /\ table[r] \in Seq(Sends)
      /\ made[r] \in Seq(BurnRows) /\ inHand[r] \in Seq(BurnRows) /\ <<>> \in Seq(BurnRows)
      /\ burnPosted \in Seq(BurnSignals) /\ csv \in Seq(BurnRows)
      /\ made \in [Runs -> Seq(BurnRows)] /\ inHand \in [Runs -> Seq(BurnRows)]
  BY EmptySeq DEF BurnInv, BurnTypes
<1> DEFINE new == TimeoutRows(table[r])
           batch == inHand[r] \o new
           s == BurnSignal("rows", r, batch)
           e == BurnSignal("stopped", r, <<>>)
           q1 == IF batch = <<>> THEN burnPosted ELSE Append(burnPosted, s)
<1>1. new \in Seq(BurnRows)
  BY <1>0, TimeoutRowsAre
<1>2. /\ at' = [at EXCEPT ![r] = "over"] /\ made' = [made EXCEPT ![r] = @ \o new]
      /\ inHand' = [inHand EXCEPT ![r] = <<>>]
      /\ burnPosted' = burnPosted \o (IF batch = <<>> THEN <<>> ELSE <<s>>) \o <<e>>
  BY DEF Flush, Steps
<1> HIDE DEF new
<1>3. batch \in Seq(BurnRows)
  BY <1>0, <1>1, ConcatProperties
<1>4. /\ s \in BurnSignals /\ s.kind = "rows" /\ s.r = r /\ s.batch = batch
      /\ e \in BurnSignals /\ e.kind = "stopped" /\ e.r = r
  BY <1>0, <1>3 DEF BurnSignal, BurnSignals
<1>5. at'[r] = "over" /\ made'[r] = made[r] \o new /\ inHand'[r] = <<>>
  BY <1>0, <1>2 DEF BurnTypes
<1> HIDE DEF s, e, batch
<1>6. burnPosted' = Append(q1, e) /\ q1 \in Seq(BurnSignals)
  <2>1. CASE batch = <<>>
    <3>1. (burnPosted \o <<>>) \o <<e>> = Append(burnPosted, e)
      BY <1>0, <1>4, TwoPosted
    <3> QED BY <1>0, <1>2, <2>1, <3>1
  <2>2. CASE batch # <<>>
    <3>1. (burnPosted \o <<s>>) \o <<e>> = Append(Append(burnPosted, s), e)
          /\ Append(burnPosted, s) \in Seq(BurnSignals)
      BY <1>0, <1>4, TwoPosted
    <3> QED BY <1>2, <2>2, <3>1
  <2> QED BY <2>1, <2>2
<1>7. ASSUME survivors = {} PROVE Ending(burnPosted', r, made'[r] = <<>>)
  <2>1. Batches(burnPosted, r)
    BY <1>7, RunQueue
  <2>2. Batches(q1, r)
    BY <1>0, <1>4, <2>1, BatchPosted
  <2> HIDE DEF q1
  <2> QED BY <1>4, <1>6, <2>2, BatchPosted
<1>8. ASSUME ChainOf(csv, burnPosted, inHand[r], made[r])
      PROVE  ChainOf(csv, burnPosted', inHand'[r], made'[r])
  <2> DEFINE m == made[r] \o new
  <2>1. m \in Seq(BurnRows)
    BY <1>0, <1>1, ConcatProperties
  <2>2. ChainOf(csv, burnPosted, batch, m)
    BY <1>0, <1>1, <1>8, ChainGrows DEF batch
  <2>3. made'[r] = m
    BY <1>5
  <2> HIDE DEF m
  <2>4. ChainOf(csv, q1, <<>>, m)
    <3>1. CASE batch = <<>>
      BY <2>2, <3>1
    <3>2. CASE batch # <<>>
      <4>1. ChainOf(csv, Append(burnPosted, s), <<>>, m)
        BY <1>0, <1>3, <1>4, <2>1, <2>2, ChainPosts
      <4> QED BY <3>2, <4>1
    <3> QED BY <3>1, <3>2
  <2> HIDE DEF q1
  <2>5. ChainOf(csv, Append(q1, e), <<>>, m)
    BY <1>0, <1>4, <1>6, <2>1, <2>4, ChainPosts
  <2> QED BY <1>5, <1>6, <2>3, <2>5
<1>9. QueueShape'
  BY <1>5, <1>7, RunQueueShape
<1>10. FileShape'
  BY <1>8, RunFileShape
<1> QED BY <1>9, <1>10

LEMMA RunKeepsFile ==
  ASSUME BurnInv, NEW r \in Runs, BurnRun(r)
  PROVE  QueueShape' /\ FileShape'
<1>1. ASSUME BurnBegins(r) \/ BurnLoopTest(r) \/ Drained(r) \/ Peek(r) \/ Send(r)
      PROVE  QueueShape' /\ FileShape'
  <2>1. UNCHANGED <<made, inHand, burnPosted>>
    BY <1>1 DEF BurnBegins, BurnLoopTest, Drained, Peek, Send
  <2>2. at'[r] # "over"
    BY <1>1 DEF BurnBegins, BurnLoopTest, Drained, Peek, Send, Steps, BurnInv, BurnTypes
  <2>3. QueueShape'
    BY <2>1, <2>2, RunQueue, RunQueueShape
  <2>4. FileShape'
    BY <2>1, RunFileShape
  <2> QED BY <2>3, <2>4
<1> QED BY <1>1, BindFile, FlushFile, DrainFile, TurnFile DEF BurnRun

(* The window.                                                             *)

LEMMA ClickedQueue ==
  ASSUME BurnInv, Clickable, burn = None, survivors = {}
  PROVE  burnPosted = <<>> /\ \A s \in Runs : at[s] \in {"unborn", "over"}
<1>0. QueueShape /\ OneRun /\ burnPosted \in Seq(BurnSignals)
  BY DEF BurnInv, BurnTypes
<1>1. \A s \in Runs : at[s] \in {"unborn", "over"}
  BY <1>0, NoRunIsNone DEF OneRun
<1>2. SUFFICES ASSUME burnPosted # <<>> PROVE FALSE
  BY <1>1
<1>3. Len(burnPosted) \in Nat /\ Len(burnPosted) # 0
  BY <1>0, <1>2, LenProperties, EmptySeq
<1>4. 1 \in 1 .. Len(burnPosted) /\ Len(burnPosted) \in 1 .. Len(burnPosted)
  BY <1>3
<1>5. burnPosted[1] \in BurnSignals
  BY <1>0, <1>4, LenProperties
<1>6. SignalShape(1) /\ burnPosted[1].r \in Runs
  BY <1>0, <1>4, <1>5 DEF QueueShape, BurnSignals
<1>7. at[burnPosted[1].r] = "over"
  BY <1>1, <1>6 DEF SignalShape, Latest
<1>8. burnPosted[Len(burnPosted)].kind = "stopped"
  BY <1>6, <1>7 DEF SignalShape
<1> QED BY <1>4, <1>8 DEF Clickable

LEMMA StartKeeps ==
  ASSUME BurnInv, NEW r \in Runs, NEW withLog \in BOOLEAN, Start(r, withLog)
  PROVE  RunOrder' /\ OneRun' /\ QueueShape' /\ FileShape'
<1>0. /\ RunOrder /\ OneRun /\ FileShape /\ Clickable /\ burn = None /\ at[r] = "unborn"
      /\ \A s \in Runs : s < r => at[s] # "unborn"
      /\ burn' = r /\ r \notin logged /\ logged \subseteq Runs
      /\ UNCHANGED <<inHand, made, burnPosted, survivors>>
  BY DEF Start, BurnInv, BurnTypes, RunOrder
<1>1. at'[r] = "binding" /\ \A s \in Runs \ {r} : at'[s] = at[s]
  BY DEF Start, BurnInv, BurnTypes
<1>2. /\ made[r] = <<>> /\ inHand[r] = <<>>
      /\ IF withLog THEN log' = "open" /\ csv' = <<>> /\ logged' = logged \cup {r}
                    ELSE UNCHANGED <<log, csv, logged>>
  BY <1>0 DEF RunOrder, Start
<1>3. RunOrder'
  <2> SUFFICES ASSUME NEW q \in Runs
               PROVE  /\ \A s \in Runs : s < q /\ at'[q] # "unborn" => at'[s] # "unborn"
                      /\ at'[q] = "unborn" => q \notin logged'
                      /\ at'[q] \in {"unborn", "binding"} => made'[q] = <<>> /\ inHand'[q] = <<>>
                      /\ at'[q] = "over" => inHand'[q] = <<>>
    BY DEF RunOrder
  <2>1. \A s \in Runs : s < q /\ at'[q] # "unborn" => at'[s] # "unborn"
    BY <1>0, <1>1 DEF RunOrder
  <2>2. at'[q] = "unborn" => q \notin logged'
    BY <1>0, <1>1, <1>2 DEF RunOrder
  <2>3. /\ at'[q] \in {"unborn", "binding"} => made'[q] = <<>> /\ inHand'[q] = <<>>
        /\ at'[q] = "over" => inHand'[q] = <<>>
    BY <1>0, <1>1, <1>2 DEF RunOrder
  <2> QED BY <2>1, <2>2, <2>3
<1>4. Latest(r)'
  <2>1. \A s \in Runs : s > r => at'[s] = "unborn"
    BY <1>0, <1>1 DEF RunOrder, Runs
  <2> QED BY <1>1, <2>1 DEF Latest
<1>5. ASSUME survivors' = {}
      PROVE  survivors = {} /\ burnPosted' = <<>> /\ \A s \in Runs : at[s] \in {"unborn", "over"}
  BY <1>0, <1>5, ClickedQueue
<1>6. OneRun'
  BY <1>0, <1>1, <1>4, <1>5 DEF OneRun
<1>7. QueueShape'
  <2>1. burnPosted' = <<>> => 1 .. Len(burnPosted') = {}
    BY EmptySeq
  <2> QED BY <1>5, <2>1 DEF QueueShape
<1>8. FileShape'
  <2> SUFFICES ASSUME survivors' = {}, NEW q \in logged', Latest(q)'
               PROVE  /\ log' = "open" => (ChainOf(csv, burnPosted, inHand[q], made[q]))'
                      /\ log' = "closed" => at'[q] = "over" /\ csv' = made'[q]
    BY DEF FileShape
  <2>1. q \in Runs
    BY <1>0, <1>2
  <2>2. q = r
    BY <1>4, <2>1 DEF Latest, Runs
  <2>3. withLog
    BY <1>0, <1>2, <2>2
  <2>4. log' = "open" /\ csv' = <<>> /\ burnPosted' = <<>> /\ inHand'[r] = <<>> /\ made'[r] = <<>>
    BY <1>0, <1>2, <1>5, <2>3
  <2> QED BY <2>2, <2>4, ChainBegins
<1> QED BY <1>3, <1>6, <1>7, <1>8

(* Steps that make no row and move no thread.                              *)
ThreadsRest == UNCHANGED <<at, inHand, made, logged>>

LEMMA OrderRests ==
  ASSUME BurnInv, ThreadsRest
  PROVE  RunOrder' /\ \A s \in Runs : Latest(s)' <=> Latest(s)
BY DEF BurnInv, RunOrder, ThreadsRest, Latest

LEMMA BurnStopReturnsKeeps ==
  ASSUME BurnInv, BurnStopReturns
  PROVE  RunOrder' /\ OneRun' /\ QueueShape' /\ FileShape'
<1>0. /\ ThreadsRest /\ UNCHANGED <<burnPosted, log, csv>> /\ burn' = None
      /\ OneRun /\ QueueShape /\ FileShape
      /\ survivors' = {} => survivors = {} /\ at[burn] = "over"
  BY DEF BurnStopReturns, burnThreadVars, ThreadsRest, BurnInv
<1>1. RunOrder' /\ \A s \in Runs : Latest(s)' <=> Latest(s)
  BY <1>0, OrderRests
<1>2. OneRun'
  BY <1>0 DEF OneRun, ThreadsRest
<1>3. QueueShape'
  BY <1>0 DEF QueueShape, SignalShape, ThreadsRest, Latest
<1>4. FileShape'
  BY <1>0 DEF FileShape, ThreadsRest, Latest
<1> QED BY <1>1, <1>2, <1>3, <1>4

LEMMA StopKeeps ==
  ASSUME BurnInv, Stop
  PROVE  RunOrder' /\ OneRun' /\ QueueShape' /\ FileShape'
<1>0. /\ ThreadsRest /\ UNCHANGED <<burnPosted, csv, burn, survivors>> /\ Clickable
      /\ OneRun /\ QueueShape /\ FileShape
  BY DEF Stop, ThreadsRest, BurnInv
<1>1. RunOrder' /\ \A s \in Runs : Latest(s)' <=> Latest(s)
  BY <1>0, OrderRests
<1>2. OneRun'
  BY <1>0 DEF OneRun, ThreadsRest, Latest
<1>3. QueueShape'
  BY <1>0 DEF QueueShape, SignalShape, ThreadsRest, Latest
<1>4. FileShape'
  <2> SUFFICES ASSUME survivors = {}, NEW q \in logged, Latest(q)
               PROVE  /\ log' = "open" => ChainOf(csv, burnPosted, inHand[q], made[q])
                      /\ log' = "closed" => at[q] = "over" /\ csv = made[q]
    BY <1>0 DEF FileShape, ThreadsRest, Latest
  <2>1. /\ log = "open" => ChainOf(csv, burnPosted, inHand[q], made[q])
        /\ log = "closed" => at[q] = "over" /\ csv = made[q]
    BY <1>0 DEF FileShape
  <2>2. CASE log' = log
    BY <2>1, <2>2
  <2>3. CASE log = "open" /\ burn = None /\ log' = "closed"
    <3>1. burnPosted = <<>> /\ at[q] = "over"
      BY <1>0, <2>3, ClickedQueue DEF BurnInv, BurnTypes, Latest
    <3>2. inHand[q] = <<>>
      BY <3>1 DEF BurnInv, BurnTypes, RunOrder
    <3>3. csv \in Seq(BurnRows) /\ burnPosted \in Seq(BurnSignals) /\ inHand[q] \in Seq(BurnRows)
          /\ made[q] \in Seq(BurnRows)
      BY DEF BurnInv, BurnTypes
    <3>4. csv = made[q]
      <4>1. ChainOf(csv, burnPosted, inHand[q], made[q])
        BY <2>1, <2>3
      <4> QED BY <3>1, <3>2, <3>3, <4>1, ChainEnded
    <3> QED BY <2>3, <3>1, <3>4
  <2> QED BY <2>2, <2>3 DEF Stop
<1> QED BY <1>1, <1>2, <1>3, <1>4

(* The first signal is delivered.                                          *)
LEMMA DeliveryKeeps ==
  ASSUME BurnInv, append_rows \/ on_burn_stopped \/ on_burn_error
  PROVE  RunOrder' /\ OneRun' /\ QueueShape' /\ FileShape'
<1>0. /\ ThreadsRest /\ UNCHANGED <<burn, survivors>>
      /\ burnPosted # <<>> /\ burnPosted' = Tail(burnPosted)
      /\ OneRun /\ QueueShape /\ FileShape
  BY DEF append_rows, on_burn_stopped, on_burn_error, BurnDelivers, burnThreadVars, ThreadsRest,
         BurnInv
<1>1. RunOrder' /\ \A s \in Runs : Latest(s)' <=> Latest(s)
  BY <1>0, OrderRests
<1>2. OneRun'
  BY <1>0 DEF OneRun, ThreadsRest, Latest
<1> DEFINE n == Len(burnPosted)
<1>3. /\ burnPosted \in Seq(BurnSignals) /\ n \in Nat /\ n > 0 /\ Head(burnPosted) = burnPosted[1]
      /\ Len(burnPosted') = n - 1 /\ \A i \in 1 .. n - 1 : burnPosted'[i] = burnPosted[i + 1]
      /\ Head(burnPosted) \in BurnSignals /\ burnPosted' \in Seq(BurnSignals)
  <2>1. burnPosted \in Seq(BurnSignals)
    BY DEF BurnInv, BurnTypes
  <2>2. /\ Len(Tail(burnPosted)) = n - 1 /\ Tail(burnPosted) \in Seq(BurnSignals)
        /\ Head(burnPosted) \in BurnSignals
        /\ \A i \in 1 .. Len(Tail(burnPosted)) : Tail(burnPosted)[i] = burnPosted[i + 1]
    BY <1>0, <2>1, HeadTailProperties
  <2>3. n \in Nat /\ n > 0 /\ Head(burnPosted) = burnPosted[1]
    BY <1>0, <2>1, EmptySeq, LenProperties
  <2> QED BY <1>0, <2>1, <2>2, <2>3
<1> HIDE DEF n
<1>4. QueueShape'
  <2> SUFFICES ASSUME survivors = {}, NEW i \in 1 .. n - 1
               PROVE  SignalShape(i)'
    BY <1>0, <1>3 DEF QueueShape
  <2>1. i + 1 \in 1 .. n /\ SignalShape(i + 1)
    <3>1. i + 1 \in 1 .. n
      BY <1>3
    <3> QED BY <1>0, <3>1 DEF QueueShape, n
  <2>2. burnPosted'[i] = burnPosted[i + 1]
    BY <1>3
  <2>3. n - 1 \in 1 .. n - 1 /\ (n - 1) + 1 = n
    BY <1>3
  <2>4. burnPosted'[Len(burnPosted')] = burnPosted[n]
    BY <1>3, <2>3
  <2>5. i + 1 = n => i = Len(burnPosted')
    BY <1>3
  <2> QED BY <1>0, <2>1, <2>2, <2>4, <2>5 DEF SignalShape, ThreadsRest, Latest, n
<1>5. FileShape'
  <2> SUFFICES ASSUME survivors = {}, NEW q \in logged, Latest(q)
               PROVE  /\ log' = "open" => ChainOf(csv', burnPosted', inHand[q], made[q])
                      /\ log' = "closed" => at[q] = "over" /\ csv' = made[q]
    BY <1>0 DEF FileShape, ThreadsRest, Latest
  <2>0. /\ q \in Runs /\ csv \in Seq(BurnRows) /\ inHand[q] \in Seq(BurnRows)
        /\ made[q] \in Seq(BurnRows) /\ Head(burnPosted).batch \in Seq(BurnRows)
    BY <1>3 DEF BurnInv, BurnTypes, BurnSignals
  <2>1. /\ log = "open" => ChainOf(csv, burnPosted, inHand[q], made[q])
        /\ log = "closed" => at[q] = "over" /\ csv = made[q]
    BY <1>0 DEF FileShape
  <2> DEFINE h == Head(burnPosted)
  <2>2. SignalShape(1) /\ h.r \in Runs /\ h = burnPosted[1]
    <3>1. 1 \in 1 .. n
      BY <1>3
    <3> QED BY <1>0, <1>3, <3>1 DEF QueueShape, BurnSignals, n
  <2>3. h.r = q
    BY <2>0, <2>2, OneLatest DEF SignalShape
  <2>4. CASE append_rows
    <3>1. csv \o h.batch \in Seq(BurnRows)
      BY <2>0, ConcatProperties
    <3>2. h.kind = "rows" /\ \/ csv' = (IF log = "open" THEN csv \o h.batch ELSE csv) /\ log' = log
                             \/ log' = "failed"
      BY <2>4 DEF append_rows, BurnDelivers
    <3>3. log = "open" => ChainOf(csv \o h.batch, burnPosted', inHand[q], made[q])
      BY <1>0, <1>3, <2>0, <2>1, <3>1, <3>2, ChainDelivers
    <3> QED BY <2>1, <3>2, <3>3
  <2>5. log = "open" /\ h.kind # "rows" => ChainOf(csv, burnPosted', inHand[q], made[q])
    BY <1>0, <1>3, <2>0, <2>1, ChainDelivers
  <2>6. CASE on_burn_stopped
    <3>1. h.kind = "stopped" /\ csv' = csv /\ log' = IF log = "open" THEN "closed" ELSE log
      BY <2>6 DEF on_burn_stopped, BurnDelivers
    <3>2. n = 1 /\ at[q] = "over"
      BY <2>2, <2>3, <3>1 DEF SignalShape, n
    <3>3. burnPosted' = <<>>
      BY <1>3, <3>2, EmptySeq
    <3>4. inHand[q] = <<>>
      BY <2>0, <3>2 DEF BurnInv, RunOrder
    <3>5. ASSUME log = "open" PROVE csv = made[q]
      <4>1. ChainOf(csv, burnPosted', inHand[q], made[q])
        BY <2>5, <3>1, <3>5
      <4>2. burnPosted' \in Seq(BurnSignals)
        BY <1>3
      <4> QED BY <2>0, <3>3, <3>4, <4>1, <4>2, ChainEnded
    <3> QED BY <2>1, <3>1, <3>2, <3>5
  <2>7. CASE on_burn_error
    <3>1. h.kind = "error" /\ csv' = csv /\ \/ log' = log
                                            \/ log = "open" /\ log' = "closed"
      BY <2>7 DEF on_burn_error, BurnDelivers
    <3>2. made[q] = <<>> /\ at[q] = "over"
      BY <2>2, <2>3, <3>1 DEF SignalShape
    <3>3. ASSUME log = "open" PROVE csv = made[q]
      <4>1. ChainOf(csv, burnPosted, inHand[q], made[q])
        BY <2>1, <3>3
      <4>2. burnPosted \in Seq(BurnSignals)
        BY <1>3
      <4> QED BY <2>0, <3>2, <4>1, <4>2, ChainEnded
    <3> QED BY <2>1, <2>5, <3>1, <3>2, <3>3
  <2> QED BY <2>4, <2>6, <2>7
<1> QED BY <1>1, <1>2, <1>4, <1>5

LEMMA FileInv ==
  ASSUME BurnInv, [BurnNext]_burnVars
  PROVE  RunOrder' /\ OneRun' /\ QueueShape' /\ FileShape'
<1>1. ASSUME TakeNumber \/ UNCHANGED burnVars \/ \E n \in burnAir : BurnLose(n)
      PROVE  RunOrder' /\ OneRun' /\ QueueShape' /\ FileShape'
  <2>1. ThreadsRest /\ UNCHANGED <<burn, survivors, burnPosted, log, csv>>
    BY <1>1 DEF TakeNumber, BurnLose, burnVars, burnThreadVars, burnGuiVars, ThreadsRest
  <2>2. OneRun /\ QueueShape /\ FileShape
    BY DEF BurnInv
  <2>3. RunOrder'
    BY <2>1, OrderRests
  <2>4. OneRun'
    BY <2>1, <2>2 DEF OneRun, ThreadsRest, Latest
  <2>5. QueueShape'
    BY <2>1, <2>2 DEF QueueShape, SignalShape, ThreadsRest, Latest
  <2>6. FileShape'
    BY <2>1, <2>2 DEF FileShape, ThreadsRest, Latest
  <2> QED BY <2>3, <2>4, <2>5, <2>6
<1>2. ASSUME NEW r \in Runs, BurnRun(r)
      PROVE  RunOrder' /\ OneRun' /\ QueueShape' /\ FileShape'
  BY <1>2, RunKeepsOrder, RunKeepsFile
<1>3. ASSUME NEW r \in Runs, NEW withLog \in BOOLEAN, Start(r, withLog)
      PROVE  RunOrder' /\ OneRun' /\ QueueShape' /\ FileShape'
  BY <1>3, StartKeeps
<1>4. ASSUME BurnSlots \/ Stop
      PROVE  RunOrder' /\ OneRun' /\ QueueShape' /\ FileShape'
  BY <1>4, BurnStopReturnsKeeps, StopKeeps, DeliveryKeeps DEF BurnSlots
<1> QED BY <1>1, <1>2, <1>3, <1>4 DEF BurnNext

LEMMA BurnStep == BurnInv /\ [BurnNext]_burnVars => BurnInv'
<1> SUFFICES ASSUME BurnInv, [BurnNext]_burnVars PROVE BurnInv'
  OBVIOUS
<1>0. BurnTypes
  BY DEF BurnInv
<1>1. BurnTypes'
  BY BurnRunTypes, BurnWindowTypes DEF BurnNext
<1>2. CounterBound' /\ KeysFresh'
  BY <1>0, RunNumbers, WindowNumbers, NumbersInv DEF BurnNext
<1>3. Accounted'
  BY AccountedInv
<1>4. RunOrder' /\ OneRun' /\ QueueShape' /\ FileShape'
  BY FileInv
<1> QED BY <1>1, <1>2, <1>3, <1>4 DEF BurnInv

LEMMA InitBurn ==
  ASSUME NEW ended \in {{}, {1}}, NEW taken \in 0 .. MaxSends, BurnInit(ended, taken)
  PROVE  BurnInv
<1> USE DEF BurnInit
<1>0. <<>> \in Seq(BurnRows) /\ <<>> \in Seq(Sends) /\ <<>> \in Seq(BurnSignals) /\ Len(<<>>) = 0
  BY EmptySeq
<1>1. BurnTypes
  <2>1. /\ burn \in OrNone(Runs) /\ waiting = FALSE /\ log = "closed" /\ csv \in Seq(BurnRows)
        /\ burnPosted \in Seq(BurnSignals) /\ logged \subseteq Runs
    BY <1>0 DEF OrNone
  <2>2. /\ at \in [Runs -> {"unborn", "binding", "ready", "loop", "drain", "peeked", "evict",
                            "flush", "over"}]
        /\ going \in [Runs -> BOOLEAN] /\ DOMAIN key = Runs
    OBVIOUS
  <2>3. /\ table \in [Runs -> Seq(Sends)] /\ inHand \in [Runs -> Seq(BurnRows)]
        /\ made \in [Runs -> Seq(BurnRows)]
    BY <1>0
  <2>4. count \in [Runs -> [sent : Nat, ok : Nat, timeouts : Nat]]
    OBVIOUS
  <2>5. counter \in Nat /\ burnAir \subseteq 1 .. counter
    BY UdpFramesAssumption
  <2>6. carried \in [Runs -> [Sends -> OrNone(Nat)]]
    BY DEF OrNone
  <2> QED BY <2>1, <2>2, <2>3, <2>4, <2>5, <2>6 DEF BurnTypes
<1>2. CounterBound /\ KeysFresh
  <2>1. Peeked = {} /\ \A r \in Runs : FramesOf(r) = {} /\ at[r] # "peeked"
    BY DEF Peeked, FramesOf
  <2>2. Cardinality(Peeked) = 0
    BY <2>1, FS_EmptySet
  <2> QED BY <2>1, <2>2, UdpFramesAssumption DEF CounterBound, KeysFresh
<1>3. Accounted
  <2> SUFFICES ASSUME NEW r \in Runs PROVE RowsMatch(r) /\ CountsMatch(r)
    BY DEF Accounted
  <2>1. /\ FramesOf(r) = {} /\ made[r] = <<>> /\ table[r] = <<>>
        /\ count[r].sent = 0 /\ count[r].timeouts = 0
    BY DEF FramesOf
  <2>2. \A results : RowsWith(r, results) = {}
    BY <1>0, <1>1, <2>1, RowSetsAreFinite
  <2>3. RowsMatch(r)
    BY <1>0, <2>1, <2>2 DEF RowsMatch, Answered
  <2>4. Cardinality(FramesOf(r)) = 0 /\ Cardinality(RowsWith(r, {"OK", "CRC_FAIL"})) = 0
    BY <2>1, <2>2, FS_EmptySet
  <2>5. CountsMatch(r)
    BY <1>0, <2>1, <2>4 DEF CountsMatch
  <2> QED BY <2>3, <2>5
<1>4. RunOrder
  BY DEF RunOrder, Runs
<1>5. OneRun /\ QueueShape /\ FileShape
  BY <1>0 DEF OneRun, QueueShape, FileShape
<1> QED BY <1>1, <1>2, <1>3, <1>4, <1>5 DEF BurnInv

LEMMA AllAccounted == BurnInv => FramesAccounted
<1> SUFFICES ASSUME BurnInv, NEW r \in Runs
             PROVE  /\ \A n \in FramesOf(r) :
                         Cardinality(RowsOf(r, n)) = IF Contains(table[r], n) THEN 0 ELSE 1
                    /\ count[r].sent = Cardinality(FramesOf(r))
                    /\ count[r].sent = Len(table[r]) + count[r].timeouts
                         + Cardinality(RowsWith(r, {"OK", "CRC_FAIL"}))
  BY DEF FramesAccounted
<1>1. RowsMatch(r) /\ CountsMatch(r)
  BY DEF BurnInv, Accounted
<1>2. ASSUME NEW n \in FramesOf(r)
      PROVE  Cardinality(RowsOf(r, n)) = IF Contains(table[r], n) THEN 0 ELSE 1
  <2>1. RowsOf(r, n) = {i \in Answered(r) : made[r][i].n = n}
    BY DEF RowsOf, Answered
  <2>2. Contains(table[r], n) <=> InTable(r, n)
    BY DEF Contains, InTable
  <2>3. CASE InTable(r, n)
    <3>1. RowsOf(r, n) = {}
      BY <1>1, <2>1, <2>3 DEF RowsMatch
    <3> QED BY <2>2, <2>3, <3>1, FS_EmptySet
  <2>4. CASE ~InTable(r, n)
    <3>1. PICK i \in Answered(r) : made[r][i].n = n
      BY <1>1, <2>4 DEF RowsMatch
    <3>2. RowsOf(r, n) = {i}
      BY <1>1, <2>1, <3>1 DEF RowsMatch
    <3> QED BY <2>2, <2>4, <3>2, FS_Singleton
  <2> QED BY <2>3, <2>4
<1> QED BY <1>1, <1>2 DEF CountsMatch

LEMMA FileIsComplete == BurnInv => LogIsComplete
<1> SUFFICES ASSUME BurnInv, survivors = {}, NEW r \in logged, Latest(r)
             PROVE  /\ log = "open" => csv = SubSeq(made[r], 1, Len(csv))
                    /\ log = "open" /\ (\A i \in 1 .. Len(burnPosted) : burnPosted[i].r # r) =>
                         csv \o inHand[r] = made[r]
                    /\ log = "closed" => csv = made[r]
  BY DEF LogIsComplete
<1>1. /\ r \in Runs /\ csv \in Seq(BurnRows) /\ inHand[r] \in Seq(BurnRows)
      /\ made[r] \in Seq(BurnRows) /\ burnPosted \in Seq(BurnSignals)
  BY DEF BurnInv, BurnTypes
<1>2. log = "closed" => csv = made[r]
  BY DEF BurnInv, FileShape
<1>3. ASSUME log = "open"
      PROVE  csv = SubSeq(made[r], 1, Len(csv))
             /\ (burnPosted = <<>> => csv \o inHand[r] = made[r])
  <2>1. ChainOf(csv, burnPosted, inHand[r], made[r])
    BY <1>3 DEF BurnInv, FileShape
  <2> DEFINE h == inHand[r]
             m == made[r]
  <2>2. h \in Seq(BurnRows) /\ m \in Seq(BurnRows) /\ ChainOf(csv, burnPosted, h, m)
    BY <1>1, <2>1
  <2> HIDE DEF h, m
  <2>3. csv = SubSeq(m, 1, Len(csv)) /\ (burnPosted = <<>> => csv \o h = m)
    BY <1>1, <2>2, ChainEnds
  <2> QED BY <2>3 DEF h, m
<1>4. ASSUME \A i \in 1 .. Len(burnPosted) : burnPosted[i].r # r PROVE burnPosted = <<>>
  <2> SUFFICES ASSUME burnPosted # <<>> PROVE FALSE
    OBVIOUS
  <2>1. 1 \in 1 .. Len(burnPosted)
    BY <1>1, EmptySeq, LenProperties
  <2>2. burnPosted[1] \in BurnSignals /\ SignalShape(1)
    BY <1>1, <2>1, LenProperties DEF BurnInv, QueueShape
  <2>3. burnPosted[1].r = r
    BY <1>1, <2>2, OneLatest DEF BurnSignals, SignalShape
  <2> QED BY <1>4, <2>1, <2>3
<1> QED BY <1>2, <1>3, <1>4

----------------------------------------------------------------------------
(* Both together.                                                          *)

(* In the focus "link" the log is never opened.                            *)
ThreadsInv == LinkInv /\ BurnInv /\ (focus = "link" => file = "closed")

LEMMA InitThreads == Init => ThreadsInv
<1> SUFFICES ASSUME Init PROVE ThreadsInv
  OBVIOUS
<1>1. 0 \in 0 .. MaxSends /\ MaxSends - 1 \in 0 .. MaxSends
  BY UdpFramesAssumption, WorkerThreadsAssumption
<1>2. {} \in {{}, {1}} /\ {1} \in {{}, {1}}
  OBVIOUS
<1>3. file = "closed"
  BY DEF Init, LinkInit, LogInit
<1>4. BurnInv
  BY <1>1, <1>2, InitBurn DEF Init
<1>5. LinkInv
  BY <1>1, InitLink DEF Init
<1> QED BY <1>3, <1>4, <1>5 DEF ThreadsInv

(* Without a log the link alone moves as it does with one.                 *)
LEMMA NoLogMoves ==
  ASSUME file = "closed", UdpNext, UNCHANGED logVars
  PROVE  LinkNext
<1>1. \A n, since, good : log_tx(n, FALSE) /\ log_rx(n, since, good, FALSE)
  BY DEF log_tx, log_rx
<1>2. CASE SendTo
  BY <1>1, <1>2 DEF LinkNext, Sent
<1>3. CASE on_frame
  BY <1>1, <1>3 DEF LinkNext, Received
<1>4. CASE Quiet
  BY <1>4 DEF LinkNext
<1> QED BY <1>2, <1>3, <1>4 DEF UdpNext

LEMMA ThreadsStep == ThreadsInv /\ [Next]_threadsVars => ThreadsInv'
<1> SUFFICES ASSUME ThreadsInv, [Next]_threadsVars PROVE ThreadsInv'
  OBVIOUS
<1>0. LinkInv /\ BurnInv /\ (focus = "link" => file = "closed")
  BY DEF ThreadsInv
<1>1. CASE focus = "link" /\ UdpNext /\ UNCHANGED logVars /\ UNCHANGED burnVars /\ UNCHANGED focus
  <2>1. LinkInv'
    BY <1>0, <1>1, NoLogMoves, LinkStep
  <2>2. BurnInv'
    BY <1>0, <1>1, BurnStep
  <2>3. file' = "closed"
    BY <1>0, <1>1 DEF logVars
  <2> QED BY <2>1, <2>2, <2>3 DEF ThreadsInv
<1>2. CASE focus = "log" /\ LinkNext /\ UNCHANGED burnVars /\ UNCHANGED focus
  <2>1. LinkInv' /\ BurnInv'
    BY <1>0, <1>2, LinkStep, BurnStep
  <2> QED BY <1>2, <2>1 DEF ThreadsInv
<1>3. CASE focus \in {"burn", "burns"} /\ BurnNext /\ UNCHANGED linkLogVars /\ UNCHANGED focus
  <2>1. LinkInv' /\ BurnInv'
    BY <1>0, <1>3, LinkStep, BurnStep
  <2> QED BY <1>3, <2>1 DEF ThreadsInv
<1>4. CASE UNCHANGED threadsVars
  <2>1. UNCHANGED <<focus, linkLogVars, burnVars, file>>
    BY <1>4 DEF threadsVars, linkLogVars, logVars
  <2>2. LinkInv' /\ BurnInv'
    BY <1>0, <2>1, LinkStep, BurnStep
  <2> QED BY <1>0, <2>1, <2>2 DEF ThreadsInv
<1> QED BY <1>1, <1>2, <1>3, <1>4 DEF Next

LEMMA ThreadsSound == Spec => []ThreadsInv
<1> QED BY InitThreads, ThreadsStep, PTL DEF Spec

(* Whoever was stopped has let go of the port, for any number of           *)
(* connections: while the GUI thread is in its event loop the current      *)
(* worker alone holds it (UdpWorker.stop, main_window._disconnect).        *)
THEOREM PortIsFreeAlways == Spec => []PortIsFree
<1>1. ThreadsInv => PortIsFree
  BY PortFree DEF ThreadsInv
<1> QED BY <1>1, ThreadsSound, PTL

(* Every query of an open data log has one row and only one, and an OK row *)
(* is about the reply to that query, timed from its own send               *)
(* (frame_logger.log_tx and log_rx, UdpWorker.send_frame and run).         *)
THEOREM RowsAreSoundAlways == Spec => []RowsSound
<1>1. ThreadsInv => RowsSound
  BY RowsAreSound DEF ThreadsInv
<1> QED BY <1>1, ThreadsSound, PTL

(* Every frame a burn test has sent is outstanding or has one row, and the *)
(* counters of the tab add up, for any number of frames, runs, replies     *)
(* late or twice, and other commands that take numbers between the look at *)
(* the counter and its use (burn_test_worker.run, _handle_response).       *)
THEOREM FramesAlwaysAccounted == Spec => []FramesAccounted
<1>1. ThreadsInv => FramesAccounted
  BY AllAccounted DEF ThreadsInv
<1> QED BY <1>1, ThreadsSound, PTL

(* No row of the latest burn test is lost between its thread and the file, *)
(* however batches, errors and ends are delivered and the operator stops   *)
(* and starts (_on_burn_test_rows, _on_burn_test_stop_clicked).            *)
THEOREM LogIsAlwaysComplete == Spec => []LogIsComplete
<1>1. ThreadsInv => LogIsComplete
  BY FileIsComplete DEF ThreadsInv
<1> QED BY <1>1, ThreadsSound, PTL
=============================================================================
