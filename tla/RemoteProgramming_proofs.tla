----------------------- MODULE RemoteProgramming_proofs -----------------------
(***************************************************************************)
(* Machine-checked proofs about remote programming.                        *)
(*                                                                         *)
(* First the session's controller, for any number of QTRMs, chunks and     *)
(* pending single shots, whatever comes in.                                *)
(*                                                                         *)
(* Then a session with them: an upload which ends complete has put the     *)
(* image into every QTRM's flash, for any number of QTRMs, chunks, cells   *)
(* of a chunk and of a FIFO, uploads, resets and losses.                   *)
(*                                                                         *)
(* A cell of the upload has a place in the stream: 0 for the announce,     *)
(* then the cells of the chunks in order.  The stream was sent up to place *)
(* L and is on the lines from some place on; of what a bootloader heard,   *)
(* everything up to place P is gone.  A bootloader that took as many cells *)
(* since its announce as P says has missed none of them.  It acknowledges  *)
(* chunk i after it took i + 1 chunks' cells, and the stream does not go   *)
(* past the chunk in flight: so the ack of the last chunk proves all.      *)
(***************************************************************************)
EXTENDS RemoteProgramming, SequenceTheorems, TLAPS

-----------------------------------------------------------------------------
(*                               The session                               *)
-----------------------------------------------------------------------------

(* What the properties need to know of the upload's own variables: a phase *)
(* only inside an upload, an image behind every pending single shot, and a *)
(* cursor inside the image.                                                *)
UploadShape ==
  /\ phase # "none" <=> op = "upload"
  /\ op = "upload" \/ announces > 0 => chunkCount > 0
  /\ current < chunkCount

(* What the tab's button rules rest on: the gate in the tab is the         *)
(* controller's, and Program has locked the tab only while the gate is     *)
(* open.                                                                   *)
TabShape ==
  /\ tab.gate <=> gate_open
  /\ tab.step1 <=> step1Done
  /\ tab.programmed => tab.gate

(* While Step 1 is in flight, and from its success on, the target is the   *)
(* one its frame carried.                                                  *)
StepOneShape == op = "mode_step1" \/ step1Done => step1Target = target

IInv ==
  /\ TypeOK
  /\ LockMatchesSession
  /\ TimerMatchesOp
  /\ TabShape
  /\ StepOneShape
  /\ UploadShape
  /\ FirstChunkScheduled
  /\ AckedBelowCursor

(* The GUI starts in the invariant. *)
LEMMA InitIInv == Init => IInv
<1> SUFFICES ASSUME Init PROVE IInv
  OBVIOUS
<1> USE DEF Init
<1>1. TypeOK
  <2>1. ackMatrix \in [QTRM -> [0..(MaxChunks - 1) -> {"none", "pass", "fail"}]]
    BY DEF NoAcks
  <2>2. current \in NoChunk..(MaxChunks - 1) /\ chunkCount \in 0..MaxChunks
        /\ announces \in 0..MaxAnnounces
    BY ConstantsAssumption DEF NoChunk
  <2>3. tab \in Tabs
    BY DEF Tabs
  <2> QED BY <2>1, <2>2, <2>3 DEF TypeOK
<1>2. LockMatchesSession /\ TimerMatchesOp /\ TabShape /\ StepOneShape
  BY DEF LockMatchesSession, TimerMatchesOp, TabShape, StepOneShape, busy, gate_open,
         SimpleOps, StepOps, PollOps, BackOps, IapOps
<1>3. UploadShape /\ FirstChunkScheduled /\ AckedBelowCursor
  BY DEF UploadShape, FirstChunkScheduled, AckedBelowCursor, NoChunk
<1> QED BY <1>1, <1>2, <1>3 DEF IInv

(* A session that finishes leaves an idle state behind, provided the tab   *)
(* and the gate the finishing handler passes on still agree.               *)
LEMMA FinishKeepsIInv ==
  ASSUME IInv, busy,
         NEW result \in {"ok", "fail", "cancelled"}, NEW t \in Tabs, finish(result, t),
         UNCHANGED <<uploadVars, targetVars>>,
         link' \in {"off", "starting", "up"},
         gotAny' \in BOOLEAN, iapReplied' \subseteq QTRM,
         step1Done' \in BOOLEAN, step2Done' \in BOOLEAN,
         t.gate <=> gate_open', t.programmed => t.gate,
         step1Done' <=> (t.step1 \/ (op = "mode_step1" /\ result = "ok")),
         step1Done' => step1Target = target
  PROVE  IInv'
<1> USE DEF IInv, busy
<1>1. /\ op' = "none" /\ timer' = "off" /\ phase' = "none" /\ current' = NoChunk
      /\ awaiting' = "none" /\ outcome' = result
  BY DEF finish, LockMatchesSession
<1>2. /\ tab' \in Tabs
      /\ ~tab'.active
      /\ tab'.gate = t.gate
      /\ tab'.step1 <=> (t.step1 \/ (op = "mode_step1" /\ result = "ok"))
      /\ tab'.programmed => t.programmed
  BY DEF finish, on_session_finished, Tabs
<1>3. TypeOK'
  BY <1>1, <1>2, ConstantsAssumption DEF TypeOK, uploadVars, targetVars, NoChunk
<1>4. LockMatchesSession' /\ TimerMatchesOp' /\ TabShape' /\ StepOneShape'
  BY <1>1, <1>2
     DEF LockMatchesSession, TimerMatchesOp, TabShape, StepOneShape, targetVars,
         SimpleOps, StepOps, PollOps, BackOps, IapOps
<1>5. UploadShape' /\ FirstChunkScheduled' /\ AckedBelowCursor'
  BY <1>1 DEF UploadShape, FirstChunkScheduled, AckedBelowCursor, uploadVars, NoChunk, TypeOK
<1> QED BY <1>3, <1>4, <1>5

(* Starting any operation but an upload. *)
LEMMA BeginKeepsIInv ==
  ASSUME IInv, NEW o \in SimpleOps \cup IapOps,
         NEW h \in {"simple", "iap"},
         o \in SimpleOps => h = "simple", o \in IapOps => h = "iap",
         Begin(o, h), UNCHANGED <<phase, current, gateVars, uploadVars, target, link>>,
         iapReplied' \subseteq QTRM,
         IF o = "mode_step1" THEN step1Target' = target ELSE step1Target' = step1Target,
         step2Target' \in QTRM \cup {Broadcast}
  PROVE  IInv'
<1> USE DEF IInv, busy, Begin
<1>1. op = "none" /\ op' = o /\ o # "upload" /\ o # "none" /\ o \in Ops
      /\ (o \in SimpleOps <=> o \notin IapOps)
  BY DEF Accepts, Ops, SimpleOps, StepOps, PollOps, BackOps, IapOps
<1>2. /\ tab' \in Tabs /\ tab'.active /\ tab'.gate = tab.gate /\ tab'.step1 = tab.step1
      /\ tab'.programmed => tab.programmed \/ o = "program"
  BY DEF mark_session_started, Tabs, TypeOK
<1>3. o = "program" => gate_open
  BY DEF Accepts, StepOps
<1>4. TypeOK'
  BY <1>1, <1>2 DEF TypeOK, uploadVars, gateVars
<1>5. LockMatchesSession' /\ TimerMatchesOp' /\ StepOneShape'
  BY <1>1, <1>2 DEF LockMatchesSession, TimerMatchesOp, StepOneShape, gateVars
<1>6. TabShape'
  BY <1>2, <1>3 DEF TabShape, gateVars, gate_open
<1>7. UploadShape' /\ FirstChunkScheduled' /\ AckedBelowCursor'
  BY <1>1 DEF UploadShape, FirstChunkScheduled, AckedBelowCursor, uploadVars
<1> QED BY <1>4, <1>5, <1>6, <1>7

(* Announcing an upload. *)
LEMMA UploadKeepsIInv ==
  ASSUME IInv, NEW n \in 1..MaxChunks, start_upload(n)
  PROVE  IInv'
<1> USE DEF IInv, busy, start_upload, Begin
<1>1. op = "none" /\ op' = "upload" /\ phase' = "stream" /\ current' = NoChunk
  BY DEF Accepts
<1>2. /\ tab' \in Tabs /\ tab'.active /\ tab'.gate = tab.gate /\ tab'.step1 = tab.step1
      /\ tab'.programmed => tab.programmed
  BY DEF mark_session_started, Tabs, TypeOK
<1>3. announces' \in 1..MaxAnnounces /\ chunkCount' \in 1..MaxChunks
  BY ConstantsAssumption DEF TypeOK
<1>4. ackMatrix' \in [QTRM -> [0..(MaxChunks - 1) -> {"none", "pass", "fail"}]]
  BY DEF NoAcks
<1>5. TypeOK'
  <2>1. current' \in NoChunk..(MaxChunks - 1)
    BY <1>1, ConstantsAssumption DEF NoChunk
  <2>2. chunkCount' \in 0..MaxChunks /\ announces' \in 0..MaxAnnounces
    BY <1>3
  <2>3. /\ link' \in {"off", "starting", "up"}
        /\ awaiting' \in {"none", "remote_programming", "other"}
        /\ op' \in Ops \cup {"none"}
        /\ step1Done' \in BOOLEAN /\ step2Done' \in BOOLEAN /\ gotAny' \in BOOLEAN
        /\ iapReplied' \subseteq QTRM
        /\ timer' \in {"off", "simple", "iap", "grace"}
        /\ outcome' \in {"none", "ok", "fail", "cancelled"}
        /\ target' \in QTRM \cup {Broadcast}
        /\ step1Target' \in QTRM \cup {Broadcast}
        /\ step2Target' \in QTRM \cup {Broadcast}
    BY <1>1 DEF TypeOK, gateVars, targetVars, Ops
  <2> QED BY <1>1, <1>2, <1>4, <2>1, <2>2, <2>3 DEF TypeOK
<1>6. LockMatchesSession' /\ TimerMatchesOp' /\ TabShape' /\ StepOneShape'
  BY <1>1, <1>2
     DEF LockMatchesSession, TimerMatchesOp, TabShape, StepOneShape, targetVars,
         gateVars, gate_open, SimpleOps, StepOps, PollOps, BackOps, IapOps
<1>7. UploadShape' /\ FirstChunkScheduled'
  BY <1>1, <1>3 DEF UploadShape, FirstChunkScheduled, NoChunk
<1>8. AckedBelowCursor'
  <2>1. \A i \in 0..(chunkCount' - 1) : ~(i < current' \/ phase' = "grace")
    BY <1>1, <1>3 DEF NoChunk
  <2> QED BY <2>1 DEF AckedBelowCursor
<1> QED BY <1>5, <1>6, <1>7, <1>8

(* Recording a frame's acks keeps every pass and turns an ok ack of a      *)
(* chunk of the image into one.                                            *)
LEMMA RecordAcks ==
  ASSUME TypeOK, NEW slots \in [QTRM -> Slots]
  PROVE  /\ record_acks(slots) \in [QTRM -> [0..(MaxChunks - 1) -> {"none", "pass", "fail"}]]
         /\ \A q \in QTRM : \A i \in 0..(MaxChunks - 1) :
              ackMatrix[q][i] = "pass" => record_acks(slots)[q][i] = "pass"
         /\ \A q \in QTRM : \A i \in 0..(chunkCount - 1) :
              slots[q] = [idx |-> i, ok |-> TRUE] => record_acks(slots)[q][i] = "pass"
<1>1. \A q \in QTRM : \A i \in 0..(MaxChunks - 1) :
        ackMatrix[q][i] \in {"none", "pass", "fail"}
  BY DEF TypeOK
<1>2. \A q \in QTRM : \A i \in 0..(MaxChunks - 1) :
        record_acks(slots)[q][i] =
          IF slots[q].idx = i /\ i < chunkCount /\ ackMatrix[q][i] # "pass"
          THEN IF slots[q].ok THEN "pass" ELSE "fail"
          ELSE ackMatrix[q][i]
  BY DEF record_acks
<1>3. record_acks(slots) \in [QTRM -> [0..(MaxChunks - 1) -> {"none", "pass", "fail"}]]
  BY <1>1 DEF record_acks
<1>4. \A q \in QTRM : \A i \in 0..(MaxChunks - 1) :
        ackMatrix[q][i] = "pass" => record_acks(slots)[q][i] = "pass"
  BY <1>2
<1>5. ASSUME NEW q \in QTRM, NEW i \in 0..(chunkCount - 1),
             slots[q] = [idx |-> i, ok |-> TRUE]
      PROVE  record_acks(slots)[q][i] = "pass"
  <2>1. i \in 0..(MaxChunks - 1) /\ i < chunkCount
    BY ConstantsAssumption DEF TypeOK
  <2>2. slots[q].idx = i /\ slots[q].ok = TRUE
    BY <1>5
  <2> QED BY <1>2, <2>1, <2>2
<1> QED BY <1>3, <1>4, <1>5

(* One frame in a streaming upload: where the cursor gets to, and that the *)
(* chunks it passed were acked in this very frame.                         *)
LEMMA StreamStep ==
  ASSUME TypeOK, NEW slots \in [QTRM -> Slots],
         UploadShape, op = "upload",
         NEW d \in current..chunkCount, Reaches(slots, current, d), stream_to(d),
         ackMatrix' = record_acks(slots)
  PROVE  /\ current' \in NoChunk..(MaxChunks - 1)
         /\ current' < chunkCount
         /\ current' = NoChunk => current = NoChunk /\ d = NoChunk
         /\ \A i \in 0..(d - 1) : i >= current => \E q \in QTRM : ackMatrix'[q][i] = "pass"
<1>1. current \in Int /\ chunkCount \in Nat /\ d \in Int /\ chunkCount > 0
      /\ NoChunk <= current /\ current < chunkCount /\ chunkCount <= MaxChunks
  BY DEF TypeOK, UploadShape, NoChunk
<1>2. current' = IF d < chunkCount THEN d ELSE chunkCount - 1
  BY DEF stream_to
<1>3. current' \in NoChunk..(MaxChunks - 1) /\ current' < chunkCount
  BY <1>1, <1>2, ConstantsAssumption DEF NoChunk
<1>4. current' = NoChunk => current = NoChunk /\ d = NoChunk
  BY <1>1, <1>2 DEF NoChunk
<1>5. ASSUME NEW i \in 0..(d - 1), i >= current
      PROVE  \E q \in QTRM : ackMatrix'[q][i] = "pass"
  <2>1. PICK by \in [current..(d - 1) -> QTRM] :
          \A k \in current..(d - 1) : slots[by[k]] = [idx |-> k, ok |-> TRUE]
    BY DEF Reaches
  <2>2. i \in current..(d - 1) /\ i \in 0..(chunkCount - 1)
    BY <1>1, <1>5
  <2>3. by[i] \in QTRM /\ slots[by[i]] = [idx |-> i, ok |-> TRUE]
    BY <2>1, <2>2
  <2> QED BY <2>2, <2>3, RecordAcks
<1> QED BY <1>3, <1>4, <1>5

(* The slots that are looked at: all of them, while there is a worker.     *)
LEMMA SeenSlots ==
  /\ \A slots \in [QTRM -> Slots] : Seen(slots) \in [QTRM -> Slots]
  /\ link # "off" => \A slots : slots = [q \in QTRM |-> slots[q]] => Seen(slots) = slots
BY DEF Seen, Slots

(* A frame of acks in an upload, streaming or in its grace window. *)
LEMMA UploadFrameKeepsIInv ==
  ASSUME IInv, NEW slots \in [QTRM -> Slots], UploadFrame(slots)
  PROVE  IInv'
<1> USE DEF IInv
<1>0. PICK seen \in [QTRM -> Slots] : seen = Seen(slots)
  BY SeenSlots
<1>1. /\ op = "upload" /\ op' = op /\ tab' = tab /\ awaiting' = awaiting
      /\ outcome' = outcome /\ link' = link /\ gotAny' = TRUE
      /\ iapReplied' = iapReplied /\ announces' = announces
      /\ chunkCount' = chunkCount /\ UNCHANGED <<gateVars, targetVars>>
      /\ ackMatrix' = record_acks(seen)
  BY <1>0 DEF UploadFrame, FrameFor
<1>2. phase \in {"stream", "grace"}
  BY <1>1 DEF TypeOK, UploadShape
<1>3. /\ current' \in NoChunk..(MaxChunks - 1) /\ current' < chunkCount
      /\ phase' \in {"stream", "grace"}
      /\ timer' = (IF phase' = "grace" THEN "grace" ELSE "off")
      /\ current' = NoChunk => phase' = "stream" /\ announces > 0
      /\ \A i \in 0..(chunkCount - 1) :
           (i < current' \/ phase' = "grace") => \E q \in QTRM : ackMatrix'[q][i] = "pass"
  <2>1. \A i \in 0..(chunkCount - 1) :
          (i < current \/ phase = "grace") => \E q \in QTRM : ackMatrix'[q][i] = "pass"
    <3>1. \A i \in 0..(chunkCount - 1) : i \in 0..(MaxChunks - 1)
      BY ConstantsAssumption DEF TypeOK
    <3> QED BY <1>1, <3>1, RecordAcks DEF AckedBelowCursor
  <2>2. CASE phase = "grace"
    BY <1>1, <1>2, <2>1, <2>2
       DEF UploadFrame, UploadShape, TypeOK, TimerMatchesOp, FirstChunkScheduled
  <2>3. CASE phase = "stream"
    <3>1. PICK d \in current..chunkCount : Reaches(seen, current, d) /\ stream_to(d)
      BY <1>0, <2>3 DEF UploadFrame
    <3>2. /\ current' \in NoChunk..(MaxChunks - 1) /\ current' < chunkCount
          /\ current' = NoChunk => current = NoChunk /\ d = NoChunk
          /\ \A i \in 0..(d - 1) : i >= current => \E q \in QTRM : ackMatrix'[q][i] = "pass"
      BY <1>1, <3>1, StreamStep
    <3>3. /\ phase' = IF d = chunkCount THEN "grace" ELSE "stream"
          /\ timer' = IF d = chunkCount THEN "grace" ELSE "off"
          /\ current' = IF d < chunkCount THEN d ELSE chunkCount - 1
      BY <1>1, <2>3, <3>1 DEF stream_to, TimerMatchesOp
    <3>4. current' = NoChunk => d # chunkCount /\ announces > 0
      BY <1>1, <3>2 DEF FirstChunkScheduled, UploadShape, NoChunk
    <3>5. ASSUME NEW i \in 0..(chunkCount - 1), i < current' \/ phase' = "grace"
          PROVE  \E q \in QTRM : ackMatrix'[q][i] = "pass"
      <4>1. i < d
        BY <3>1, <3>3, <3>5 DEF TypeOK, NoChunk
      <4>2. CASE i < current
        BY <2>1, <4>2
      <4>3. CASE ~(i < current)
        <5>1. i \in 0..(d - 1) /\ i >= current
          BY <4>1, <4>3, <3>1 DEF TypeOK, NoChunk
        <5> QED BY <5>1, <3>2
      <4> QED BY <4>2, <4>3
    <3> QED BY <3>2, <3>3, <3>4, <3>5
  <2> QED BY <1>2, <2>2, <2>3
<1>4. TypeOK'
  BY <1>1, <1>3, RecordAcks DEF TypeOK, gateVars, targetVars
<1>5. LockMatchesSession' /\ TimerMatchesOp' /\ TabShape' /\ StepOneShape'
  BY <1>1, <1>3
     DEF LockMatchesSession, TimerMatchesOp, TabShape, StepOneShape, targetVars, busy,
         gateVars, gate_open, SimpleOps, StepOps, PollOps, BackOps, IapOps
<1>6. UploadShape' /\ FirstChunkScheduled' /\ AckedBelowCursor'
  BY <1>1, <1>2, <1>3 DEF UploadShape, FirstChunkScheduled, AckedBelowCursor
<1> QED BY <1>4, <1>5, <1>6

(* The uncancelled single shot: it moves the cursor back to chunk 0 of     *)
(* whatever image was announced last.                                      *)
LEMMA AnnounceKeepsIInv ==
  ASSUME IInv, announce_settled
  PROVE  IInv'
<1> USE DEF IInv, announce_settled
<1>1. current' = 0 /\ 0 \in NoChunk..(MaxChunks - 1) /\ announces' \in 0..MaxAnnounces
      /\ chunkCount > 0 /\ 0 # NoChunk
  BY ConstantsAssumption DEF TypeOK, NoChunk, UploadShape
<1>2. TypeOK'
  BY <1>1 DEF TypeOK, gateVars, targetVars
<1>3. LockMatchesSession' /\ TimerMatchesOp' /\ TabShape' /\ StepOneShape'
  BY DEF LockMatchesSession, TimerMatchesOp, TabShape, StepOneShape, targetVars, busy,
         gateVars, gate_open
<1>4. UploadShape' /\ FirstChunkScheduled'
  BY <1>1 DEF UploadShape, FirstChunkScheduled, TypeOK
<1>5. AckedBelowCursor'
  <2>1. \A i \in 0..(chunkCount - 1) : ~(i < current')
    BY <1>1
  <2> QED BY <2>1 DEF AckedBelowCursor
<1> QED BY <1>2, <1>3, <1>4, <1>5

(* Events that leave the session, the gate and the upload alone. *)
LEMMA QuietKeepsIInv ==
  ASSUME IInv,
         UNCHANGED <<op, timer, phase, current, tab, outcome, gateVars, uploadVars,
                     step1Target, step2Target>>,
         target' \in QTRM \cup {Broadcast}, target' # target => ~step1Done /\ ~busy,
         awaiting' = awaiting \/ (awaiting' \in {"none", "other"} /\ ~busy),
         link' \in {"off", "starting", "up"},
         gotAny' \in BOOLEAN, iapReplied' \subseteq QTRM
  PROVE  IInv'
<1> USE DEF IInv, gateVars, uploadVars
<1>1. TypeOK'
  BY DEF TypeOK
<1>2. LockMatchesSession'
  BY DEF LockMatchesSession, busy, TypeOK
<1>3. TimerMatchesOp' /\ TabShape' /\ UploadShape' /\ FirstChunkScheduled'
  BY DEF TimerMatchesOp, TabShape, gate_open, UploadShape, FirstChunkScheduled
<1>4. StepOneShape' /\ AckedBelowCursor'
  BY DEF StepOneShape, AckedBelowCursor, busy
<1> QED BY <1>1, <1>2, <1>3, <1>4

(* The tab as gate_changed leaves it. *)
LEMMA GateSignal ==
  ASSUME NEW t \in Tabs, NEW open \in BOOLEAN
  PROVE  /\ on_gate_changed(t, open) \in Tabs
         /\ on_gate_changed(t, open).gate <=> open
         /\ on_gate_changed(t, open).step1 <=> t.step1 /\ open
         /\ on_gate_changed(t, open).programmed <=> t.programmed /\ open
BY DEF on_gate_changed, Tabs

(* Finishing without touching the gate. *)
LEMMA PlainFinishKeepsIInv ==
  ASSUME IInv, busy, NEW result \in {"ok", "fail", "cancelled"},
         op = "mode_step1" => result # "ok",
         finish(result, tab), UNCHANGED <<gateVars, uploadVars, targetVars>>,
         link' \in {"off", "starting", "up"},
         gotAny' \in BOOLEAN, iapReplied' \subseteq QTRM
  PROVE  IInv'
<1>1. /\ tab \in Tabs /\ step1Done' \in BOOLEAN /\ step2Done' \in BOOLEAN
      /\ tab.gate <=> gate_open'
      /\ tab.programmed => tab.gate
      /\ step1Done' <=> (tab.step1 \/ (op = "mode_step1" /\ result = "ok"))
      /\ step1Done' => step1Target = target
  BY DEF IInv, TypeOK, TabShape, StepOneShape, gateVars, gate_open
<1> QED BY <1>1, FinishKeepsIInv

(* A mode step that latches. *)
LEMMA LatchKeepsIInv ==
  ASSUME IInv, op \in StepOps, LatchStep, UNCHANGED <<uploadVars, targetVars, link>>,
         gotAny' \in BOOLEAN, iapReplied' \subseteq QTRM
  PROVE  IInv'
<1> DEFINE s1 == step1Done \/ op = "mode_step1"
           s2 == step2Done \/ op = "mode_step2"
           t  == on_gate_changed(tab, s1 /\ s2)
<1>1. step1Done' = s1 /\ step2Done' = s2 /\ finish("ok", t)
  BY DEF LatchStep
<1>2. tab \in Tabs /\ s1 \in BOOLEAN /\ s2 \in BOOLEAN
      /\ (tab.step1 <=> step1Done) /\ (tab.gate <=> (step1Done /\ step2Done))
      /\ (tab.programmed => tab.gate)
  BY DEF IInv, TypeOK, TabShape, gate_open
<1>3. busy
  BY DEF busy, StepOps
<1>4. t \in Tabs /\ (t.gate <=> s1 /\ s2) /\ (t.step1 <=> tab.step1 /\ s1 /\ s2)
      /\ (t.programmed <=> tab.programmed /\ s1 /\ s2)
  <2>1. (s1 /\ s2) \in BOOLEAN
    BY <1>2
  <2> QED BY <1>2, <2>1, GateSignal
<1>5. t.gate <=> gate_open'
  BY <1>1, <1>4 DEF gate_open
<1>6. step1Done' <=> (t.step1 \/ op = "mode_step1")
  BY <1>1, <1>2, <1>4 DEF StepOps
<1>7. step1Done' => step1Target = target
  BY <1>1 DEF IInv, StepOneShape
<1>8. t.programmed => t.gate
  BY <1>4
<1>9. link' \in {"off", "starting", "up"} /\ step1Done' \in BOOLEAN /\ step2Done' \in BOOLEAN
  BY <1>1, <1>2 DEF IInv, TypeOK
<1> HIDE DEF t, s1, s2
<1> QED BY <1>1, <1>3, <1>4, <1>5, <1>6, <1>7, <1>8, <1>9, FinishKeepsIInv

(* QCC -> High Speed finishes with the gate locked again. *)
LEMMA RelockKeepsIInv ==
  ASSUME IInv, op = "mode_back", NEW result \in {"ok", "fail"}, RelockGate(result),
         UNCHANGED <<uploadVars, targetVars, link>>,
         gotAny' \in BOOLEAN, iapReplied' \subseteq QTRM
  PROVE  IInv'
<1> DEFINE t == on_gate_changed(tab, FALSE)
<1>1. ~step1Done' /\ ~step2Done' /\ step1Done' \in BOOLEAN /\ step2Done' \in BOOLEAN
      /\ finish(result, t)
  BY DEF RelockGate
<1>2. tab \in Tabs
  BY DEF IInv, TypeOK
<1>3. t \in Tabs /\ ~t.gate /\ ~t.step1 /\ ~t.programmed
  BY <1>2, GateSignal
<1>4. t.gate <=> gate_open'
  BY <1>1, <1>3 DEF gate_open
<1>5. busy /\ link' \in {"off", "starting", "up"}
  BY DEF busy, IInv, TypeOK
<1> HIDE DEF t
<1> QED BY <1>1, <1>3, <1>4, <1>5, FinishKeepsIInv

(* Everything the operator can click. *)
LEMMA OperatorKeepsIInv ==
  ASSUME IInv, Operator
  PROVE  IInv'
<1>1. CASE start_mode_step1
  <2>1. "mode_step1" \in SimpleOps \cup IapOps /\ "mode_step1" \notin IapOps
    BY DEF SimpleOps, StepOps, IapOps
  <2>2. step2Target' \in QTRM \cup {Broadcast} /\ iapReplied' \subseteq QTRM
    BY <1>1 DEF start_mode_step1, IInv, TypeOK
  <2> QED BY <1>1, <2>1, <2>2, BeginKeepsIInv DEF start_mode_step1
<1>2. CASE start_mode_step2
  <2>1. "mode_step2" \in SimpleOps \cup IapOps /\ "mode_step2" \notin IapOps
    BY DEF SimpleOps, StepOps, IapOps
  <2>2. step2Target' \in QTRM \cup {Broadcast} /\ iapReplied' \subseteq QTRM
    BY <1>2 DEF start_mode_step2, IInv, TypeOK
  <2> QED BY <1>2, <2>1, <2>2, BeginKeepsIInv DEF start_mode_step2
<1>3. CASE \E o \in PollOps \cup BackOps : start_simple(o)
  <2>1. PICK o \in PollOps \cup BackOps : start_simple(o)
    BY <1>3
  <2>2. o \in SimpleOps \cup IapOps /\ o \notin IapOps /\ o # "mode_step1"
    BY DEF SimpleOps, StepOps, PollOps, BackOps, IapOps
  <2>3. step2Target' \in QTRM \cup {Broadcast} /\ iapReplied' \subseteq QTRM
    BY <2>1 DEF start_simple, IInv, TypeOK, targetVars
  <2> QED BY <2>1, <2>2, <2>3, BeginKeepsIInv DEF start_simple, targetVars
<1>4. CASE \E o \in IapOps : start_iap_poll(o)
  <2>1. PICK o \in IapOps : start_iap_poll(o)
    BY <1>4
  <2>2. o \in SimpleOps \cup IapOps /\ o \notin SimpleOps /\ o # "mode_step1"
    BY DEF SimpleOps, StepOps, PollOps, BackOps, IapOps
  <2>3. step2Target' \in QTRM \cup {Broadcast} /\ iapReplied' \subseteq QTRM
    BY <2>1 DEF start_iap_poll, IInv, TypeOK, targetVars
  <2> QED BY <2>1, <2>2, <2>3, BeginKeepsIInv DEF start_iap_poll, targetVars
<1>5. CASE \E n \in 1..MaxChunks : start_upload(n)
  BY <1>5, UploadKeepsIInv
<1>6. CASE cancel
  <2>1. busy /\ finish("cancelled", tab) /\ link' \in {"off", "starting", "up"}
        /\ gotAny' \in BOOLEAN /\ iapReplied' \subseteq QTRM
    BY <1>6 DEF cancel, IInv, TypeOK
  <2> QED BY <1>6, <2>1, PlainFinishKeepsIInv DEF cancel
<1>7. CASE \E t \in QTRM \cup {Broadcast} : SelectTarget(t)
  <2>1. target' \in QTRM \cup {Broadcast} /\ ~step1Done /\ ~busy
    BY <1>7
       DEF SelectTarget, target_combo_enabled, IInv, TabShape, LockMatchesSession
  <2> QED BY <1>7, <2>1, QuietKeepsIInv DEF SelectTarget, sessionVars, IInv, TypeOK
<1>8. CASE connect
  BY <1>8, QuietKeepsIInv DEF connect, sessionVars, targetVars, IInv, TypeOK
<1>9. CASE disconnect
  <2>1. link' \in {"off", "starting", "up"} /\ gotAny' \in BOOLEAN /\ iapReplied' \subseteq QTRM
        /\ UNCHANGED <<gateVars, uploadVars, targetVars>>
    BY <1>9 DEF disconnect, IInv, TypeOK
  <2>2. CASE busy
    BY <1>9, <2>1, <2>2, PlainFinishKeepsIInv DEF disconnect
  <2>3. CASE ~busy
    BY <1>9, <2>1, <2>3, QuietKeepsIInv DEF disconnect, sessionVars, targetVars, IInv, TypeOK
  <2> QED BY <2>2, <2>3
<1>10. CASE other_command
  <2>1. ~busy
    BY <1>10 DEF other_command, IInv, LockMatchesSession
  <2> QED BY <1>10, <2>1, QuietKeepsIInv DEF other_command, targetVars, IInv, TypeOK
<1> QED BY <1>1, <1>2, <1>3, <1>4, <1>5, <1>6, <1>7, <1>8, <1>9, <1>10 DEF Operator

(* Everything a received frame can do. *)
LEMMA ReceiveKeepsIInv ==
  ASSUME IInv, Receive
  PROVE  IInv'
<1>1. CASE StepFrame
  <2>1. op \in StepOps /\ gotAny' \in BOOLEAN /\ iapReplied' \subseteq QTRM
    BY <1>1 DEF StepFrame, FrameFor, IInv, TypeOK
  <2> QED BY <1>1, <2>1, LatchKeepsIInv DEF StepFrame
<1>2. CASE BackFrame
  <2>1. op \in BackOps /\ gotAny' \in BOOLEAN /\ iapReplied' \subseteq QTRM
        /\ link' \in {"off", "starting", "up"}
    BY <1>2 DEF BackFrame, FrameFor, IInv, TypeOK
  <2>2. CASE op = "mode_back"
    BY <1>2, <2>1, <2>2, RelockKeepsIInv DEF BackFrame
  <2>3. CASE op # "mode_back"
    <3>1. busy /\ op # "mode_step1"
      BY <2>1 DEF busy, BackOps
    <3>2. finish("ok", tab) /\ UNCHANGED <<gateVars, uploadVars, targetVars>>
      BY <1>2, <2>3 DEF BackFrame
    <3> QED BY <2>1, <3>1, <3>2, PlainFinishKeepsIInv
  <2> QED BY <2>2, <2>3
<1>3. CASE ShortFrame
  BY <1>3, QuietKeepsIInv DEF ShortFrame, sessionVars, targetVars, IInv, TypeOK
<1>4. CASE PollFrame
  <2>1. op \in PollOps /\ gotAny' \in BOOLEAN /\ iapReplied' \subseteq QTRM
        /\ link' \in {"off", "starting", "up"}
    BY <1>4 DEF PollFrame, FrameFor, IInv, TypeOK
  <2>2. busy /\ op # "mode_step1"
    BY <2>1 DEF busy, PollOps
  <2>3. finish("ok", tab) /\ UNCHANGED <<gateVars, uploadVars, targetVars>>
    BY <1>4 DEF PollFrame
  <2> QED BY <2>1, <2>2, <2>3, PlainFinishKeepsIInv
<1>5. CASE \E replied \in SUBSET QTRM : IapFrame(replied)
  <2>1. PICK replied \in SUBSET QTRM : IapFrame(replied)
    BY <1>5
  <2>2. op \in IapOps /\ gotAny' \in BOOLEAN /\ iapReplied' \subseteq QTRM
        /\ link' \in {"off", "starting", "up"}
        /\ UNCHANGED <<gateVars, uploadVars, targetVars, link>>
    BY <2>1 DEF IapFrame, FrameFor, IInv, TypeOK
  <2>3. busy /\ op # "mode_step1"
    BY <2>2 DEF busy, IapOps
  <2>4. CASE Cardinality(iapReplied') >= TargetCount
    <3>1. finish("ok", tab)
      BY <2>1, <2>4 DEF IapFrame
    <3> QED BY <2>2, <2>3, <3>1, PlainFinishKeepsIInv
  <2>5. CASE ~(Cardinality(iapReplied') >= TargetCount)
    <3>1. UNCHANGED sessionVars
      BY <2>1, <2>5 DEF IapFrame
    <3> QED BY <2>2, <3>1, QuietKeepsIInv DEF sessionVars, targetVars, IInv, TypeOK
  <2> QED BY <2>4, <2>5
<1>6. CASE \E slots \in [QTRM -> Slots] : UploadFrame(slots)
  BY <1>6, UploadFrameKeepsIInv
<1>7. CASE other_command_over
  <2>1. ~busy
    BY <1>7 DEF other_command_over, IInv, LockMatchesSession
  <2> QED BY <1>7, <2>1, QuietKeepsIInv DEF other_command_over, targetVars, IInv, TypeOK
<1> QED BY <1>1, <1>2, <1>3, <1>4, <1>5, <1>6, <1>7 DEF Receive

(* A timer is armed only with the handler of the operation that runs. *)
LEMMA TimerTellsOp ==
  ASSUME IInv
  PROVE  /\ timer = "simple" => op \in SimpleOps
         /\ timer = "iap" => op \in IapOps
         /\ timer = "grace" => op = "upload"
         /\ timer # "off" => busy
BY DEF IInv, TypeOK, TimerMatchesOp, Ops, busy

(* Every timer that can fire. *)
LEMMA TimersKeepIInv ==
  ASSUME IInv, Timers
  PROVE  IInv'
<1>1. link \in {"off", "starting", "up"} /\ gotAny \in BOOLEAN /\ iapReplied \subseteq QTRM
  BY DEF IInv, TypeOK
<1>2. CASE on_simple_timeout
  <2>1. op \in SimpleOps /\ busy
    BY <1>2, TimerTellsOp DEF on_simple_timeout
  <2>2. /\ link' \in {"off", "starting", "up"} /\ gotAny' \in BOOLEAN
        /\ iapReplied' \subseteq QTRM /\ UNCHANGED <<uploadVars, targetVars, link>>
    BY <1>1, <1>2 DEF on_simple_timeout
  <2>3. CASE op \in StepOps
    <3>1. IF gotAny THEN LatchStep ELSE finish("fail", tab) /\ UNCHANGED gateVars
      BY <1>2, <2>3 DEF on_simple_timeout, StepOps, PollOps
    <3>2. CASE gotAny
      BY <2>2, <2>3, <3>1, <3>2, LatchKeepsIInv
    <3>3. CASE ~gotAny
      BY <2>1, <2>2, <3>1, <3>3, PlainFinishKeepsIInv
    <3> QED BY <3>2, <3>3
  <2>4. CASE op \in PollOps
    <3>1. finish(Result(gotAny), tab) /\ UNCHANGED gateVars
      BY <1>2, <2>4 DEF on_simple_timeout, StepOps, PollOps
    <3>2. Result(gotAny) \in {"ok", "fail", "cancelled"} /\ op # "mode_step1"
      BY <2>4 DEF Result, PollOps
    <3> QED BY <2>1, <2>2, <3>1, <3>2, PlainFinishKeepsIInv
  <2>5. CASE op = "qtrm_high_speed"
    <3>1. finish("fail", tab) /\ UNCHANGED gateVars
      BY <1>2, <2>5 DEF on_simple_timeout, StepOps, PollOps
    <3> QED BY <2>1, <2>2, <3>1, PlainFinishKeepsIInv
  <2>6. CASE op = "mode_back"
    <3>1. RelockGate("fail")
      BY <1>2, <2>6 DEF on_simple_timeout, StepOps, PollOps
    <3> QED BY <2>2, <2>6, <3>1, RelockKeepsIInv
  <2> QED BY <2>1, <2>3, <2>4, <2>5, <2>6 DEF SimpleOps, BackOps
<1>3. CASE on_iap_window_closed
  <2>1. op \in IapOps /\ busy
    BY <1>3, TimerTellsOp DEF on_iap_window_closed
  <2>2. op # "mode_step1" /\ Result(gotAny \/ op = "program") \in {"ok", "fail", "cancelled"}
    BY <2>1 DEF IapOps, Result
  <2>3. /\ finish(Result(gotAny \/ op = "program"), tab)
        /\ UNCHANGED <<gateVars, uploadVars, targetVars>>
        /\ link' \in {"off", "starting", "up"} /\ gotAny' \in BOOLEAN
        /\ iapReplied' \subseteq QTRM
    BY <1>1, <1>3 DEF on_iap_window_closed
  <2> QED BY <2>1, <2>2, <2>3, PlainFinishKeepsIInv
<1>4. CASE close_upload_pass
  <2>1. op = "upload" /\ busy
    BY <1>4, TimerTellsOp DEF close_upload_pass
  <2>2. Result(missing_chunk_indices = {} /\ failed_pairs = {}) \in {"ok", "fail", "cancelled"}
    BY DEF Result
  <2>3. /\ finish(Result(missing_chunk_indices = {} /\ failed_pairs = {}), tab)
        /\ UNCHANGED <<gateVars, uploadVars, targetVars>>
        /\ link' \in {"off", "starting", "up"} /\ gotAny' \in BOOLEAN
        /\ iapReplied' \subseteq QTRM
    BY <1>1, <1>4 DEF close_upload_pass
  <2> QED BY <2>1, <2>2, <2>3, PlainFinishKeepsIInv
<1>5. CASE announce_settled
  BY <1>5, AnnounceKeepsIInv
<1> QED BY <1>2, <1>3, <1>4, <1>5 DEF Timers

(* Every step of the session, and stuttering. *)
LEMMA NextKeepsIInv ==
  ASSUME IInv, [Next]_vars
  PROVE  IInv'
<1>1. CASE Socket
  <2>1. CASE listening
    BY <2>1, QuietKeepsIInv DEF listening, sessionVars, targetVars, IInv, TypeOK
  <2>2. CASE bind_failed
    BY <2>2, QuietKeepsIInv DEF bind_failed, sessionVars, targetVars, IInv, TypeOK
  <2> QED BY <1>1, <2>1, <2>2 DEF Socket
<1>2. CASE UNCHANGED vars
  BY <1>2, QuietKeepsIInv DEF vars, sessionVars, targetVars, IInv, TypeOK
<1> QED BY <1>1, <1>2, OperatorKeepsIInv, ReceiveKeepsIInv, TimersKeepIInv DEF Next

-----------------------------------------------------------------------------
(* The invariant holds of the whole session; the properties follow.        *)

(* IInv is an invariant of the session. *)
THEOREM Invariant == Spec => []IInv
<1>1. Init => IInv
  BY InitIInv
<1>2. IInv /\ [Next]_vars => IInv'
  BY NextKeepsIInv
<1> QED BY <1>1, <1>2, PTL DEF Spec

(* Every variable of the session keeps its type. *)
THEOREM TypeCorrect == Spec => []TypeOK
<1>1. IInv => TypeOK
  BY DEF IInv
<1> QED BY <1>1, Invariant, PTL

(* The busy-lock of the main window, the tab's session flag and the        *)
(* controller's running operation never disagree.                          *)
THEOREM LockFollowsSession == Spec => []LockMatchesSession
<1>1. IInv => LockMatchesSession
  BY DEF IInv
<1> QED BY <1>1, Invariant, PTL

(* The one reusable timer is armed with the handler that ends the running  *)
(* operation, and with nothing when none runs.                             *)
THEOREM TimerFollowsOp == Spec => []TimerMatchesOp
<1>1. IInv => TimerMatchesOp
  BY DEF IInv
<1> QED BY <1>1, Invariant, PTL

(* The tab's gate and Step 1 flags are the controller's, and an idle tab   *)
(* always offers a way on.                                                 *)
THEOREM TabFollowsController == Spec => []TabMirrorsController
<1>1. IInv => TabMirrorsController
  <2> SUFFICES ASSUME IInv PROVE TabMirrorsController
    OBVIOUS
  <2>1. ~busy => ButtonEnabled("mode_step1") \/ ButtonEnabled("mode_back")
    BY DEF IInv, LockMatchesSession, TabShape, ButtonEnabled, StepOps
  <2> QED BY <2>1 DEF IInv, TabShape, TabMirrorsController
<1> QED BY <1>1, Invariant, PTL

(* The tab and the busy-lock let no start through that the controller      *)
(* would refuse.                                                           *)
THEOREM StartsAreAccepted == Spec => []NeverRefused
<1>1. IInv => NeverRefused
  BY DEF IInv, LockMatchesSession, TabShape, NeverRefused, CanStart, Accepts, ButtonEnabled
<1> QED BY <1>1, Invariant, PTL

(* After Step 1 succeeded the target stays the one Step 1 was sent with.   *)
THEOREM TargetHeldAfterStep1 == Spec => []StepOneTargetHeld
<1>1. IInv => StepOneTargetHeld
  BY DEF IInv, StepOneShape, StepOneTargetHeld
<1> QED BY <1>1, Invariant, PTL

(* Below the stream's cursor, and everywhere once the grace window opens,  *)
(* every chunk was acked by some QTRM.                                     *)
THEOREM StreamLeavesNothingUnacked == Spec => []AckedBelowCursor
<1>1. IInv => AckedBelowCursor
  BY DEF IInv
<1> QED BY <1>1, Invariant, PTL

(* An upload whose first chunk is still to come has its single shot        *)
(* pending.                                                                *)
THEOREM FirstChunkWillBeSent == Spec => []FirstChunkScheduled
<1>1. IInv => FirstChunkScheduled
  BY DEF IInv
<1> QED BY <1>1, Invariant, PTL

-----------------------------------------------------------------------------
(* Action properties. *)

(* Only a frame in an upload changes a row of acks that is not being       *)
(* cleared for a new image, and it records acks.                           *)
LEMMA AckMatrixStep ==
  ASSUME IInv, Next
  PROVE  \/ ackMatrix' = ackMatrix
         \/ op = "none" /\ op' = "upload"
         \/ \E slots \in [QTRM -> Slots] : ackMatrix' = record_acks(slots)
<1>1. CASE Operator
  <2>1. CASE \E n \in 1..MaxChunks : start_upload(n)
    BY <2>1 DEF start_upload, Begin, Accepts, busy
  <2>2. CASE ~\E n \in 1..MaxChunks : start_upload(n)
    BY <1>1, <2>2
       DEF Operator, uploadVars, start_mode_step1, start_mode_step2, start_simple,
           start_iap_poll, cancel, SelectTarget, connect, disconnect, other_command
  <2> QED BY <2>1, <2>2
<1>2. CASE Receive
  <2>1. CASE \E slots \in [QTRM -> Slots] : UploadFrame(slots)
    BY <2>1, SeenSlots DEF UploadFrame
  <2>2. CASE ~\E slots \in [QTRM -> Slots] : UploadFrame(slots)
    BY <1>2, <2>2
       DEF Receive, uploadVars, StepFrame, BackFrame, ShortFrame, PollFrame, IapFrame,
           other_command_over
  <2> QED BY <2>1, <2>2
<1>3. CASE Timers
  BY <1>3
     DEF Timers, uploadVars, on_simple_timeout, on_iap_window_closed, close_upload_pass,
         announce_settled
<1>4. CASE Socket
  BY <1>4 DEF Socket, uploadVars, listening, bind_failed
<1> QED BY <1>1, <1>2, <1>3, <1>4 DEF Next

(* Within one upload no late, duplicate or failed ack takes back a QTRM's  *)
(* pass.                                                                   *)
THEOREM PassesAreFinal == Spec => PassIsFinal
<1> DEFINE Kept == \A q \in QTRM : \A i \in 0..(MaxChunks - 1) :
                     ackMatrix[q][i] = "pass" /\ ~(op = "none" /\ op' = "upload")
                       => ackMatrix'[q][i] = "pass"
<1>1. IInv /\ [Next]_vars => [Kept]_vars
  <2> SUFFICES ASSUME IInv, Next PROVE Kept
    OBVIOUS
  <2>1. TypeOK
    BY DEF IInv
  <2> QED BY <2>1, AckMatrixStep, RecordAcks
<1> QED BY <1>1, Invariant, PTL DEF Spec, PassIsFinal

(* Chunk frames are numbered on from the cursor. *)
LEMMA ChunkFramesAre ==
  ASSUME NEW c \in Int, NEW d \in Int, c <= d
  PROVE  /\ Len(ChunkFrames(c, d)) = d - c
         /\ \A k \in 1..(d - c) : ChunkFrames(c, d)[k].arg = c + k
BY DEF ChunkFrames, Frame

(* Which steps put a chunk other than the first on the wire: the frames of *)
(* a streaming upload.                                                     *)
LEMMA ChunkSenders ==
  ASSUME IInv, Next, NEW k \in 1..Len(sent'),
         sent'[k].cmd = "chunk", sent'[k].arg > 0
  PROVE  \E slots \in [QTRM -> Slots] : UploadFrame(slots) /\ phase = "stream"
<1>1. sent' # <<>>
  OBVIOUS
<1>2. ASSUME NEW c, NEW a, sent' = <<Frame(c, a)>> PROVE c = "chunk" /\ a > 0
  <2>1. k = 1
    BY <1>2
  <2> QED BY <1>2, <2>1 DEF Frame
<1>3. ~Operator
  <2>1. ~(\E o \in Ops, h \in {"simple", "iap", "off"} : Begin(o, h))
    BY <1>2 DEF Begin, Ops, SimpleOps, StepOps, PollOps, BackOps, IapOps
  <2>2. {"mode_step1", "mode_step2", "upload"} \cup PollOps \cup BackOps \cup IapOps \subseteq Ops
    BY DEF Ops, SimpleOps, StepOps
  <2>3. ~start_mode_step1 /\ ~start_mode_step2 /\ ~\E n \in 1..MaxChunks : start_upload(n)
    BY <2>1, <2>2 DEF start_mode_step1, start_mode_step2, start_upload
  <2>4. ~(\E o \in PollOps \cup BackOps : start_simple(o))
        /\ ~\E o \in IapOps : start_iap_poll(o)
    BY <2>1, <2>2 DEF start_simple, start_iap_poll
  <2>5. ~cancel /\ ~connect /\ ~disconnect /\ ~\E t \in QTRM \cup {Broadcast} : SelectTarget(t)
    BY <1>1 DEF cancel, connect, disconnect, SelectTarget
  <2>6. ~other_command
    BY <1>2 DEF other_command
  <2> QED BY <2>3, <2>4, <2>5, <2>6 DEF Operator
<1>4. ~Timers
  <2>1. ~announce_settled
    BY <1>1, <1>2 DEF announce_settled
  <2> QED BY <1>1, <2>1 DEF Timers, on_simple_timeout, on_iap_window_closed, close_upload_pass
<1>5. ~Socket
  BY <1>1 DEF Socket, listening, bind_failed
<1>6. \E slots \in [QTRM -> Slots] : UploadFrame(slots)
  BY <1>1, <1>3, <1>4, <1>5
     DEF Next, Receive, StepFrame, BackFrame, ShortFrame, PollFrame, IapFrame,
         other_command_over
<1> QED BY <1>1, <1>6 DEF UploadFrame

(* On the wire a chunk after the first follows an ack of the chunk before  *)
(* it, whatever the acks' order, duplicates and losses.                    *)
THEOREM ChunksFollowAcks == Spec => StreamIsAckDriven
<1> DEFINE Driven == \A k \in 1..Len(sent') :
                       sent'[k].cmd = "chunk" /\ sent'[k].arg > 0 =>
                         \E q \in QTRM : ackMatrix'[q][sent'[k].arg - 1] = "pass"
<1>1. IInv /\ [Next]_vars => [Driven]_vars
  <2> SUFFICES ASSUME IInv, Next, NEW k \in 1..Len(sent'),
                      sent'[k].cmd = "chunk", sent'[k].arg > 0
               PROVE  \E q \in QTRM : ackMatrix'[q][sent'[k].arg - 1] = "pass"
    OBVIOUS
  <2>1. PICK slots \in [QTRM -> Slots] : UploadFrame(slots) /\ phase = "stream"
    BY ChunkSenders
  <2>2. PICK seen \in [QTRM -> Slots] : seen = Seen(slots)
    BY SeenSlots
  <2>3. TypeOK /\ UploadShape /\ op = "upload" /\ ackMatrix' = record_acks(seen)
    BY <2>1, <2>2 DEF IInv, UploadFrame, FrameFor
  <2>4. PICK d \in current..chunkCount : Reaches(seen, current, d) /\ stream_to(d)
    BY <2>1, <2>2 DEF UploadFrame
  <2>5. \A i \in 0..(d - 1) : i >= current => \E q \in QTRM : ackMatrix'[q][i] = "pass"
    BY <2>3, <2>4, StreamStep
  <2> DEFINE last == IF d < chunkCount THEN d ELSE chunkCount - 1
  <2>6. current \in Int /\ chunkCount \in Int /\ d \in Int /\ last \in Int
        /\ current <= last /\ last <= d
    BY <2>3, <2>4 DEF TypeOK, UploadShape, NoChunk
  <2>7. sent' = ChunkFrames(current, last)
    <3>1. sent' # <<>>
      OBVIOUS
    <3> QED BY <2>4, <3>1 DEF stream_to
  <2>8. k \in 1..(last - current) /\ sent'[k].arg = current + k
    BY <2>6, <2>7, ChunkFramesAre
  <2>9. current + k - 1 \in 0..(d - 1) /\ current + k - 1 >= current
    BY <2>6, <2>8
  <2>10. \E q \in QTRM : ackMatrix'[q][current + k - 1] = "pass"
    BY <2>5, <2>9
  <2>11. sent'[k].arg - 1 = current + k - 1
    BY <2>6, <2>8
  <2> QED BY <2>10, <2>11
<1> QED BY <1>1, Invariant, PTL DEF Spec, StreamIsAckDriven

-----------------------------------------------------------------------------
(*                               The uploads                               *)
-----------------------------------------------------------------------------

(* The cells before chunk i. *)
Start(i) == i * ChunkCells

Place(c) == IF c.kind = "announce" THEN 0 ELSE Start(c.arg) + c.part

ChunkCell(i, p) == Cell("chunk", uploads, i, p)

StreamCells ==
  {Cell("announce", uploads, chunkCount, 0)}
    \cup {ChunkCell(i, p) : i \in 0..(chunkCount - 1), p \in 1..ChunkCells}

(* The variables of the bootloaders are functions of the bootloader.       *)
IsFunction(f) == f = [q \in Qtrm |-> f[q]]

Functions ==
  /\ IsFunction(mode) /\ IsFunction(rx) /\ IsFunction(fifo)
  /\ IsFunction(reply) /\ IsFunction(lost) /\ IsFunction(flash)
  /\ \A q \in Qtrm : flash[q] = [b \in Blocks |-> flash[q][b]]
  /\ misreads \in [Qtrm -> Nat]
  /\ uploads \in Nat

(* The GUI's side: one single shot, and it is gone once chunk 0 was sent.  *)
Session ==
  /\ chunkCount \in 1..MaxChunks
  /\ current \in -1..(chunkCount - 1)
  /\ announces \in {0, 1}
  /\ current # -1 => announces = 0
  /\ link # "off"

Left(L) == L - Len(line)   \* the place up to which cells have left the lines

OnLine(L) ==
  /\ L \in -1..Start(current + 1)
  /\ line \in Seq(StreamCells)
  /\ Left(L) \in -1..L
  /\ \A j \in 1..Len(line) : Place(line[j]) = Left(L) + j

(* A is the place up to which cells have left the lines.  A bootloader     *)
(* that took nothing yet (P = -1) holds at most the announce.              *)
Coming(q, A, P) ==
  /\ P \in -1..A
  /\ fifo[q] \in Seq(StreamCells)
  /\ \A j \in 1..Len(fifo[q]) : Place(fifo[q][j]) \in (P + 1)..A
  /\ \A j, k \in 1..Len(fifo[q]) : j < k => Place(fifo[q][j]) < Place(fifo[q][k])
  /\ P = -1 /\ fifo[q] # <<>> => mode[q] = "command" /\ A = 0 /\ Len(fifo[q]) = 1

(* Number of the chunk to be acknowledged next, and the cells taken.       *)
Due(q) == IF mode[q] = "write" THEN rx[q].index - 1 ELSE rx[q].index
Taken(q) == Start(Due(q)) + Len(rx[q].buf)

Receiving(q) == mode[q] \in {"receive", "write"}

Undisturbed(q) ==
  /\ \A i \in 0..(Due(q) - 1) : Holds(q, i)
  /\ \A k \in 1..Len(rx[q].buf) : rx[q].buf[k] = ChunkCell(Due(q), k)

RxType == [total : Nat, index : Nat, golden : Flags, size : Nat, buf : Seq(StreamCells)]

Reading(q, A, P) ==
  /\ P >= 0 /\ Taken(q) <= P
  /\ rx[q] \in RxType
  /\ rx[q].total = chunkCount /\ rx[q].golden = 0 /\ rx[q].size = ChunkCells
  /\ Due(q) \in 0..(chunkCount - 1)
  /\ IF mode[q] = "write" THEN Len(rx[q].buf) = ChunkCells ELSE Len(rx[q].buf) < ChunkCells
  /\ Taken(q) = P => Undisturbed(q)
  /\ ~lost[q] => /\ Taken(q) = P
                 /\ P + Len(fifo[q]) = A
                 /\ \A j \in 1..Len(fifo[q]) : Place(fifo[q][j]) = P + j

PacketType == [kind : {"ack", "error", "link_check"}, arg : Nat]

(* The chunks that count as passed, or will when the packet is handed on.  *)
Acks(q) ==
  {i \in 0..(MaxChunks - 1) : ackMatrix[q][i] = "pass"}
    \cup {reply[q][k].arg : k \in {n \in 1..Len(reply[q]) : reply[q][n].kind = "ack"}}

Earned(q, P, i) ==
  /\ i \in 0..(chunkCount - 1)
  /\ Start(i + 1) <= P
  /\ Receiving(q) => i < Due(q)
  /\ i = chunkCount - 1 => \A j \in 0..i : Holds(q, j)
  /\ ~lost[q] => Holds(q, i)

Follows(q, A, P) ==
  /\ mode[q] \in {"command", "fabric", "receive", "write"}
  /\ Coming(q, A, P)
  /\ Receiving(q) => Reading(q, A, P)
  /\ reply[q] \in Seq(PacketType)
  /\ \A i \in Acks(q) : Earned(q, P, i)

Streaming ==
  \E L \in -1..Start(current + 1) :
    OnLine(L) /\ \A q \in Qtrm : \E P \in -1..Left(L) : Follows(q, Left(L), P)

ProgInv == Functions /\ (fresh /\ op = "upload" => Session /\ Streaming)

----------------------------------------------------------------------------
(* Places. *)

LEMMA StartAt ==
  /\ ChunkCells \in Nat \ {0}
  /\ Start(0) = 0
  /\ \A i \in Int : Start(i) \in Int /\ Start(i + 1) = Start(i) + ChunkCells
<1>1. ChunkCells \in Nat \ {0}
  BY BootAssumption
<1>2. ASSUME NEW i \in Int PROVE (i + 1) * ChunkCells = i * ChunkCells + ChunkCells
  BY <1>1
<1>3. ASSUME NEW i \in Int PROVE i * ChunkCells \in Int
  BY <1>1
<1>4. 0 * ChunkCells = 0
  BY <1>1
<1> QED BY <1>1, <1>2, <1>3, <1>4 DEF Start

LEMMA StartInt == ASSUME NEW i \in Int PROVE Start(i) \in Int
BY StartAt

LEMMA StartNext == ASSUME NEW i \in Int PROVE Start(i + 1) = Start(i) + ChunkCells
BY StartAt

LEMMA StartGrows ==
  ASSUME NEW i \in Int, NEW j \in Int, i < j
  PROVE  Start(i) + ChunkCells <= Start(j)
<1>1. ChunkCells \in Nat /\ i + 1 <= j
  BY BootAssumption
<1>2. (i + 1) * ChunkCells <= j * ChunkCells
  <2>1. j * ChunkCells = (i + 1) * ChunkCells + (j - i - 1) * ChunkCells
    BY <1>1
  <2>2. (j - i - 1) * ChunkCells >= 0
    BY <1>1
  <2>3. (i + 1) * ChunkCells \in Int /\ (j - i - 1) * ChunkCells \in Int
    BY <1>1
  <2> QED BY <2>1, <2>2, <2>3
<1>3. Start(i + 1) = Start(i) + ChunkCells
  BY StartAt
<1> QED BY <1>2, <1>3 DEF Start

(* Every place belongs to one cell of one chunk.                           *)
LEMMA PlaceUnique ==
  ASSUME NEW i \in Int, NEW j \in Int, NEW p \in 1..ChunkCells, NEW r \in 1..ChunkCells,
         Start(i) + p = Start(j) + r
  PROVE  i = j /\ p = r
<1>1. Start(i) \in Int /\ Start(j) \in Int /\ ChunkCells \in Nat
  BY StartAt
<1>2. ~(i < j)
  BY <1>1, StartGrows
<1>3. ~(j < i)
  BY <1>1, StartGrows
<1>4. i = j
  BY <1>2, <1>3
<1> QED BY <1>1, <1>4

(* The cell at place 0 is the announce, and at any other one of a chunk.   *)
LEMMA CellAt ==
  ASSUME Session, NEW c \in StreamCells
  PROVE  /\ Place(c) \in Nat
         /\ Place(c) = 0 => c = Cell("announce", uploads, chunkCount, 0)
         /\ Place(c) # 0 => /\ c.kind = "chunk"
                            /\ c.arg \in 0..(chunkCount - 1) /\ c.part \in 1..ChunkCells
                            /\ c = ChunkCell(c.arg, c.part)
                            /\ Place(c) = Start(c.arg) + c.part
<1>1. CASE c = Cell("announce", uploads, chunkCount, 0)
  BY <1>1 DEF Cell, Place
<1>2. ASSUME NEW i \in 0..(chunkCount - 1), NEW p \in 1..ChunkCells, c = ChunkCell(i, p)
      PROVE  /\ c.kind = "chunk" /\ c.arg = i /\ c.part = p
             /\ Place(c) = Start(i) + p /\ Place(c) \in Nat \ {0}
  <2>1. c.kind = "chunk" /\ c.arg = i /\ c.part = p
    BY <1>2 DEF ChunkCell, Cell
  <2>2. Start(i) >= 0 /\ Start(i) \in Int /\ i \in Int /\ ChunkCells \in Nat
    <3>1. i \in Int /\ (i = 0 \/ 0 < i)
      BY DEF Session
    <3> QED BY <3>1, StartAt, StartGrows
  <2> QED BY <2>1, <2>2 DEF Place
<1> QED BY <1>1, <1>2 DEF StreamCells

----------------------------------------------------------------------------
(* A step of one bootloader leaves the others and the line alone.          *)

Touches(f, g, q) == IsFunction(g) /\ \A r \in Qtrm \ {q} : g[r] = f[r]

Alone(q) ==
  /\ Touches(mode, mode', q) /\ Touches(rx, rx', q) /\ Touches(fifo, fifo', q)
  /\ Touches(reply, reply', q) /\ Touches(lost, lost', q) /\ Touches(flash, flash', q)
  /\ \A r \in Qtrm : flash'[r] = [b \in Blocks |-> flash'[r][b]]
  /\ misreads' \in [Qtrm -> Nat]
  /\ line' = line

LEMMA SetOne ==
  ASSUME NEW f, IsFunction(f), NEW q \in Qtrm, NEW v
  PROVE  Touches(f, [f EXCEPT ![q] = v], q) /\ [f EXCEPT ![q] = v][q] = v
<1>1. f = [r \in Qtrm |-> f[r]]
  BY DEF IsFunction
<1>2. [f EXCEPT ![q] = v] = [r \in Qtrm |-> IF r = q THEN v ELSE f[r]]
  BY <1>1
<1> QED BY <1>1, <1>2 DEF Touches, IsFunction

LEMMA SetNone ==
  ASSUME NEW f, IsFunction(f), NEW q \in Qtrm
  PROVE  Touches(f, f, q)
BY DEF Touches

(* Taking a cell off the FIFO.                                             *)
LEMMA GetOne ==
  ASSUME Functions, NEW q \in Qtrm, NEW c, Get(q, c)
  PROVE  Touches(fifo, fifo', q) /\ fifo'[q] = Tail(fifo[q]) /\ fifo[q] # <<>> /\ c = Head(fifo[q])
BY SetOne DEF Get, Functions

(* Sending a packet.                                                       *)
LEMMA SendOne ==
  ASSUME Functions, NEW q \in Qtrm, NEW p, Send(q, p)
  PROVE  Touches(reply, reply', q) /\ reply'[q] = Append(reply[q], p)
BY SetOne DEF Send, Functions

(* Erasing or programming a block.                                         *)
LEMMA StoreOne ==
  ASSUME Functions, NEW q \in Qtrm, NEW b, NEW v,
         flash' = [flash EXCEPT ![q][b] = v]
  PROVE  /\ Touches(flash, flash', q)
         /\ \A r \in Qtrm : flash'[r] = [k \in Blocks |-> flash'[r][k]]
         /\ b \in Blocks => flash'[q][b] = v
         /\ \A k \in Blocks \ {b} : flash'[q][k] = flash[q][k]
<1>1. flash' = [flash EXCEPT ![q] = [flash[q] EXCEPT ![b] = v]]
  OBVIOUS
<1>2. Touches(flash, flash', q) /\ flash'[q] = [flash[q] EXCEPT ![b] = v]
  <2>1. IsFunction(flash)
    BY DEF Functions
  <2> DEFINE w == [flash[q] EXCEPT ![b] = v]
  <2>2. Touches(flash, [flash EXCEPT ![q] = w], q) /\ [flash EXCEPT ![q] = w][q] = w
    <3> HIDE DEF w
    <3> QED BY <2>1, SetOne
  <2> QED BY <1>1, <2>2
<1>3. flash[q] = [k \in Blocks |-> flash[q][k]]
  BY DEF Functions
<1>4. flash'[q] = [k \in Blocks |-> IF k = b THEN v ELSE flash[q][k]]
  BY <1>2, <1>3
<1>5. \A r \in Qtrm \ {q} : flash'[r] = [k \in Blocks |-> flash'[r][k]]
  BY <1>2 DEF Touches, Functions
<1> QED BY <1>2, <1>4, <1>5

(* What a bootloader makes of a command.                                   *)
LEMMA ParseOne ==
  ASSUME Functions, NEW q \in Qtrm, NEW c, NEW k, Parse(q, c, k)
  PROVE  /\ mode[q] = "command"
         /\ Touches(fifo, fifo', q) /\ fifo'[q] = Tail(fifo[q]) /\ fifo[q] # <<>> /\ c = Head(fifo[q])
         /\ misreads' \in [Qtrm -> Nat]
         /\ c.kind = k \/ (c.kind = "chunk" /\ k = "other") \/ misreads'[q] # misreads[q]
<1>1. mode[q] = "command" /\ Get(q, c)
  BY DEF Parse
<1>2. misreads \in [Qtrm -> Nat]
  BY DEF Functions
<1>3. \/ misreads' = misreads /\ (c.kind = k \/ (c.kind = "chunk" /\ k = "other"))
      \/ misreads' = [misreads EXCEPT ![q] = @ + 1]
  BY DEF Parse
<1>4. CASE misreads' = [misreads EXCEPT ![q] = @ + 1]
  BY <1>1, <1>2, <1>4, GetOne
<1>5. CASE misreads' = misreads /\ (c.kind = k \/ (c.kind = "chunk" /\ k = "other"))
  BY <1>1, <1>2, <1>5, GetOne
<1> QED BY <1>3, <1>4, <1>5

LEMMA CommandAlone ==
  ASSUME Functions, NEW q \in Qtrm, Command(q)
  PROVE  Alone(q)
<1> USE DEF Functions
<1>1. CASE no_request(q)
  BY <1>1, SetNone DEF no_request, bootVars, Alone
<1>2. ASSUME NEW c \in Heads(q), NEW k \in AnswerKinds, answer(q, c, k) PROVE Alone(q)
  BY <1>2, SetNone, ParseOne, SendOne DEF answer, Alone
<1>3. ASSUME NEW c \in Heads(q), ignore(q, c) PROVE Alone(q)
  BY <1>3, SetNone, ParseOne DEF ignore, Alone
<1>4. ASSUME NEW c \in Heads(q), NEW g \in Flags, NEW n \in 0..MaxTotal, NEW s \in 1..ChunkCells,
             start_bit_stream(q, c, g, n, s)
      PROVE  Alone(q)
  BY <1>4, SetNone, SetOne, ParseOne DEF start_bit_stream, Alone
<1>5. ASSUME NEW c \in Heads(q), mode_change_mss_to_fab(q, c) PROVE Alone(q)
  BY <1>5, SetNone, SetOne, ParseOne DEF mode_change_mss_to_fab, Alone
<1>6. ASSUME NEW c \in Heads(q), NEW m \in IapModes, iap(q, c, m) PROVE Alone(q)
  BY <1>6, SetNone, SetOne, ParseOne DEF iap, Alone
<1> QED BY <1>1, <1>2, <1>3, <1>4, <1>5, <1>6 DEF Command

LEMMA LeaveOne ==
  ASSUME Functions, NEW q \in Qtrm, Leave(q)
  PROVE  /\ Touches(mode, mode', q) /\ Touches(rx, rx', q) /\ rx'[q] = Idle
         /\ mode'[q] = After(rx[q].golden)
BY SetOne DEF Leave, Functions

LEMMA ReceptionAlone ==
  ASSUME Functions, NEW q \in Qtrm, Reception(q)
  PROVE  Alone(q)
<1> USE DEF Functions
<1>1. ASSUME NEW c \in Heads(q), receive(q, c) PROVE Alone(q)
  <2>1. /\ rx' = [rx EXCEPT ![q].buf = Append(rx[q].buf, c)] /\ mode' = mode
        \/ /\ rx' = [rx EXCEPT ![q].buf = Append(rx[q].buf, c), ![q].index = @ + 1]
           /\ mode' = [mode EXCEPT ![q] = "write"]
    BY <1>1 DEF receive
  <2>2. Touches(mode, mode', q)
    <3>1. \A v : Touches(mode, [mode EXCEPT ![q] = v], q)
      BY SetOne
    <3>2. Touches(mode, mode, q)
      BY SetNone
    <3> QED BY <2>1, <3>1, <3>2
  <2>3. Touches(rx, rx', q)
    <3>1. rx' \in {[rx EXCEPT ![q] = [rx[q] EXCEPT !.buf = Append(rx[q].buf, c)]],
                   [rx EXCEPT ![q] = [rx[q] EXCEPT !.buf = Append(rx[q].buf, c), !.index = @ + 1]]}
      BY <2>1
    <3>2. \A v : Touches(rx, [rx EXCEPT ![q] = v], q)
      BY SetOne
    <3> QED BY <3>1, <3>2
  <2>4. Touches(fifo, fifo', q) /\ UNCHANGED <<line, flash, directory, reply, lost, misreads, resets>>
    BY <1>1, GetOne DEF receive
  <2> QED BY <2>2, <2>3, <2>4, SetNone DEF Alone
<1>2. CASE write_to_spi(q)
  <2>1. flash' = [flash EXCEPT ![q][BlockOf(q)] = rx[q].buf] /\ Send(q, Packet("ack", AckNumber(q)))
        /\ UNCHANGED <<fifo, line, directory, lost, misreads, resets>>
    BY <1>2 DEF write_to_spi
  <2>2. Touches(mode, mode', q) /\ Touches(rx, rx', q)
    <3>1. CASE Leave(q)
      BY <3>1, LeaveOne
    <3>2. CASE mode' = [mode EXCEPT ![q] = "receive"] /\ rx' = [rx EXCEPT ![q].buf = <<>>]
      <4>1. rx' = [rx EXCEPT ![q] = [rx[q] EXCEPT !.buf = <<>>]]
        BY <3>2
      <4>2. \A v : Touches(rx, [rx EXCEPT ![q] = v], q)
        BY SetOne
      <4>3. \A v : Touches(mode, [mode EXCEPT ![q] = v], q)
        BY SetOne
      <4> QED BY <3>2, <4>1, <4>2, <4>3
    <3> QED BY <1>2, <3>1, <3>2 DEF write_to_spi
  <2>3. Touches(flash, flash', q) /\ \A r \in Qtrm : flash'[r] = [k \in Blocks |-> flash'[r][k]]
    BY <2>1, StoreOne
  <2>4. Touches(reply, reply', q)
    BY <2>1, SendOne
  <2> QED BY <2>1, <2>2, <2>3, <2>4, SetNone DEF Alone
<1>3. CASE receive_timeout(q)
  BY <1>3, LeaveOne, SendOne, SetNone DEF receive_timeout, Alone
<1>4. CASE update_spi_dir(q)
  BY <1>4, SetOne, SetNone DEF update_spi_dir, Alone
<1> QED BY <1>1, <1>2, <1>3, <1>4 DEF Reception

LEMMA ElsewhereAlone ==
  ASSUME Functions, NEW q \in Qtrm, Elsewhere(q)
  PROVE  Alone(q)
<1> USE DEF Functions
<1>1. CASE mode_change_flag(q)
  BY <1>1, SetOne, SetNone DEF mode_change_flag, Alone
<1>2. CASE iap_result(q)
  BY <1>2, SetOne, SetNone, SendOne DEF iap_result, Alone
<1>3. ASSUME NEW code6 \in BOOLEAN, iap_program_result(q, code6) PROVE Alone(q)
  BY <1>3, SetOne, SetNone DEF iap_program_result, Alone
<1>4. CASE spin(q)
  BY <1>4, SetNone DEF spin, bootVars, Alone
<1>5. CASE main(q)
  <2>1. Touches(flash, flash', q) /\ \A r \in Qtrm : flash'[r] = [k \in Blocks |-> flash'[r][k]]
    <3>1. CASE flash' = flash
      BY <3>1, SetNone
    <3>2. CASE flash' = [flash EXCEPT ![q][BlockOf(q)] = <<>>]
      BY <3>2, StoreOne
    <3> QED BY <1>5, <3>1, <3>2 DEF main
  <2>2. /\ \A v : Touches(mode, [mode EXCEPT ![q] = v], q)
        /\ \A v : Touches(rx, [rx EXCEPT ![q] = v], q)
        /\ \A v : Touches(fifo, [fifo EXCEPT ![q] = v], q)
        /\ \A v : Touches(lost, [lost EXCEPT ![q] = v], q)
    BY SetOne
  <2>3. Touches(reply, reply', q)
    BY <1>5, SendOne DEF main
  <2> QED BY <1>5, <2>1, <2>2, <2>3 DEF main, Alone
<1> QED BY <1>1, <1>2, <1>3, <1>4, <1>5 DEF Elsewhere

----------------------------------------------------------------------------
(* What a step leaves as it was for one bootloader. *)

Uploading ==
  /\ Functions
  /\ Session /\ Session'
  /\ UNCHANGED <<uploads, chunkCount>>

LEMMA StreamStill ==
  ASSUME Uploading
  PROVE  /\ StreamCells' = StreamCells /\ RxType' = RxType
         /\ \A i, p : ChunkCell(i, p)' = ChunkCell(i, p)
         /\ \A i : ChunkOf(uploads, i)' = ChunkOf(uploads, i)
BY DEF Uploading, StreamCells, ChunkCell, RxType, Cell, ChunkOf

LEMMA HoldsStill ==
  ASSUME Uploading, NEW q \in Qtrm, NEW i,
         flash'[q][image_base(0) + i] = flash[q][image_base(0) + i]
  PROVE  Holds(q, i)' <=> Holds(q, i)
BY StreamStill DEF Uploading, Holds, image_base

(* A step that leaves a bootloader alone and acknowledges nothing new.     *)
LEMMA FollowsStill ==
  ASSUME Uploading, NEW q \in Qtrm, NEW A, NEW P, Follows(q, A, P),
         mode'[q] = mode[q], rx'[q] = rx[q], fifo'[q] = fifo[q],
         lost'[q] = lost[q], flash'[q] = flash[q],
         reply'[q] \in Seq(PacketType), Acks(q)' \subseteq Acks(q)
  PROVE  Follows(q, A, P)'
<1>1. \A i : Holds(q, i)' <=> Holds(q, i)
  BY HoldsStill
<1>2. Due(q)' = Due(q) /\ Taken(q)' = Taken(q) /\ (Receiving(q)' <=> Receiving(q))
  BY DEF Due, Taken, Receiving, Start
<1>3. Coming(q, A, P)'
  BY StreamStill DEF Follows, Coming, Place, Start
<1>4. ASSUME Receiving(q)' PROVE Reading(q, A, P)'
  <2>1. Reading(q, A, P)
    BY <1>2, <1>4 DEF Follows
  <2>2. Undisturbed(q) => Undisturbed(q)'
    BY <1>1, <1>2, StreamStill DEF Undisturbed
  <2> QED BY <1>2, <2>1, <2>2, StreamStill DEF Reading, Uploading, Place, Start
<1>5. ASSUME NEW i \in Acks(q)' PROVE Earned(q, P, i)'
  <2>1. Earned(q, P, i)
    BY <1>5 DEF Follows
  <2> QED BY <1>1, <1>2, <2>1 DEF Earned, Uploading, Start
<1> QED BY <1>3, <1>4, <1>5 DEF Follows

(* What is left when the first cell of a FIFO is taken.                    *)
LEMMA TakeCell ==
  ASSUME Session, NEW q \in Qtrm, NEW A \in Int, NEW P, Coming(q, A, P), fifo[q] # <<>>
  PROVE  /\ P \in Int /\ Head(fifo[q]) \in StreamCells /\ Head(fifo[q]) = fifo[q][1]
         /\ Place(Head(fifo[q])) \in (P + 1)..A
         /\ Tail(fifo[q]) \in Seq(StreamCells)
         /\ Len(fifo[q]) \in Nat \ {0} /\ Len(Tail(fifo[q])) = Len(fifo[q]) - 1
         /\ \A j \in 1..Len(Tail(fifo[q])) :
              /\ Tail(fifo[q])[j] = fifo[q][j + 1] /\ j + 1 \in 1..Len(fifo[q])
              /\ Place(Tail(fifo[q])[j]) \in (Place(Head(fifo[q])) + 1)..A
         /\ \A j, k \in 1..Len(Tail(fifo[q])) :
              j < k => Place(Tail(fifo[q])[j]) < Place(Tail(fifo[q])[k])
         /\ P = -1 => Place(Head(fifo[q])) = 0 /\ A = 0 /\ Tail(fifo[q]) = <<>>
<1> DEFINE s == fifo[q]
<1>1. /\ s \in Seq(StreamCells) /\ s # <<>> /\ P \in -1..A
      /\ \A j \in 1..Len(s) : Place(s[j]) \in (P + 1)..A
      /\ \A j, k \in 1..Len(s) : j < k => Place(s[j]) < Place(s[k])
      /\ P = -1 => A = 0 /\ Len(s) = 1
  BY DEF Coming
<1> HIDE DEF s
<1>2. /\ Len(s) \in Nat \ {0} /\ Head(s) \in StreamCells /\ Head(s) = s[1]
      /\ Tail(s) \in Seq(StreamCells) /\ Len(Tail(s)) = Len(s) - 1
      /\ \A j \in 1..Len(Tail(s)) : Tail(s)[j] = s[j + 1]
  BY <1>1, HeadTailProperties, EmptySeq
<1>3. 1 \in 1..Len(s) /\ \A j \in 1..Len(Tail(s)) : j + 1 \in 1..Len(s) /\ 1 < j + 1
  BY <1>2
<1>4. Place(Head(s)) \in (P + 1)..A
  BY <1>1, <1>2, <1>3
<1>5. ASSUME NEW j \in 1..Len(Tail(s)) PROVE Place(Tail(s)[j]) \in (Place(Head(s)) + 1)..A
  <2>1. Place(s[1]) < Place(s[j + 1])
    BY <1>1, <1>3
  <2>2. Place(s[j + 1]) \in (P + 1)..A /\ Place(s[1]) \in (P + 1)..A
    BY <1>1, <1>3
  <2> QED BY <1>1, <1>2, <2>1, <2>2
<1>6. ASSUME NEW j \in 1..Len(Tail(s)), NEW k \in 1..Len(Tail(s)), j < k
      PROVE  Place(Tail(s)[j]) < Place(Tail(s)[k])
  <2>1. j + 1 \in 1..Len(s) /\ k + 1 \in 1..Len(s) /\ j + 1 < k + 1
    BY <1>3, <1>6
  <2> QED BY <1>1, <1>2, <2>1
<1>7. P = -1 => Place(Head(s)) = 0 /\ A = 0 /\ Tail(s) = <<>>
  <2> SUFFICES ASSUME P = -1 PROVE Place(Head(s)) = 0 /\ A = 0 /\ Tail(s) = <<>>
    OBVIOUS
  <2>1. A = 0 /\ Len(s) = 1
    BY <1>1
  <2>2. Len(Tail(s)) = 0
    BY <1>2, <2>1
  <2>3. Tail(s) = <<>>
    BY <1>2, <2>2, EmptySeq
  <2> QED BY <1>4, <2>1, <2>3
<1>8. /\ P \in Int /\ Head(fifo[q]) \in StreamCells /\ Head(fifo[q]) = fifo[q][1]
      /\ Tail(fifo[q]) \in Seq(StreamCells)
      /\ Len(fifo[q]) \in Nat \ {0} /\ Len(Tail(fifo[q])) = Len(fifo[q]) - 1
  <2>1. P \in Int
    BY <1>1
  <2> QED BY <1>2, <2>1 DEF s
<1>9. Place(Head(fifo[q])) \in (P + 1)..A
  BY <1>4 DEF s
<1>10. \A j \in 1..Len(Tail(fifo[q])) :
         /\ Tail(fifo[q])[j] = fifo[q][j + 1] /\ j + 1 \in 1..Len(fifo[q])
         /\ Place(Tail(fifo[q])[j]) \in (Place(Head(fifo[q])) + 1)..A
  <2>1. \A j \in 1..Len(Tail(s)) :
          /\ Tail(s)[j] = s[j + 1] /\ j + 1 \in 1..Len(s)
          /\ Place(Tail(s)[j]) \in (Place(Head(s)) + 1)..A
    BY <1>2, <1>3, <1>5
  <2> QED BY <2>1 DEF s
<1>11. \A j, k \in 1..Len(Tail(fifo[q])) :
         j < k => Place(Tail(fifo[q])[j]) < Place(Tail(fifo[q])[k])
  BY <1>6 DEF s
<1>12. P = -1 => Place(Head(fifo[q])) = 0 /\ A = 0 /\ Tail(fifo[q]) = <<>>
  BY <1>7 DEF s
<1> QED BY <1>8, <1>9, <1>10, <1>11, <1>12

(* A packet more to pass on.                                               *)
LEMMA SendAcks ==
  ASSUME NEW q \in Qtrm, UNCHANGED ackMatrix, reply[q] \in Seq(PacketType),
         NEW p \in PacketType, reply'[q] = Append(reply[q], p)
  PROVE  /\ reply'[q] \in Seq(PacketType)
         /\ \A i \in Acks(q)' : i \in Acks(q) \/ (p.kind = "ack" /\ i = p.arg)
<1> DEFINE r == reply[q]
<1>1. /\ Append(r, p) \in Seq(PacketType) /\ Len(Append(r, p)) = Len(r) + 1 /\ Len(r) \in Nat
      /\ \A k \in 1..Len(r) : Append(r, p)[k] = r[k]
      /\ Append(r, p)[Len(r) + 1] = p
  BY AppendProperties, LenProperties
<1> HIDE DEF r
<1>2. ASSUME NEW k \in 1..Len(Append(r, p)), Append(r, p)[k].kind = "ack"
      PROVE  \/ k \in 1..Len(r) /\ Append(r, p)[k] = r[k] /\ r[k].kind = "ack"
             \/ Append(r, p)[k] = p /\ p.kind = "ack"
  <2>1. k \in 1..Len(r) \/ k = Len(r) + 1
    BY <1>1
  <2> QED BY <1>1, <1>2, <2>1
<1>3. reply'[q] = Append(r, p) /\ reply[q] = r
  BY DEF r
<1>4. ASSUME NEW i \in Acks(q)' PROVE i \in Acks(q) \/ (p.kind = "ack" /\ i = p.arg)
  <2>1. CASE i \in {m \in 0..(MaxChunks - 1) : ackMatrix'[q][m] = "pass"}
    BY <2>1 DEF Acks
  <2>2. CASE \E k \in 1..Len(reply'[q]) : reply'[q][k].kind = "ack" /\ i = reply'[q][k].arg
    BY <1>2, <1>3, <2>2 DEF Acks
  <2> QED BY <1>4, <2>1, <2>2 DEF Acks
<1> QED BY <1>1, <1>3, <1>4

----------------------------------------------------------------------------
(* Commands.  On a line of this upload only the announce is one; chunks    *)
(* that come while nothing is received are passed over.                    *)

LEMMA IgnoreFollows ==
  ASSUME Uploading, UNCHANGED ackMatrix, NEW q \in Qtrm, NEW A \in Int, NEW P,
         Follows(q, A, P), misreads'[q] = misreads[q], NEW c, ignore(q, c)
  PROVE  Follows(q, A, P)'
<1>1. /\ mode[q] = "command" /\ fifo[q] # <<>> /\ c = Head(fifo[q]) /\ fifo'[q] = Tail(fifo[q])
      /\ c.kind \in {"other", "chunk"}
      /\ UNCHANGED <<mode, rx, flash, reply, lost>>
  BY ParseOne DEF ignore, Uploading
<1>2. Coming(q, A, P) /\ Session /\ ~Receiving(q) /\ ~Receiving(q)'
  BY <1>1 DEF Follows, Uploading, Receiving
<1>3. P # -1
  <2>1. c \in StreamCells /\ (P = -1 => Place(c) = 0)
    BY <1>1, <1>2, TakeCell
  <2>2. P = -1 => c = Cell("announce", uploads, chunkCount, 0)
    BY <1>2, <2>1, CellAt
  <2> QED BY <1>1, <2>2 DEF Cell
<1>4. Coming(q, A, P)'
  <2>1. PICK m : m = Place(Head(fifo[q]))
    OBVIOUS
  <2>2. P \in -1..A
    BY <1>2 DEF Coming
  <2>3. /\ m \in (P + 1)..A /\ P \in Int
        /\ fifo'[q] \in Seq(StreamCells')
        /\ \A j \in 1..Len(fifo'[q]) : Place(fifo'[q][j]) \in (m + 1)..A
        /\ \A j, k \in 1..Len(fifo'[q]) : j < k => Place(fifo'[q][j]) < Place(fifo'[q][k])
    BY <1>1, <1>2, <2>1, TakeCell, StreamStill
  <2>4. (m + 1)..A \subseteq (P + 1)..A
    BY <2>3
  <2>5. \A j \in 1..Len(fifo'[q]) : Place(fifo'[q][j]) \in (P + 1)..A
    BY <2>3, <2>4
  <2> QED BY <1>3, <2>2, <2>3, <2>5 DEF Coming
<1>5. Acks(q)' = Acks(q) /\ \A i : Holds(q, i)' <=> Holds(q, i)
  BY <1>1, HoldsStill DEF Acks
<1>6. ASSUME NEW i \in Acks(q)' PROVE Earned(q, P, i)'
  BY <1>1, <1>2, <1>5 DEF Earned, Follows, Uploading, Start
<1> QED BY <1>1, <1>2, <1>4, <1>6 DEF Follows

LEMMA AnnounceFollows ==
  ASSUME Uploading, UNCHANGED ackMatrix, NEW q \in Qtrm, NEW A \in Int, NEW P,
         Follows(q, A, P), misreads'[q] = misreads[q],
         NEW c, NEW g \in Flags, NEW n, NEW s, start_bit_stream(q, c, g, n, s)
  PROVE  A = 0 /\ Follows(q, A, 0)'
<1>1. /\ mode[q] = "command" /\ fifo[q] # <<>> /\ c = Head(fifo[q]) /\ fifo'[q] = Tail(fifo[q])
      /\ c.kind = IF g = 0 THEN "announce" ELSE "golden"
      /\ c.kind # "chunk" => n = c.arg /\ s = ChunkCells
      /\ UNCHANGED <<flash, reply>>
  BY ParseOne DEF start_bit_stream, Uploading
<1>2. Coming(q, A, P) /\ Session /\ Session'
  BY DEF Follows, Uploading
<1>3. c \in StreamCells /\ Place(c) \in (P + 1)..A /\ P \in Int
  BY <1>1, <1>2, TakeCell
<1>4. c = Cell("announce", uploads, chunkCount, 0) /\ Place(c) = 0
  BY <1>1, <1>2, <1>3, CellAt
<1>5. g = 0 /\ n = chunkCount /\ n # 0 /\ s = ChunkCells
  BY <1>1, <1>2, <1>4 DEF Cell, Session
<1>6. P = -1
  BY <1>2, <1>3, <1>4 DEF Coming
<1>7. A = 0 /\ fifo'[q] = <<>>
  BY <1>1, <1>2, <1>6, TakeCell
<1>8. /\ mode'[q] = "receive" /\ lost'[q] = FALSE
      /\ rx'[q] = [total |-> n, index |-> 0, golden |-> g, size |-> s, buf |-> <<>>]
  <2>1. \A f, v : IsFunction(f) => [f EXCEPT ![q] = v][q] = v
    BY SetOne
  <2>2. IsFunction(mode) /\ IsFunction(rx) /\ IsFunction(lost)
    BY DEF Uploading, Functions
  <2>3. /\ mode' = [mode EXCEPT ![q] = "receive"] /\ lost' = [lost EXCEPT ![q] = FALSE]
        /\ rx' = [rx EXCEPT ![q] = [total |-> n, index |-> 0, golden |-> g, size |-> s, buf |-> <<>>]]
    BY <1>5 DEF start_bit_stream
  <2> QED BY <2>1, <2>2, <2>3, Zenon
<1>9. Acks(q)' = Acks(q) /\ Acks(q) = {}
  <2>1. ASSUME NEW i \in Acks(q) PROVE FALSE
    <3>1. i \in Nat /\ Start(i + 1) <= -1
      BY <1>6 DEF Follows, Earned
    <3>2. Start(0) + ChunkCells <= Start(i + 1) /\ Start(i + 1) \in Int
      BY <3>1, StartAt, StartGrows
    <3> QED BY <3>1, <3>2, StartAt
  <2> QED BY <1>1, <2>1 DEF Acks
<1>10. Coming(q, 0, 0)'
  <2>1. <<>> \in Seq(StreamCells') /\ Len(<<>>) = 0
    OBVIOUS
  <2> QED BY <1>7, <2>1 DEF Coming
<1>11. Due(q)' = 0 /\ Taken(q)' = 0
  <2>1. Len(<<>>) = 0
    OBVIOUS
  <2> QED BY <1>8, <2>1, StartAt DEF Due, Taken
<1>12. Reading(q, 0, 0)'
  <2>1. <<>> \in Seq(StreamCells') /\ Len(<<>>) = 0 /\ ChunkCells > 0
    BY StartAt
  <2>2. chunkCount' = chunkCount /\ chunkCount \in Nat \ {0} /\ ChunkCells \in Nat
    BY StartAt DEF Uploading, Session
  <2>3. rx'[q] \in RxType'
    BY <1>5, <1>8, <2>1, <2>2 DEF RxType
  <2>4. Undisturbed(q)'
    BY <1>8, <1>11, <2>1 DEF Undisturbed
  <2>5. rx'[q].total = chunkCount' /\ rx'[q].golden = 0 /\ rx'[q].size = ChunkCells
        /\ Len(rx'[q].buf) = 0
    BY <1>5, <1>8, <2>1, <2>2
  <2>6. Len(fifo'[q]) = 0
    BY <1>7, <2>1
  <2> QED BY <1>8, <1>11, <2>1, <2>2, <2>3, <2>4, <2>5, <2>6 DEF Reading
<1> QED BY <1>1, <1>7, <1>8, <1>9, <1>10, <1>12 DEF Follows

(* Nothing else on the line is a command.                                  *)
LEMMA NoOtherCommand ==
  ASSUME Uploading, NEW q \in Qtrm, NEW A \in Int, NEW P,
         Follows(q, A, P), misreads'[q] = misreads[q],
         NEW c, NEW k, k \notin {"other", "announce", "chunk"}
  PROVE  ~Parse(q, c, k)
<1> SUFFICES ASSUME Parse(q, c, k) PROVE FALSE
  OBVIOUS
<1>1. fifo[q] # <<>> /\ c = Head(fifo[q]) /\ c.kind = k /\ Coming(q, A, P) /\ Session
  BY ParseOne DEF Uploading, Follows
<1>2. c \in StreamCells
  BY <1>1, TakeCell
<1>3. c.kind = "announce" \/ c.kind = "chunk"
  BY <1>1, <1>2, CellAt DEF Cell
<1> QED BY <1>1, <1>3

----------------------------------------------------------------------------
(* The reception. *)

LEMMA ReceiveFollows ==
  ASSUME Uploading, UNCHANGED ackMatrix, NEW q \in Qtrm, NEW A \in Int, NEW P,
         Follows(q, A, P), NEW c, receive(q, c)
  PROVE  Place(c) \in -1..A /\ Follows(q, A, Place(c))'
<1> DEFINE p == Place(c)
           buf == rx[q].buf
           filled == Append(buf, c)
<1>1. /\ mode[q] = "receive" /\ fifo[q] # <<>> /\ c = Head(fifo[q]) /\ fifo'[q] = Tail(fifo[q])
      /\ UNCHANGED <<flash, reply, lost>>
  BY GetOne DEF receive, Uploading
<1>2. Coming(q, A, P) /\ Session /\ Reading(q, A, P) /\ Receiving(q)
  BY <1>1 DEF Follows, Uploading, Receiving
<1>3. c \in StreamCells /\ p \in (P + 1)..A /\ P \in Int /\ P >= 0
  BY <1>1, <1>2, TakeCell DEF Reading
<1>4. /\ c.arg \in 0..(chunkCount - 1) /\ c.part \in 1..ChunkCells
      /\ c = ChunkCell(c.arg, c.part) /\ p = Start(c.arg) + c.part
  BY <1>2, <1>3, CellAt
<1>5. /\ rx[q] \in RxType /\ rx[q].size = ChunkCells /\ Due(q) = rx[q].index
      /\ Due(q) \in Nat /\ Len(buf) < ChunkCells /\ ChunkCells \in Nat
      /\ buf \in Seq(StreamCells) /\ Len(buf) \in Nat
  BY <1>1, <1>2, StartAt, LenProperties DEF Reading, RxType, Due
<1>6. /\ filled \in Seq(StreamCells) /\ Len(filled) = Len(buf) + 1
      /\ \A k \in 1..Len(buf) : filled[k] = buf[k]
      /\ filled[Len(buf) + 1] = c
  BY <1>3, <1>5, AppendProperties
<1>7. /\ \A f, v : IsFunction(f) => [f EXCEPT ![q] = v][q] = v
      /\ IsFunction(mode) /\ IsFunction(rx)
  BY SetOne DEF Uploading, Functions
<1> HIDE DEF filled, p
<1>8. /\ Receiving(q)' /\ mode'[q] \in {"receive", "write"}
      /\ rx'[q] \in RxType /\ rx'[q].total = rx[q].total /\ rx'[q].golden = rx[q].golden
      /\ rx'[q].size = rx[q].size /\ rx'[q].buf = filled
      /\ Due(q)' = Due(q)
      /\ IF mode'[q] = "write" THEN Len(filled) = ChunkCells ELSE Len(filled) < ChunkCells
  <2>1. CASE Len(filled) < rx[q].size
    <3>1. rx' = [rx EXCEPT ![q].buf = filled] /\ mode' = mode
      BY <2>1 DEF receive, filled
    <3>2. rx' = [rx EXCEPT ![q] = [rx[q] EXCEPT !.buf = filled]]
      BY <3>1
    <3>3. rx'[q] = [rx[q] EXCEPT !.buf = filled]
      BY <1>7, <3>2
    <3>4. /\ rx'[q] \in RxType /\ rx'[q].total = rx[q].total /\ rx'[q].golden = rx[q].golden
          /\ rx'[q].size = rx[q].size /\ rx'[q].buf = filled /\ rx'[q].index = rx[q].index
      BY <1>5, <1>6, <3>3 DEF RxType
    <3> QED BY <1>1, <1>5, <1>6, <2>1, <3>1, <3>4 DEF Receiving, Due
  <2>2. CASE ~(Len(filled) < rx[q].size)
    <3>1. /\ rx' = [rx EXCEPT ![q].buf = filled, ![q].index = @ + 1]
          /\ mode' = [mode EXCEPT ![q] = "write"]
      BY <2>2 DEF receive, filled
    <3>2. rx' = [rx EXCEPT ![q] = [rx[q] EXCEPT !.buf = filled, !.index = @ + 1]]
      BY <3>1
    <3>3. rx'[q] = [rx[q] EXCEPT !.buf = filled, !.index = @ + 1] /\ mode'[q] = "write"
      BY <1>7, <3>1, <3>2
    <3>4. Len(filled) = ChunkCells
      BY <1>5, <1>6, <2>2
    <3>5. /\ rx'[q] \in RxType /\ rx'[q].total = rx[q].total /\ rx'[q].golden = rx[q].golden
          /\ rx'[q].size = rx[q].size /\ rx'[q].buf = filled /\ rx'[q].index = rx[q].index + 1
      <4>1. rx[q] \in RxType /\ filled \in Seq(StreamCells)
        BY <1>5, <1>6
      <4>2. rx[q].index \in Nat /\ rx[q].index + 1 \in Nat
        BY <4>1 DEF RxType
      <4>3. rx'[q] = [rx[q] EXCEPT !.buf = filled, !.index = rx[q].index + 1]
        BY <3>3, <4>1 DEF RxType
      <4> QED BY <4>1, <4>2, <4>3 DEF RxType
    <3>6. rx[q].index \in Nat
      BY <1>5 DEF RxType
    <3>7. Due(q)' = Due(q)
      BY <1>5, <3>3, <3>5, <3>6 DEF Due
    <3> QED BY <3>3, <3>4, <3>5, <3>7 DEF Receiving
  <2> QED BY <2>1, <2>2
<1>9. \A i : Holds(q, i)' <=> Holds(q, i)
  BY <1>1, HoldsStill
<1>10. Start(Due(q)) \in Int /\ Taken(q)' = Taken(q) + 1 /\ Taken(q) \in Int /\ Taken(q)' <= p
  <2>1. Start(Due(q)) \in Int
    <3>1. Due(q) \in Int
      BY <1>5
    <3> QED BY <3>1, StartInt
  <2>2. Taken(q) = Start(Due(q)) + Len(buf) /\ Taken(q)' = Start(Due(q)) + Len(filled)
    BY <1>8 DEF Taken, Start
  <2>3. Taken(q) <= P
    BY <1>2 DEF Reading
  <2>4. Len(filled) = Len(buf) + 1 /\ Len(buf) \in Nat
    BY <1>5, <1>6
  <2>5. P \in Int /\ p \in Int /\ P + 1 <= p
    BY <1>3
  <2>6. Taken(q) \in Int /\ Taken(q)' = Taken(q) + 1
    <3>1. \A a, b \in Int : a + b \in Int /\ a + (b + 1) = (a + b) + 1
      OBVIOUS
    <3>2. Len(buf) \in Int /\ Taken(q)' = Start(Due(q)) + (Len(buf) + 1)
      BY <2>2, <2>4
    <3> HIDE DEF buf
    <3> QED BY ONLY <2>1, <2>2, <3>1, <3>2
  <2>7. Taken(q)' <= p
    BY <2>3, <2>5, <2>6
  <2> QED BY <2>1, <2>6, <2>7
<1>11. ASSUME Taken(q)' = p PROVE Undisturbed(q)'
  <2>1. Taken(q) = P /\ p = P + 1 /\ Undisturbed(q)
    <3>1. Taken(q) <= P
      BY <1>2 DEF Reading
    <3>2. Taken(q) = P /\ p = P + 1
      BY <1>3, <1>10, <1>11, <3>1
    <3> QED BY <1>2, <3>2 DEF Reading
  <2>2. Start(c.arg) + c.part = Start(Due(q)) + (Len(buf) + 1)
    BY <1>3, <1>4, <1>5, <1>10, <2>1 DEF Taken
  <2>3. c.arg = Due(q) /\ c.part = Len(buf) + 1
    <3>1. Len(buf) + 1 \in 1..ChunkCells
      BY <1>5
    <3>2. c.arg \in Int /\ Due(q) \in Int
      BY <1>4, <1>5
    <3>3. c.part \in 1..ChunkCells
      BY <1>4
    <3> HIDE DEF buf
    <3> QED BY ONLY <2>2, <3>1, <3>2, <3>3, PlaceUnique
  <2>4. ASSUME NEW k \in 1..Len(filled) PROVE filled[k] = ChunkCell(Due(q), k)
    <3>1. CASE k = Len(buf) + 1
      BY <1>4, <1>6, <2>3, <3>1
    <3>2. CASE k \in 1..Len(buf)
      BY <1>6, <2>1, <3>2 DEF Undisturbed
    <3>3. k = Len(buf) + 1 \/ k \in 1..Len(buf)
      <4>1. Len(filled) = Len(buf) + 1 /\ Len(buf) \in Nat
        BY <1>5, <1>6
      <4>2. \A n \in Nat : \A i \in 1..(n + 1) : i = n + 1 \/ i \in 1..n
        OBVIOUS
      <4>3. k \in 1..(Len(buf) + 1)
        BY <4>1
      <4> HIDE DEF buf
      <4> QED BY ONLY <4>1, <4>2, <4>3
    <3> QED BY <3>1, <3>2, <3>3
  <2>5. \A i \in 0..(Due(q) - 1) : Holds(q, i)'
    BY <1>9, <2>1 DEF Undisturbed
  <2> QED BY <1>8, <2>4, <2>5, StreamStill DEF Undisturbed
<1>12. Coming(q, A, p)'
  <2>1. /\ fifo'[q] \in Seq(StreamCells')
        /\ \A j \in 1..Len(fifo'[q]) : Place(fifo'[q][j]) \in (p + 1)..A
        /\ \A j, k \in 1..Len(fifo'[q]) : j < k => Place(fifo'[q][j]) < Place(fifo'[q][k])
    BY <1>1, <1>2, TakeCell, StreamStill DEF p
  <2>2. p \in -1..A /\ p # -1
    BY <1>3
  <2> QED BY <2>1, <2>2 DEF Coming
<1>13. ASSUME ~lost'[q]
       PROVE  /\ Taken(q)' = p /\ p + Len(fifo'[q]) = A
              /\ \A j \in 1..Len(fifo'[q]) : Place(fifo'[q][j]) = p + j
  <2>1. /\ Taken(q) = P /\ P + Len(fifo[q]) = A
        /\ \A j \in 1..Len(fifo[q]) : Place(fifo[q][j]) = P + j
    BY <1>1, <1>2, <1>13 DEF Reading
  <2>2. /\ Len(fifo[q]) \in Nat \ {0} /\ Len(fifo'[q]) = Len(fifo[q]) - 1 /\ c = fifo[q][1]
        /\ \A j \in 1..Len(fifo'[q]) : fifo'[q][j] = fifo[q][j + 1] /\ j + 1 \in 1..Len(fifo[q])
    BY <1>1, <1>2, TakeCell
  <2>3. p = P + 1
    BY <2>1, <2>2 DEF p
  <2>4. Taken(q)' = p /\ p + Len(fifo'[q]) = A
    <3>1. Len(fifo'[q]) = Len(fifo[q]) - 1 /\ Len(fifo[q]) \in Int /\ P + Len(fifo[q]) = A
      BY <2>1, <2>2
    <3>2. Taken(q)' = p
      BY <1>3, <1>10, <2>1, <2>3
    <3>3. p + Len(fifo'[q]) = A
      <4> DEFINE old == Len(fifo[q])
                 new == Len(fifo'[q])
      <4>1. P \in Int /\ old \in Int /\ P + old = A
        BY <1>3, <3>1
      <4>2. p = P + 1 /\ new = old - 1
        BY <2>3, <3>1
      <4> HIDE DEF old, new
      <4>3. p + new = A
        BY <4>1, <4>2
      <4> QED BY <4>3 DEF new
    <3> QED BY <3>2, <3>3
  <2>5. ASSUME NEW j \in 1..Len(fifo'[q]) PROVE Place(fifo'[q][j]) = p + j
    <3>1. fifo'[q][j] = fifo[q][j + 1] /\ Place(fifo[q][j + 1]) = P + (j + 1)
      BY <2>1, <2>2
    <3>2. j \in Int
      BY <2>2
    <3> QED BY <1>3, <2>3, <3>1, <3>2
  <2> QED BY <2>4, <2>5
<1>14. Reading(q, A, p)'
  <2>1. p >= 0
    BY <1>3
  <2>2. /\ rx[q].total = chunkCount /\ rx[q].golden = 0 /\ rx[q].size = ChunkCells
        /\ Due(q) \in 0..(chunkCount - 1)
    BY <1>2 DEF Reading
  <2>3. chunkCount' = chunkCount /\ RxType' = RxType
    BY StreamStill DEF Uploading
  <2> QED BY <1>8, <1>10, <1>11, <1>13, <2>1, <2>2, <2>3 DEF Reading
<1>15. ASSUME NEW i \in Acks(q)' PROVE Earned(q, p, i)'
  <2>1. Earned(q, P, i)
    BY <1>1, <1>15 DEF Acks, Follows
  <2>2. i \in Int /\ Start(i + 1) \in Int /\ Start(i + 1) <= p
    BY <1>3, <2>1, StartAt DEF Earned, Session
  <2> QED BY <1>1, <1>2, <1>8, <1>9, <2>1, <2>2 DEF Earned, Uploading, Start
<1>16. reply'[q] \in Seq(PacketType) /\ mode'[q] \in {"command", "fabric", "receive", "write"}
  BY <1>1, <1>8 DEF Follows
<1>17. p \in -1..A
  BY <1>3
<1>18. Follows(q, A, p)'
  BY <1>12, <1>14, <1>15, <1>16 DEF Follows
<1> QED BY <1>17, <1>18 DEF p, Place, Start

(* A chunk is in its block and acknowledged.  The stream does not go past  *)
(* the chunk in flight, so whoever acknowledges the last one took all.     *)
LEMMA WriteFollows ==
  ASSUME Uploading, UNCHANGED ackMatrix, NEW q \in Qtrm, NEW A \in Int, NEW P,
         Follows(q, A, P), A <= Start(chunkCount), write_to_spi(q)
  PROVE  Follows(q, A, P)'
<1>0. PICK n : n = Due(q)
  OBVIOUS
<1> DEFINE b == image_base(0) + n
<1>1. mode[q] = "write" /\ Receiving(q) /\ Session /\ Coming(q, A, P) /\ Reading(q, A, P)
  BY DEF write_to_spi, Receiving, Follows, Uploading
<1>2. /\ n = rx[q].index - 1 /\ rx[q].index \in Nat /\ n \in 0..(chunkCount - 1)
      /\ rx[q] \in RxType /\ rx[q].total = chunkCount /\ rx[q].golden = 0
      /\ P \in Int /\ P <= A /\ P >= 0
  BY <1>0, <1>1 DEF Reading, RxType, Due, Coming
<1>3. /\ chunkCount \in 1..MaxChunks /\ MaxTotal = MaxChunks /\ MaxChunks \in Nat
      /\ GoldenBlocks \in Nat /\ image_base(0) = GoldenBlocks
  BY <1>1, ProgrammingAssumption, ConstantsAssumption, BootAssumption DEF Session, image_base
<1>4. b \in Blocks /\ \A i \in 0..(chunkCount - 1) : image_base(0) + i \in Blocks
  <2>1. \A i \in 0..(chunkCount - 1) : GoldenBlocks + i \in 0..(GoldenBlocks + MaxTotal - 1)
    BY <1>3
  <2> QED BY <1>2, <1>3, <2>1 DEF Blocks
<1>5. /\ UNCHANGED <<fifo, line, directory, lost, misreads, resets>>
      /\ Send(q, Packet("ack", AckNumber(q)))
      /\ flash' = [flash EXCEPT ![q][BlockOf(q)] = rx[q].buf]
      /\ IF rx[q].index = rx[q].total
         THEN Leave(q)
         ELSE /\ mode' = [mode EXCEPT ![q] = "receive"]
              /\ rx' = [rx EXCEPT ![q].buf = <<>>]
  BY DEF write_to_spi
<1>6. BlockOf(q) = b /\ AckNumber(q) = n
  BY <1>2, <1>3 DEF BlockOf, AckNumber
<1>7. flash'[q][b] = rx[q].buf /\ \A k \in Blocks \ {b} : flash'[q][k] = flash[q][k]
  <2>1. flash' = [flash EXCEPT ![q][b] = rx[q].buf]
    BY <1>5, <1>6
  <2>2. flash = [r \in Qtrm |-> flash[r]] /\ flash[q] = [k \in Blocks |-> flash[q][k]]
    BY DEF Uploading, Functions, IsFunction
  <2>3. flash'[q] = [flash[q] EXCEPT ![b] = rx[q].buf]
    BY <2>1, <2>2
  <2> HIDE DEF b
  <2> QED BY <1>4, <2>2, <2>3
<1>8. ASSUME NEW i \in 0..(chunkCount - 1), i # n PROVE Holds(q, i)' <=> Holds(q, i)
  <2>1. image_base(0) + i \in Blocks /\ image_base(0) + i # b
    <3>1. GoldenBlocks \in Int /\ i \in Int /\ n \in Int
      BY <1>2, <1>3
    <3>2. GoldenBlocks + i # GoldenBlocks + n
      BY <1>8, <3>1
    <3> QED BY <1>3, <1>4, <3>2
  <2>2. flash'[q][image_base(0) + i] = flash[q][image_base(0) + i]
    BY <1>7, <2>1
  <2> QED BY <2>2, HoldsStill
<1>9. Start(n) \in Int /\ Start(n + 1) = Start(n) + ChunkCells /\ ChunkCells \in Nat
  BY <1>2, StartInt, StartNext, StartAt
<1>10. Taken(q) = Start(n + 1) /\ Len(rx[q].buf) = ChunkCells /\ Taken(q) <= P
  <2>1. Len(rx[q].buf) = ChunkCells /\ Taken(q) <= P
    BY <1>1 DEF Reading
  <2> QED BY <1>0, <1>9, <2>1 DEF Taken
<1>11. ASSUME Taken(q) = P PROVE \A i \in 0..n : Holds(q, i)'
  <2>1. Undisturbed(q)
    BY <1>1, <1>11 DEF Reading
  <2>2. rx[q].buf \in Seq(StreamCells) /\ \A k \in 1..ChunkCells : rx[q].buf[k] = ChunkCell(n, k)
    BY <1>0, <1>2, <1>10, <2>1 DEF Undisturbed, RxType
  <2>3. rx[q].buf = [k \in 1..ChunkCells |-> ChunkCell(n, k)]
    <3>1. rx[q].buf \in [1..ChunkCells -> StreamCells]
      BY <1>10, <2>2, LenProperties
    <3> QED BY <2>2, <3>1
  <2>4. rx[q].buf = ChunkOf(uploads, n)
    BY <2>3 DEF ChunkOf, ChunkCell
  <2>5. Holds(q, n)'
    <3>1. flash'[q][b] = rx[q].buf
      BY <1>4, <1>7
    <3> QED BY <2>4, <3>1, StreamStill DEF Holds, Uploading, image_base
  <2>6. \A i \in 0..(n - 1) : Holds(q, i)'
    <3> TAKE i \in 0..(n - 1)
    <3>1. i \in 0..(chunkCount - 1) /\ i # n
      BY <1>2, <1>3
    <3> QED BY <1>0, <1>8, <2>1, <3>1 DEF Undisturbed
  <2>7. \A i \in 0..n : i \in 0..(n - 1) \/ i = n
    BY <1>2
  <2> QED BY <2>5, <2>6, <2>7
<1>12. n = chunkCount - 1 => Taken(q) = P
  <2>1. SUFFICES ASSUME n = chunkCount - 1 PROVE Taken(q) = P
    OBVIOUS
  <2>2. n + 1 = chunkCount
    BY <1>2, <1>3, <2>1
  <2>3. A <= Start(n + 1) /\ A \in Int
    BY <1>2, <2>2
  <2> QED BY ONLY <1>2, <1>9, <1>10, <2>3
<1>13. ~lost[q] => Taken(q) = P
  BY <1>1 DEF Reading
<1>14. /\ reply'[q] \in Seq(PacketType)
       /\ \A i \in Acks(q)' : i \in Acks(q) \/ i = n
  <2>1. Packet("ack", n) \in PacketType /\ Packet("ack", n).arg = n
    BY <1>2 DEF Packet, PacketType
  <2>2. reply'[q] = Append(reply[q], Packet("ack", n)) /\ reply[q] \in Seq(PacketType)
    BY <1>5, <1>6, SendOne DEF Uploading, Follows
  <2> QED BY <2>1, <2>2, SendAcks
<1> HIDE DEF b
<1>15. ASSUME NEW i \in Acks(q)'
       PROVE  /\ i \in 0..(chunkCount - 1) /\ Start(i + 1) <= P /\ i < n + 1
              /\ i = chunkCount - 1 => i = n /\ \A j \in 0..i : Holds(q, j)'
              /\ ~lost[q] => Holds(q, i)'
  <2>1. CASE i = n
    BY <1>2, <1>10, <1>11, <1>12, <1>13, <2>1
  <2>2. CASE i \in Acks(q) /\ i # n
    <3>1. Earned(q, P, i) /\ Receiving(q)
      BY <1>1, <2>2 DEF Follows
    <3>2. i \in 0..(chunkCount - 1) /\ Start(i + 1) <= P /\ i < n /\ (~lost[q] => Holds(q, i))
      BY <1>0, <3>1 DEF Earned
    <3>3. i # chunkCount - 1
      BY <1>2, <1>3, <3>2
    <3> QED BY <1>2, <1>8, <3>2, <3>3
  <2> QED BY <1>14, <1>15, <2>1, <2>2
<1>16. /\ \A f, v : IsFunction(f) => [f EXCEPT ![q] = v][q] = v
       /\ IsFunction(mode) /\ IsFunction(rx)
  BY SetOne DEF Uploading, Functions
<1>17. fifo' = fifo /\ lost' = lost /\ chunkCount' = chunkCount /\ Session'
  BY <1>5 DEF Uploading
<1>18. Coming(q, A, P)'
  <2>1. P # -1
    BY <1>2
  <2> QED BY <1>1, <1>17, <2>1, StreamStill DEF Coming
<1>19. CASE rx[q].index = rx[q].total
  <2>1. mode'[q] = "command"
    BY <1>2, <1>5, <1>19, LeaveOne DEF Uploading, After
  <2>2. \A i \in Acks(q)' : Earned(q, P, i)'
    BY <1>15, <1>17, <2>1 DEF Earned, Receiving, Start
  <2> QED BY <1>14, <1>18, <2>1, <2>2 DEF Follows, Receiving
<1>20. CASE rx[q].index # rx[q].total
  <2>1. mode'[q] = "receive" /\ rx'[q] = [rx[q] EXCEPT !.buf = <<>>]
    <3>1. rx' = [rx EXCEPT ![q] = [rx[q] EXCEPT !.buf = <<>>]] /\ mode' = [mode EXCEPT ![q] = "receive"]
      BY <1>5, <1>20
    <3> QED BY <1>16, <3>1
  <2>2. <<>> \in Seq(StreamCells) /\ Len(<<>>) = 0
    OBVIOUS
  <2>3. /\ rx'[q] \in RxType /\ rx'[q].total = rx[q].total /\ rx'[q].golden = 0
        /\ rx'[q].size = rx[q].size /\ rx'[q].buf = <<>> /\ rx'[q].index = rx[q].index
    BY <1>2, <2>1, <2>2 DEF RxType
  <2>4. Due(q)' = n + 1 /\ n + 1 \in 0..(chunkCount - 1)
    BY <1>2, <1>3, <1>20, <2>1, <2>3 DEF Due
  <2>5. Taken(q)' = Taken(q)
    <3>1. Start(n + 1) \in Int
      BY <1>2, StartInt
    <3> QED BY <1>10, <2>2, <2>3, <2>4, <3>1 DEF Taken, Start
  <2>6. Taken(q) = P => Undisturbed(q)'
    <3>1. Due(q)' - 1 = n /\ Len(rx'[q].buf) = 0
      BY <1>2, <2>2, <2>3, <2>4
    <3> QED BY <1>11, <3>1 DEF Undisturbed
  <2>7. Reading(q, A, P)'
    <3>1. ChunkCells > 0
      BY StartAt
    <3>2. rx[q].size = ChunkCells
      BY <1>1 DEF Reading
    <3>3. ~lost[q] => /\ P + Len(fifo[q]) = A
                      /\ \A j \in 1..Len(fifo[q]) : Place(fifo[q][j]) = P + j
      BY <1>1, Zenon DEF Reading
    <3> QED BY <1>2, <1>10, <1>13, <1>17, <2>1, <2>2, <2>3, <2>4, <2>5, <2>6, <3>1, <3>2, <3>3, StreamStill
         DEF Reading
  <2>8. \A i \in Acks(q)' : Earned(q, P, i)'
    <3> TAKE i \in Acks(q)'
    <3>1. i < Due(q)'
      BY <1>15, <2>4
    <3> QED BY <1>15, <1>17, <3>1 DEF Earned, Start
  <2> QED BY <1>14, <1>18, <2>1, <2>7, <2>8 DEF Follows
<1> QED BY <1>19, <1>20

(* A bootloader that gives up, is reset or gets its pins back holds on to  *)
(* what it has acknowledged.                                               *)
LEMMA StoppedFollows ==
  ASSUME Uploading, UNCHANGED ackMatrix, NEW q \in Qtrm, NEW A \in Int, NEW P,
         Follows(q, A, P), mode'[q] \in {"command", "fabric"},
         (fifo'[q] = fifo[q] /\ mode[q] # "command") \/ fifo'[q] = <<>>,
         reply'[q] = reply[q] \/ \E p \in PacketType : p.kind # "ack" /\ reply'[q] = Append(reply[q], p),
         \A i \in 0..(chunkCount - 1) : ~lost'[q] => ~lost[q] /\ (Holds(q, i) => Holds(q, i)'),
         ~Receiving(q) => flash'[q] = flash[q]
  PROVE  Follows(q, A, P)'
<1>1. Coming(q, A, P) /\ ~Receiving(q)' /\ mode'[q] \in {"command", "fabric", "receive", "write"}
      /\ reply[q] \in Seq(PacketType) /\ chunkCount' = chunkCount
  BY DEF Follows, Receiving, Uploading
<1>2. reply'[q] \in Seq(PacketType) /\ Acks(q)' \subseteq Acks(q)
  <2>1. CASE reply'[q] = reply[q]
    BY <1>1, <2>1 DEF Acks
  <2>2. CASE \E p \in PacketType : p.kind # "ack" /\ reply'[q] = Append(reply[q], p)
    BY <1>1, <2>2, SendAcks
  <2> QED BY <2>1, <2>2
<1>3. Coming(q, A, P)'
  <2>1. CASE fifo'[q] = <<>>
    <3>1. <<>> \in Seq(StreamCells') /\ Len(<<>>) = 0
      OBVIOUS
    <3> QED BY <1>1, <2>1, <3>1 DEF Coming
  <2>2. CASE fifo'[q] = fifo[q] /\ mode[q] # "command"
    BY <1>1, <2>2, StreamStill DEF Coming
  <2>3. QED BY <2>1, <2>2
<1>4. ASSUME NEW i \in Acks(q)' PROVE Earned(q, P, i)'
  <2>1. Earned(q, P, i)
    BY <1>2, <1>4 DEF Follows
  <2>2. i = chunkCount - 1 => ~Receiving(q)
    <3>1. Receiving(q) => i < Due(q) /\ Due(q) \in 0..(chunkCount - 1)
      BY <2>1 DEF Earned, Follows, Reading
    <3>2. i \in Int /\ chunkCount \in Int
      BY <2>1 DEF Earned, Uploading, Session
    <3> QED BY <3>1, <3>2
  <2>3. i = chunkCount - 1 => \A j \in 0..i : Holds(q, j)'
    <3> SUFFICES ASSUME i = chunkCount - 1 PROVE \A j \in 0..i : Holds(q, j)'
      OBVIOUS
    <3>1. flash'[q] = flash[q]
      BY <2>2
    <3>2. \A j : Holds(q, j)' <=> Holds(q, j)
      BY <3>1, HoldsStill
    <3> QED BY <2>1, <3>2 DEF Earned
  <2>4. ~lost'[q] => Holds(q, i)'
    BY <2>1 DEF Earned
  <2>5. i \in 0..(chunkCount - 1) /\ Start(i + 1) <= P
    BY <2>1 DEF Earned
  <2> QED BY <1>1, <2>3, <2>4, <2>5 DEF Earned, Start
<1> QED BY <1>1, <1>2, <1>3, <1>4 DEF Follows

LEMMA TimeoutFollows ==
  ASSUME Uploading, UNCHANGED ackMatrix, NEW q \in Qtrm, NEW A \in Int, NEW P,
         Follows(q, A, P), receive_timeout(q)
  PROVE  Follows(q, A, P)'
<1>1. /\ mode[q] = "receive" /\ Receiving(q) /\ Reading(q, A, P) /\ Functions
      /\ Leave(q) /\ Send(q, Packet("error", 0))
      /\ UNCHANGED <<fifo, flash, lost>>
  BY DEF receive_timeout, Receiving, Follows, Uploading
<1>2. mode'[q] = "command"
  BY <1>1, LeaveOne DEF Reading, After
<1>3. Packet("error", 0) \in PacketType /\ Packet("error", 0).kind # "ack"
  BY DEF Packet, PacketType
<1>4. reply'[q] = Append(reply[q], Packet("error", 0))
  BY <1>1, SendOne
<1>5. \A i : Holds(q, i)' <=> Holds(q, i)
  BY <1>1, HoldsStill
<1> QED BY <1>1, <1>2, <1>3, <1>4, <1>5, StoppedFollows

LEMMA MainFollows ==
  ASSUME Uploading, UNCHANGED ackMatrix, NEW q \in Qtrm, NEW A \in Int, NEW P,
         Follows(q, A, P), main(q)
  PROVE  Follows(q, A, P)'
<1>1. /\ mode' = [mode EXCEPT ![q] = "fabric"] /\ fifo' = [fifo EXCEPT ![q] = <<>>]
      /\ lost' = [lost EXCEPT ![q] = TRUE] /\ Send(q, Packet("link_check", 0))
      /\ flash' = flash \/ mode[q] = "write"
  BY DEF main
<1>2. Functions /\ IsFunction(mode) /\ IsFunction(fifo) /\ IsFunction(lost)
  BY DEF Uploading, Functions
<1>3. mode'[q] = "fabric" /\ fifo'[q] = <<>> /\ lost'[q] = TRUE
  <2>1. \A f, v : IsFunction(f) => [f EXCEPT ![q] = v][q] = v
    BY SetOne
  <2> QED BY <1>1, <1>2, <2>1
<1>4. Packet("link_check", 0) \in PacketType /\ Packet("link_check", 0).kind # "ack"
  BY DEF Packet, PacketType
<1>5. reply'[q] = Append(reply[q], Packet("link_check", 0))
  BY <1>1, <1>2, SendOne
<1>6. ~Receiving(q) => flash'[q] = flash[q]
  BY <1>1 DEF Receiving
<1> QED BY <1>3, <1>4, <1>5, <1>6, StoppedFollows

(* Whatever one bootloader does, it goes on following the stream.          *)
LEMMA StepFollows ==
  ASSUME Uploading, UNCHANGED ackMatrix, NEW q \in Qtrm, NEW A \in Int, NEW P,
         Follows(q, A, P), A <= Start(chunkCount), misreads'[q] = misreads[q],
         Command(q) \/ Reception(q) \/ Elsewhere(q)
  PROVE  \E R \in -1..A : Follows(q, A, R)'
<1>1. P \in -1..A /\ mode[q] \in {"command", "fabric", "receive", "write"}
  BY DEF Follows, Coming
<1>2. CASE Command(q)
  <2>1. CASE no_request(q)
    <3>1. Acks(q)' = Acks(q)
      BY <2>1 DEF no_request, bootVars, Acks
    <3>2. reply'[q] \in Seq(PacketType)
      BY <2>1 DEF no_request, bootVars, Follows
    <3> QED BY <1>1, <2>1, <3>1, <3>2, FollowsStill DEF no_request, bootVars
  <2>2. ASSUME NEW c \in Heads(q), NEW k \in AnswerKinds, answer(q, c, k) PROVE FALSE
    <3>1. Parse(q, c, k) /\ k \notin {"other", "announce", "chunk"}
      BY <2>2 DEF answer, AnswerKinds
    <3> QED BY <3>1, NoOtherCommand
  <2>3. ASSUME NEW c \in Heads(q), ignore(q, c) PROVE Follows(q, A, P)'
    BY <2>3, IgnoreFollows
  <2>4. ASSUME NEW c \in Heads(q), NEW g \in Flags, NEW n \in 0..MaxTotal,
               NEW s \in 1..ChunkCells, start_bit_stream(q, c, g, n, s)
        PROVE  A = 0 /\ Follows(q, A, 0)'
    BY <2>4, AnnounceFollows
  <2>5. ASSUME NEW c \in Heads(q), mode_change_mss_to_fab(q, c) PROVE FALSE
    <3>1. Parse(q, c, "mode_change")
      BY <2>5 DEF mode_change_mss_to_fab
    <3> QED BY <3>1, NoOtherCommand
  <2>6. ASSUME NEW c \in Heads(q), NEW m \in IapModes, iap(q, c, m) PROVE FALSE
    <3>1. Parse(q, c, m) /\ m \notin {"other", "announce", "chunk"}
      BY <2>6 DEF iap, IapModes
    <3> QED BY <3>1, NoOtherCommand
  <2> QED BY <1>1, <1>2, <2>1, <2>2, <2>3, <2>4, <2>5, <2>6 DEF Command
<1>3. CASE Reception(q)
  <2>1. ASSUME NEW c \in Heads(q), receive(q, c) PROVE Place(c) \in -1..A /\ Follows(q, A, Place(c))'
    BY <2>1, ReceiveFollows
  <2>2. CASE write_to_spi(q)
    BY <1>1, <2>2, WriteFollows
  <2>3. CASE receive_timeout(q)
    BY <1>1, <2>3, TimeoutFollows
  <2>4. ~update_spi_dir(q)
    BY <1>1 DEF update_spi_dir
  <2> QED BY <1>3, <2>1, <2>2, <2>3, <2>4 DEF Reception
<1>4. CASE Elsewhere(q)
  <2>1. CASE mode_change_flag(q)
    <3>1. mode[q] = "fabric" /\ mode' = [mode EXCEPT ![q] = "command"] /\ UNCHANGED <<fifo, flash, reply, lost>>
      BY <2>1 DEF mode_change_flag
    <3>2. mode'[q] = "command"
      <4>1. IsFunction(mode)
        BY DEF Uploading, Functions
      <4> QED BY <3>1, <4>1, SetOne
    <3>3. \A i : Holds(q, i)' <=> Holds(q, i)
      BY <3>1, HoldsStill
    <3> QED BY <1>1, <3>1, <3>2, <3>3, StoppedFollows
  <2>2. CASE main(q)
    BY <1>1, <2>2, MainFollows
  <2>3. /\ ~iap_result(q) /\ ~spin(q)
        /\ \A code6 \in BOOLEAN : ~iap_program_result(q, code6)
    BY <1>1 DEF iap_result, iap_program_result, spin
  <2> QED BY <1>4, <2>1, <2>2, <2>3 DEF Elsewhere
<1> QED BY <1>2, <1>3, <1>4

----------------------------------------------------------------------------
(* The next cell of the stream reaches every bootloader that can hear it.  *)

LEMMA LineArrive ==
  ASSUME Uploading, UNCHANGED current, NEW L \in Int, OnLine(L), Arrive
  PROVE  /\ OnLine(L)' /\ Left(L) \in Int /\ Left(L)' = Left(L) + 1
         /\ Head(line) \in StreamCells /\ Place(Head(line)) = Left(L) + 1
<1>1. /\ line \in Seq(StreamCells) /\ line # <<>> /\ line' = Tail(line)
      /\ Left(L) \in -1..L /\ L \in -1..Start(current + 1)
      /\ \A j \in 1..Len(line) : Place(line[j]) = Left(L) + j
  BY DEF OnLine, Arrive
<1>2. /\ Len(line) \in Nat \ {0} /\ Head(line) \in StreamCells /\ Head(line) = line[1]
      /\ line' \in Seq(StreamCells) /\ Len(line') = Len(line) - 1
      /\ \A j \in 1..Len(line') : line'[j] = line[j + 1]
  BY <1>1, HeadTailProperties, EmptySeq
<1> DEFINE old == Len(line)
           new == Len(line')
<1>3. old \in Int /\ new = old - 1 /\ old >= 1 /\ new >= 0
  BY <1>2
<1>4. Left(L) = L - old /\ Left(L)' = L - new
  BY DEF Left
<1> HIDE DEF old, new
<1>5. Left(L) \in Int /\ Left(L)' = Left(L) + 1 /\ Left(L)' \in -1..L
  BY <1>1, <1>3, <1>4
<1>6. Place(Head(line)) = Left(L) + 1
  BY <1>1, <1>2
<1>7. ASSUME NEW j \in 1..new PROVE Place(line'[j]) = Left(L)' + j
  <2>1. j + 1 \in 1..old /\ j \in Int
    BY <1>3
  <2>2. Place(line'[j]) = Left(L) + (j + 1)
    BY <1>1, <1>2, <2>1 DEF old, new
  <2> QED BY <1>5, <2>1, <2>2
<1>8. OnLine(L)'
  <2>1. Start(current + 1)' = Start(current + 1)
    BY DEF Start
  <2> QED BY <1>1, <1>2, <1>5, <1>7, <2>1, StreamStill DEF OnLine, new
<1> QED BY <1>2, <1>5, <1>6, <1>8

(* The FIFO of a bootloader when the cell at place A + 1 arrives.          *)
LEMMA FifoArrive ==
  ASSUME Uploading, NEW q \in Qtrm, NEW A \in Int, NEW P \in Int, P <= A,
         fifo[q] \in Seq(StreamCells),
         \A j \in 1..Len(fifo[q]) : Place(fifo[q][j]) \in (P + 1)..A,
         \A j, k \in 1..Len(fifo[q]) : j < k => Place(fifo[q][j]) < Place(fifo[q][k]),
         NEW c \in StreamCells, Place(c) = A + 1,
         fifo'[q] = Append(fifo[q], c) \/ fifo'[q] = fifo[q]
  PROVE  /\ fifo'[q] \in Seq(StreamCells')
         /\ \A j \in 1..Len(fifo'[q]) : Place(fifo'[q][j]) \in (P + 1)..(A + 1)
         /\ \A j, k \in 1..Len(fifo'[q]) : j < k => Place(fifo'[q][j]) < Place(fifo'[q][k])
<1>1. CASE fifo'[q] = fifo[q]
  <2>1. \A x \in (P + 1)..A : x \in (P + 1)..(A + 1)
    OBVIOUS
  <2> QED BY <1>1, <2>1, StreamStill
<1>2. CASE fifo'[q] = Append(fifo[q], c)
  <2> DEFINE s == fifo[q]
             t == fifo'[q]
  <2>1. /\ t \in Seq(StreamCells) /\ Len(t) = Len(s) + 1 /\ Len(s) \in Nat
        /\ \A j \in 1..Len(s) : t[j] = s[j] /\ Place(s[j]) \in (P + 1)..A
        /\ t[Len(s) + 1] = c
        /\ \A j, k \in 1..Len(s) : j < k => Place(s[j]) < Place(s[k])
    BY <1>2, AppendProperties, LenProperties
  <2> HIDE DEF s, t
  <2>2. \A j \in 1..Len(t) : j \in 1..Len(s) \/ j = Len(s) + 1
    BY <2>1
  <2>3. ASSUME NEW j \in 1..Len(t) PROVE Place(t[j]) \in (P + 1)..(A + 1)
    BY <2>1, <2>2
  <2>4. ASSUME NEW j \in 1..Len(t), NEW k \in 1..Len(t), j < k PROVE Place(t[j]) < Place(t[k])
    <3>1. j \in 1..Len(s)
      BY <2>1, <2>2, <2>4
    <3>2. CASE k \in 1..Len(s)
      BY <2>1, <2>4, <3>1, <3>2
    <3>3. CASE k = Len(s) + 1
      BY <2>1, <3>1, <3>3
    <3> QED BY <2>2, <3>2, <3>3
  <2> QED BY <2>1, <2>3, <2>4, StreamStill DEF t
<1> QED BY <1>1, <1>2

LEMMA ArriveFollows ==
  ASSUME Uploading, UNCHANGED ackMatrix, NEW q \in Qtrm, NEW A \in Int, NEW P,
         Follows(q, A, P), Arrive,
         Head(line) \in StreamCells, Place(Head(line)) = A + 1
  PROVE  \E R \in -1..(A + 1) : Follows(q, A + 1, R)'
<1> DEFINE c == Head(line)
           R == IF P = -1 /\ A >= 0 THEN A ELSE P
<1>1. /\ mode[q] \in Polling => fifo[q] = <<>>
      /\ fifo'[q] = IF Hears(q) THEN Append(fifo[q], c) ELSE fifo[q]
      /\ lost'[q] <=> lost[q] \/ ~Hears(q)
      /\ UNCHANGED <<mode, rx, flash, reply>>
  BY DEF Arrive
<1>2. /\ Coming(q, A, P) /\ P \in Int /\ P <= A /\ P >= -1
      /\ mode[q] \in {"command", "fabric", "receive", "write"}
  BY DEF Follows, Coming
<1>3. R \in -1..(A + 1) /\ P <= R /\ R <= A /\ R \in Int
  BY <1>2
<1>4. P = -1 => fifo[q] = <<>> /\ mode[q] \in {"command", "fabric"} /\ ~Receiving(q)
  <2>1. P = -1 => ~Receiving(q)
    BY DEF Follows, Reading
  <2>2. P = -1 /\ fifo[q] # <<>> => mode[q] = "command"
    BY <1>2 DEF Coming
  <2> QED BY <1>1, <1>2, <2>1, <2>2 DEF Polling, Receiving
<1>5. /\ \A j \in 1..Len(fifo[q]) : Place(fifo[q][j]) \in (R + 1)..A
      /\ fifo[q] \in Seq(StreamCells)
      /\ \A j, k \in 1..Len(fifo[q]) : j < k => Place(fifo[q][j]) < Place(fifo[q][k])
  <2>1. CASE P = -1
    <3>1. Len(<<>>) = 0 /\ <<>> \in Seq(StreamCells)
      OBVIOUS
    <3>2. fifo[q] = <<>>
      BY <1>4, <2>1
    <3> HIDE DEF R
    <3> QED BY <3>1, <3>2
  <2>2. CASE P # -1
    <3>1. R = P
      BY <2>2
    <3> HIDE DEF R
    <3> QED BY <1>2, <3>1 DEF Coming
  <2> QED BY <2>1, <2>2
<1> HIDE DEF R
<1>6. /\ fifo'[q] \in Seq(StreamCells')
      /\ \A j \in 1..Len(fifo'[q]) : Place(fifo'[q][j]) \in (R + 1)..(A + 1)
      /\ \A j, k \in 1..Len(fifo'[q]) : j < k => Place(fifo'[q][j]) < Place(fifo'[q][k])
  BY <1>1, <1>3, <1>5, FifoArrive
<1>7. R = -1 /\ fifo'[q] # <<>> => mode'[q] = "command" /\ A + 1 = 0 /\ Len(fifo'[q]) = 1
  <2> SUFFICES ASSUME R = -1, fifo'[q] # <<>>
               PROVE  mode'[q] = "command" /\ A + 1 = 0 /\ Len(fifo'[q]) = 1
    OBVIOUS
  <2>1. P = -1 /\ A = -1
    BY <1>2, <1>3 DEF R
  <2>2. fifo[q] = <<>> /\ Hears(q)
    BY <1>1, <1>4, <2>1
  <2>3. Len(Append(<<>>, c)) = 1
    OBVIOUS
  <2> QED BY <1>1, <1>4, <2>1, <2>2, <2>3 DEF Hears
<1>8. Coming(q, A + 1, R)'
  BY <1>3, <1>6, <1>7 DEF Coming
<1>9. Due(q)' = Due(q) /\ Taken(q)' = Taken(q) /\ (Receiving(q)' <=> Receiving(q))
  BY <1>1 DEF Due, Taken, Receiving, Start
<1>10. \A i : Holds(q, i)' <=> Holds(q, i)
  BY <1>1, HoldsStill
<1>11. ASSUME Receiving(q)' PROVE Reading(q, A + 1, R)'
  <2>1. Reading(q, A, P) /\ P # -1
    BY <1>4, <1>9, <1>11 DEF Follows
  <2>2. R = P
    BY <2>1 DEF R
  <2>3. Undisturbed(q) => Undisturbed(q)'
    BY <1>1, <1>9, <1>10, StreamStill DEF Undisturbed
  <2>4. ASSUME ~lost'[q]
        PROVE  /\ Taken(q) = P /\ P + Len(fifo'[q]) = A + 1
               /\ \A j \in 1..Len(fifo'[q]) : Place(fifo'[q][j]) = P + j
    <3> DEFINE s == fifo[q]
               t == fifo'[q]
    <3>1. /\ Taken(q) = P /\ P + Len(s) = A
          /\ \A j \in 1..Len(s) : Place(s[j]) = P + j
      BY <1>1, <2>1, <2>4 DEF Reading
    <3>2. /\ Len(t) = Len(s) + 1 /\ Len(s) \in Nat
          /\ \A j \in 1..Len(s) : t[j] = s[j]
          /\ t[Len(s) + 1] = c
      BY <1>1, <1>5, <2>4, AppendProperties, LenProperties
    <3> DEFINE m == Len(s)
               n == Len(t)
    <3>3. m \in Nat /\ n = m + 1 /\ P + m = A
      BY <3>1, <3>2
    <3> HIDE DEF m, n
    <3>4. P + n = A + 1 /\ P + (m + 1) = A + 1 /\ \A j \in 1..n : j \in 1..m \/ j = m + 1
      BY <1>2, <3>3
    <3>5. ASSUME NEW j \in 1..n PROVE Place(t[j]) = P + j
      <4>1. CASE j \in 1..m
        BY <3>1, <3>2, <4>1 DEF m
      <4>2. CASE j = m + 1
        BY <3>2, <3>4, <4>2 DEF m
      <4> QED BY <3>4, <4>1, <4>2
    <3> QED BY <3>1, <3>4, <3>5 DEF n
  <2> QED BY <1>1, <1>9, <2>1, <2>2, <2>3, <2>4, StreamStill DEF Reading, Uploading
<1>12. ASSUME NEW i \in Acks(q)' PROVE Earned(q, R, i)'
  <2>1. Earned(q, P, i)
    BY <1>1, <1>12 DEF Acks, Follows
  <2>2. i \in Int /\ Start(i + 1) \in Int
    BY <2>1, StartInt DEF Earned, Uploading, Session
  <2>3. Start(i + 1) <= R
    BY <1>2, <1>3, <2>1, <2>2 DEF Earned
  <2> QED BY <1>1, <1>9, <1>10, <2>1, <2>3 DEF Earned, Uploading, Start
<1>13. Follows(q, A + 1, R)'
  BY <1>1, <1>2, <1>8, <1>11, <1>12 DEF Follows
<1> QED BY <1>3, <1>13

----------------------------------------------------------------------------
(* The lines' functions stay functions. *)

LEMMA ArriveFunctions ==
  ASSUME Functions, UNCHANGED uploads, Arrive
  PROVE  Functions'
<1>1. /\ fifo' = [q \in Qtrm |-> IF Hears(q) THEN Append(fifo[q], Head(line)) ELSE fifo[q]]
      /\ lost' = [q \in Qtrm |-> lost[q] \/ ~Hears(q)]
      /\ UNCHANGED <<mode, rx, flash, reply, misreads>>
  BY DEF Arrive
<1>2. IsFunction(fifo)' /\ IsFunction(lost)'
  BY <1>1 DEF IsFunction
<1> QED BY <1>1, <1>2 DEF Functions, IsFunction

LEMMA AloneFunctions ==
  ASSUME Functions, UNCHANGED uploads, NEW q \in Qtrm, Alone(q)
  PROVE  Functions'
BY DEF Functions, Alone, Touches, IsFunction

(* The part of a step of the GUI or the QCC that the bootloaders see.      *)
LEMMA RelayFunctions ==
  ASSUME Functions, uploads' \in Nat, Relay, IsFunction(reply)'
  PROVE  Functions'
BY DEF Functions, Relay, IsFunction

(* A step of a bootloader in an undisturbed upload.                        *)
LEMMA BootFollows ==
  ASSUME ProgInv, Bootloader(BootStep)
  PROVE  ProgInv'
<1>1. /\ BootStep /\ UNCHANGED <<vars, uploads, faults>>
      /\ fresh' => fresh /\ \A q \in Qtrm : misreads'[q] = misreads[q]
      /\ Functions
  BY DEF Bootloader, ProgInv
<1>2. UNCHANGED <<op, current, chunkCount, ackMatrix, announces, link>>
  BY <1>1 DEF vars, sessionVars, uploadVars
<1>3. Functions'
  <2>1. CASE Arrive
    BY <1>1, <2>1, ArriveFunctions
  <2>2. ASSUME NEW q \in Qtrm, Command(q) \/ Reception(q) \/ Elsewhere(q) PROVE Functions'
    <3>1. Alone(q)
      BY <1>1, <2>2, CommandAlone, ReceptionAlone, ElsewhereAlone
    <3> QED BY <1>1, <3>1, AloneFunctions
  <2> QED BY <1>1, <2>1, <2>2 DEF BootStep
<1>4. SUFFICES ASSUME fresh', op' = "upload" PROVE Session' /\ Streaming'
  BY <1>3 DEF ProgInv
<1>5. fresh /\ op = "upload" /\ Session /\ Streaming
  BY <1>1, <1>2, <1>4 DEF ProgInv
<1>6. Session' /\ Uploading
  BY <1>1, <1>2, <1>5 DEF Session, Uploading
<1>7. PICK L \in -1..Start(current + 1) :
        OnLine(L) /\ \A q \in Qtrm : \E P \in -1..Left(L) : Follows(q, Left(L), P)
  BY <1>5 DEF Streaming
<1>8. /\ Start(current + 1) \in Int /\ Start(chunkCount) \in Int
      /\ Start(current + 1) <= Start(chunkCount)
  <2>1. current + 1 \in Int /\ chunkCount \in Int /\ current + 1 <= chunkCount
    BY <1>5 DEF Session
  <2>2. CASE current + 1 = chunkCount
    BY <2>1, <2>2, StartInt
  <2>3. CASE current + 1 < chunkCount
    BY <2>1, <2>3, StartInt, StartGrows, StartAt
  <2> QED BY <2>1, <2>2, <2>3
<1>9. L \in Int /\ L \in -1..Start(current + 1)' /\ Left(L) \in Int /\ Left(L) <= Start(chunkCount)
  BY <1>2, <1>7, <1>8 DEF OnLine, Start
<1>10. CASE Arrive
  <2>1. /\ OnLine(L)' /\ Left(L)' = Left(L) + 1
        /\ Head(line) \in StreamCells /\ Place(Head(line)) = Left(L) + 1
    BY <1>2, <1>6, <1>7, <1>9, <1>10, LineArrive
  <2>2. ASSUME NEW q \in Qtrm PROVE \E R \in -1..Left(L)' : Follows(q, Left(L), R)'
    <3>1. PICK A : A = Left(L)
      OBVIOUS
    <3>2. PICK P : Follows(q, A, P)
      BY <1>7, <3>1
    <3>3. \E R \in -1..(A + 1) : Follows(q, A + 1, R)'
      BY <1>2, <1>6, <1>9, <1>10, <2>1, <3>1, <3>2, ArriveFollows
    <3>4. A + 1 = Left(L)'
      BY <2>1, <3>1
    <3> QED BY <3>3, <3>4
  <2> QED BY <1>6, <1>9, <2>1, <2>2 DEF Streaming
<1>11. ASSUME NEW q \in Qtrm, Command(q) \/ Reception(q) \/ Elsewhere(q) PROVE Streaming'
  <2>1. Alone(q)
    BY <1>1, <1>11, CommandAlone, ReceptionAlone, ElsewhereAlone
  <2>2. PICK A : A = Left(L)
    OBVIOUS
  <2>3. line' = line /\ Left(L)' = A /\ OnLine(L)'
    <3>1. line' = line
      BY <2>1 DEF Alone
    <3> QED BY <1>2, <1>6, <1>7, <2>2, <3>1, StreamStill DEF OnLine, Left, Start
  <2>4. ASSUME NEW r \in Qtrm PROVE \E R \in -1..A : Follows(r, A, R)'
    <3>1. PICK P \in -1..A : Follows(r, A, P)
      BY <1>7, <2>2
    <3>2. CASE r = q
      BY <1>1, <1>2, <1>4, <1>6, <1>9, <1>11, <2>2, <3>1, <3>2, StepFollows
    <3>3. CASE r # q
      <4>1. /\ mode'[r] = mode[r] /\ rx'[r] = rx[r] /\ fifo'[r] = fifo[r]
            /\ reply'[r] = reply[r] /\ lost'[r] = lost[r] /\ flash'[r] = flash[r]
        BY <2>1, <3>3 DEF Alone, Touches
      <4>2. Acks(r)' = Acks(r) /\ reply'[r] \in Seq(PacketType)
        BY <1>2, <3>1, <4>1 DEF Acks, Follows
      <4>3. Follows(r, A, P)'
        BY <1>6, <3>1, <4>1, <4>2, FollowsStill
      <4> QED BY <4>3
    <3> QED BY <3>2, <3>3
  <2> QED BY <1>9, <2>3, <2>4 DEF Streaming
<1> QED BY <1>1, <1>6, <1>10, <1>11 DEF BootStep

----------------------------------------------------------------------------
(* What the session sends. *)

(* A chunk on a line.                                                      *)
LEMMA CellsOfChunk ==
  ASSUME Session', NEW i \in 0..(chunkCount' - 1), sent' = <<Frame("chunk", i)>>
  PROVE  /\ CellsOf(sent') \in Seq(StreamCells') /\ Len(CellsOf(sent')) = ChunkCells
         /\ \A j \in 1..ChunkCells : Place(CellsOf(sent')[j]) = Start(i) + j
<1> DEFINE w == CellsOf(sent')
<1>1. ChunkCells \in Nat \ {0} /\ i \in Int
  BY StartAt
<1>2. Len(sent') = 1 /\ sent'[1].cmd = "chunk" /\ sent'[1].arg = i
  BY DEF Frame
<1>3. ASSUME NEW j \in 1..ChunkCells PROVE (j - 1) \div ChunkCells = 0 /\ (j - 1) % ChunkCells = j - 1
  BY <1>1
<1>4. w = [j \in 1..ChunkCells |-> Cell("chunk", uploads', i, j)]
  <2>1. ChunkCells * Len(sent') = ChunkCells
    BY <1>1, <1>2
  <2>2. w = [j \in 1..ChunkCells |->
              ChunkPart(sent'[1 + ((j - 1) \div ChunkCells)], 1 + ((j - 1) % ChunkCells))]
    BY <1>2, <2>1 DEF CellsOf
  <2>3. ASSUME NEW j \in 1..ChunkCells
        PROVE  ChunkPart(sent'[1 + ((j - 1) \div ChunkCells)], 1 + ((j - 1) % ChunkCells))
                 = Cell("chunk", uploads', i, j)
    <3>1. 1 + ((j - 1) \div ChunkCells) = 1 /\ 1 + ((j - 1) % ChunkCells) = j
      BY <1>1, <1>3
    <3> QED BY <1>2, <3>1 DEF ChunkPart
  <2> QED BY <2>2, <2>3
<1> HIDE DEF w
<1>5. ASSUME NEW j \in 1..ChunkCells
      PROVE  w[j] = Cell("chunk", uploads', i, j) /\ w[j] \in StreamCells' /\ Place(w[j]) = Start(i) + j
  <2>1. w[j] = Cell("chunk", uploads', i, j)
    BY <1>4
  <2>2. w[j] \in StreamCells'
    BY <2>1 DEF StreamCells, ChunkCell
  <2>3. Place(w[j]) = Start(i) + j
    BY <2>1 DEF Place, Cell
  <2> QED BY <2>1, <2>2, <2>3
<1>6. w \in [1..ChunkCells -> StreamCells']
  BY <1>4, <1>5
<1>7. w \in Seq(StreamCells') /\ Len(w) = ChunkCells
  <2>1. w \in Seq(StreamCells')
    BY <1>1, <1>6, SeqDef
  <2>2. DOMAIN w = 1..Len(w) /\ Len(w) \in Nat /\ DOMAIN w = 1..ChunkCells
    BY <1>6, <2>1, LenProperties
  <2> DEFINE n == Len(w)
  <2>3. n \in Nat /\ 1..n = 1..ChunkCells
    BY <2>2
  <2> HIDE DEF n
  <2>4. n = ChunkCells
    <3>1. n <= ChunkCells
      <4>1. n = 0 \/ n \in 1..n
        BY <2>3
      <4> QED BY <1>1, <2>3, <4>1
    <3>2. ChunkCells \in 1..n
      BY <1>1, <2>3
    <3> QED BY <1>1, <2>3, <3>1, <3>2
  <2> QED BY <2>1, <2>4 DEF n
<1> QED BY <1>5, <1>7 DEF w

LEMMA NoFrames == ASSUME NEW c \in Int PROVE ChunkFrames(c, c) = <<>>
<1>1. c - c = 0
  OBVIOUS
<1>2. ChunkFrames(c, c) = [k \in 1..0 |-> Frame("chunk", c + k)]
  BY <1>1 DEF ChunkFrames
<1> QED BY <1>2

LEMMA OneFrame == ASSUME NEW c \in Int PROVE ChunkFrames(c, c + 1) = <<Frame("chunk", c + 1)>>
<1>1. (c + 1) - c = 1
  OBVIOUS
<1>2. ChunkFrames(c, c + 1) = [k \in 1..1 |-> Frame("chunk", c + k)]
  BY <1>1 DEF ChunkFrames
<1>3. \A k \in 1..1 : k = 1
  OBVIOUS
<1>4. [k \in 1..1 |-> Frame("chunk", c + k)] = [k \in 1..1 |-> Frame("chunk", c + 1)]
  BY <1>3
<1> QED BY <1>2, <1>4

(* A stream that grows while the lines are empty.                          *)
LEMMA FollowsOn ==
  ASSUME Uploading, NEW q \in Qtrm, NEW A \in Int, NEW B \in Int, NEW P, Follows(q, A, P),
         B = A \/ (A = -1 /\ B = 0),
         UNCHANGED <<mode, rx, fifo, lost, flash>>,
         reply'[q] \in Seq(PacketType), Acks(q)' \subseteq Acks(q)
  PROVE  P \in -1..B /\ Follows(q, B, P)'
<1>1. Follows(q, A, P)' /\ Coming(q, A, P)' /\ P \in -1..A
  BY FollowsStill DEF Follows, Coming
<1>2. CASE B = A
  BY <1>1, <1>2
<1>3. CASE A = -1 /\ B = 0
  <2>1. P = -1
    BY <1>1, <1>3
  <2>2. fifo'[q] = <<>>
    <3>1. fifo'[q] \in Seq(StreamCells') /\ \A j \in 1..Len(fifo'[q]) : Place(fifo'[q][j]) \in (P + 1)..A
      BY <1>1 DEF Coming
    <3>2. Len(fifo'[q]) \in Nat
      BY <3>1, LenProperties
    <3>3. Len(fifo'[q]) = 0
      <4> SUFFICES ASSUME Len(fifo'[q]) # 0 PROVE FALSE
        OBVIOUS
      <4>1. 1 \in 1..Len(fifo'[q])
        BY <3>2
      <4>2. Place(fifo'[q][1]) \in 0..(-1)
        BY <1>3, <2>1, <3>1, <4>1
      <4> QED BY <4>2
    <3> QED BY <3>1, <3>3, EmptySeq
  <2>3. Coming(q, B, P)'
    <3>1. <<>> \in Seq(StreamCells') /\ Len(<<>>) = 0
      OBVIOUS
    <3> QED BY <1>3, <2>1, <2>2, <3>1 DEF Coming
  <2>4. ~Receiving(q)'
    BY <1>1, <2>1 DEF Follows, Reading
  <2> QED BY <1>1, <1>3, <2>1, <2>3, <2>4 DEF Follows
<1> QED BY <1>2, <1>3

(* A frame leaves for the lines only when they are empty, with the chunk   *)
(* after all that was sent; or nothing leaves.                             *)
LEMMA RelayStreams ==
  ASSUME Uploading, Relay,
         NEW L \in -1..Start(current + 1), OnLine(L),
         \A q \in Qtrm : \E P \in -1..Left(L) : Follows(q, Left(L), P),
         \A q \in Qtrm : reply'[q] \in Seq(PacketType) /\ Acks(q)' \subseteq Acks(q),
         \/ sent' = <<>> /\ current' \in {current, 0} /\ current' >= current
         \/ /\ sent' = <<Frame("chunk", current')>> /\ current' = current + 1
            /\ line = <<>> /\ (current = -1 \/ L = Start(current + 1))
  PROVE  Streaming'
<1>1. /\ UNCHANGED <<mode, rx, fifo, flash, lost>>
      /\ IF sent' = <<>> THEN line' = line ELSE line' = line \o CellsOf(sent') \/ line' = line
  BY DEF Relay
<1>2. /\ current \in Int /\ current >= -1 /\ current' \in -1..(chunkCount' - 1) /\ current' \in Int
      /\ current' >= current
  BY DEF Uploading, Session
<1>3. Start(current + 1) \in Int /\ Start(current' + 1) \in Int /\ Start(current + 1) <= Start(current' + 1)
      /\ Start(0) = 0 /\ ChunkCells \in Nat
  <2>1. PICK c, e : c = current /\ e = current'
    OBVIOUS
  <2>2. c \in Int /\ e \in Int /\ c <= e /\ ChunkCells \in Nat /\ Start(0) = 0
    BY <1>2, <2>1, StartAt
  <2>3. Start(c + 1) \in Int /\ Start(e + 1) \in Int
    BY <2>2, StartInt
  <2>4. Start(c + 1) <= Start(e + 1)
    <3>1. CASE c = e
      BY <2>3, <3>1
    <3>2. CASE c < e
      <4>1. Start(c + 1) + ChunkCells <= Start(e + 1)
        BY <2>2, <3>2, StartGrows
      <4> QED BY <2>2, <2>3, <4>1
    <3> QED BY <2>2, <3>1, <3>2
  <2> QED BY <2>1, <2>2, <2>3, <2>4
<1>4. L \in Int /\ Left(L) \in Int /\ Left(L) \in -1..L /\ L >= -1
  BY <1>3 DEF OnLine
<1>5. PICK A : A = Left(L)
  OBVIOUS
<1>6. CASE line' = line
  <2>1. Left(L)' = A /\ OnLine(L)' /\ L \in -1..Start(current + 1)'
    <3>1. L \in -1..Start(current' + 1)
      BY <1>3, <1>4
    <3> QED BY <1>5, <1>6, <3>1, StreamStill DEF OnLine, Left, Start
  <2>2. ASSUME NEW q \in Qtrm PROVE \E P \in -1..A : Follows(q, A, P)'
    <3>1. PICK P \in -1..A : Follows(q, A, P)
      BY <1>5
    <3> QED BY <1>1, <1>4, <1>5, <3>1, FollowsOn
  <2> QED BY <2>1, <2>2 DEF Streaming
<1>7. CASE sent' # <<>> /\ line' = line \o CellsOf(sent')
  <2>1. /\ sent' = <<Frame("chunk", current')>> /\ current' = current + 1 /\ line = <<>>
        /\ current = -1 \/ L = Start(current + 1)
    BY <1>7
  <2>2. current' \in 0..(chunkCount' - 1) /\ Session'
    BY <1>2, <2>1 DEF Uploading
  <2>3. /\ line' \in Seq(StreamCells') /\ Len(line') = ChunkCells
        /\ \A j \in 1..ChunkCells : Place(line'[j]) = Start(current') + j
    <3>1. CellsOf(sent') \in Seq(StreamCells') /\ Len(CellsOf(sent')) = ChunkCells
          /\ \A j \in 1..ChunkCells : Place(CellsOf(sent')[j]) = Start(current') + j
      BY <2>1, <2>2, CellsOfChunk
    <3>2. line' = CellsOf(sent')
      <4>1. \A s \in Seq(StreamCells') : <<>> \o s = s
        BY ConcatEmptySeq
      <4> QED BY <1>7, <2>1, <3>1, <4>1
    <3> QED BY <3>1, <3>2
  <2>4. PICK c : c = current'
    OBVIOUS
  <2>5. PICK B : B = Start(c)
    OBVIOUS
  <2>6. c \in Int /\ c >= 0 /\ B \in Int /\ Start(c + 1) = B + ChunkCells
    BY <2>2, <2>4, <2>5, StartInt, StartNext
  <2>7. A = L /\ A \in Int
    <3>1. Len(line) = 0
      BY <2>1
    <3> QED BY <1>4, <1>5, <3>1 DEF Left
  <2>8. B = A \/ (A = -1 /\ B = 0)
    <3>1. CASE current = -1
      <4>1. c = 0 /\ current + 1 = 0
        BY <2>1, <2>4, <3>1
      <4>2. B = 0 /\ L \in -1..0
        BY <1>3, <2>5, <4>1
      <4> QED BY <2>7, <4>2
    <3>2. CASE L = Start(current + 1)
      BY <2>1, <2>4, <2>5, <2>7, <3>2
    <3> QED BY <2>1, <3>1, <3>2
  <2>9. B >= -1 /\ B >= A /\ ChunkCells \in Nat
    BY <1>3, <1>4, <2>6, <2>7, <2>8
  <2> DEFINE M == B + ChunkCells
  <2>10. M \in Int /\ M \in -1..Start(c + 1) /\ M - ChunkCells = B /\ B \in -1..M
    BY <2>6, <2>9
  <2> HIDE DEF M
  <2>11. M \in -1..Start(current + 1)' /\ Left(M)' = B
    <3>1. Start(current + 1)' = Start(c + 1)
      BY <2>4 DEF Start
    <3> QED BY <2>3, <2>10, <3>1 DEF Left
  <2>12. OnLine(M)'
    <3>1. \A j \in 1..Len(line') : Place(line'[j]) = B + j
      BY <2>3, <2>4, <2>5
    <3> QED BY <2>3, <2>10, <2>11, <3>1 DEF OnLine, Place, Start
  <2>13. ASSUME NEW q \in Qtrm PROVE \E P \in -1..B : Follows(q, B, P)'
    <3>1. PICK P : Follows(q, A, P)
      BY <1>5
    <3> QED BY <1>1, <2>6, <2>7, <2>8, <3>1, FollowsOn
  <2> QED BY <2>11, <2>12, <2>13 DEF Streaming
<1> QED BY <1>1, <1>6, <1>7

----------------------------------------------------------------------------
(* Steps of the GUI and of the QCC. *)

LEMMA InitProgInv == ProgInit => ProgInv
<1> SUFFICES ASSUME ProgInit PROVE ProgInv
  OBVIOUS
<1>1. Functions
  BY DEF ProgInit, BootInit, Functions, IsFunction
<1>2. ~fresh
  BY DEF ProgInit
<1> QED BY <1>1, <1>2 DEF ProgInv

LEMMA UploadFollows ==
  ASSUME ProgInv, NEW n \in 1..MaxChunks, Upload(n)
  PROVE  ProgInv'
<1>1. /\ line = <<>> /\ start_upload(n) /\ Relay /\ uploads' = uploads + 1
      /\ UNCHANGED reply /\ Functions
      /\ fresh' = (announces = 0 /\ \A q \in Qtrm : Quiet(q))
  BY DEF Upload, ProgInv
<1>2. /\ current' = -1 /\ chunkCount' = n /\ announces' = announces + 1
      /\ ackMatrix' = NoAcks /\ sent' = <<Frame("upload", target)>> /\ link' # "off"
  BY <1>1 DEF start_upload, Begin, Accepts, CanStart, NoChunk
<1>3. Functions'
  <2>1. uploads' \in Nat /\ IsFunction(reply)'
    BY <1>1 DEF Functions, IsFunction
  <2> QED BY <1>1, <2>1, RelayFunctions
<1>4. SUFFICES ASSUME fresh' PROVE Session' /\ Streaming'
  BY <1>3 DEF ProgInv
<1>5. announces = 0 /\ \A q \in Qtrm : Quiet(q)
  BY <1>1, <1>4
<1>6. Session'
  BY <1>2, <1>5 DEF Session
<1>7. Start(current' + 1) = 0
  BY <1>2, StartAt
<1>8. ASSUME NEW q \in Qtrm PROVE Follows(q, -1, -1)'
  <2>1. mode'[q] = "command" /\ fifo'[q] = <<>> /\ reply'[q] = <<>>
    BY <1>1, <1>5 DEF Quiet, Relay
  <2>2. Coming(q, -1, -1)'
    <3>1. <<>> \in Seq(StreamCells') /\ Len(<<>>) = 0
      OBVIOUS
    <3> QED BY <2>1, <3>1 DEF Coming
  <2>3. Acks(q)' = {}
    <3>1. q \in QTRM /\ \A i \in 0..(MaxChunks - 1) : ackMatrix'[q][i] = "none"
      BY <1>2, ProgrammingAssumption DEF NoAcks
    <3>2. Len(reply'[q]) = 0
      BY <2>1
    <3> QED BY <3>1, <3>2 DEF Acks
  <2>4. ~Receiving(q)' /\ reply'[q] \in Seq(PacketType)
    BY <2>1 DEF Receiving
  <2> QED BY <2>1, <2>2, <2>3, <2>4 DEF Follows
<1>9. CASE line' = <<>>
  <2>1. Len(line') = 0 /\ line' \in Seq(StreamCells')
    BY <1>9
  <2>2. Left(-1)' = -1
    BY <2>1 DEF Left
  <2>3. OnLine(-1)'
    BY <1>7, <2>1, <2>2 DEF OnLine, Start
  <2> QED BY <1>6, <1>7, <1>8, <2>2, <2>3 DEF Streaming, Start
<1>10. CASE line' = line \o CellsOf(sent')
  <2> DEFINE c == Cell("announce", uploads', chunkCount', 0)
  <2>1. CellsOf(sent') = <<c>>
    BY <1>2 DEF CellsOf, Frame
  <2>2. line' = <<c>>
    BY <1>1, <1>10, <2>1
  <2>3. c \in StreamCells' /\ Place(c) = 0
    BY DEF StreamCells, Place, Cell
  <2> HIDE DEF c
  <2>4. line' \in Seq(StreamCells') /\ Len(line') = 1 /\ line'[1] = c
    BY <2>2, <2>3
  <2>5. Left(0)' = -1
    BY <2>4 DEF Left
  <2>6. OnLine(0)'
    <3>1. Place(line'[1]) = -1 + 1
      BY <2>3, <2>4
    <3> QED BY <1>7, <2>4, <2>5, <3>1 DEF OnLine, Start, Place
  <2> QED BY <1>6, <1>7, <1>8, <2>5, <2>6 DEF Streaming, Start
<1> QED BY <1>1, <1>6, <1>9, <1>10 DEF Relay

(* An operation that ends leaves nothing to say of its stream.             *)
LEMMA EndFollows ==
  ASSUME ProgInv, Relay, UNCHANGED <<uploads, reply>>, op' = "none"
  PROVE  ProgInv'
<1>1. Functions'
  BY RelayFunctions DEF ProgInv, Functions
<1> QED BY <1>1 DEF ProgInv

LEMMA SettledFollows ==
  ASSUME ProgInv, Settled
  PROVE  ProgInv'
<1>1. /\ line = <<>> /\ announces > 0 /\ announces' = announces - 1 /\ current' = 0
      /\ sent' = <<>> \/ sent' = <<Frame("chunk", 0)>>
      /\ UNCHANGED <<op, chunkCount, ackMatrix, uploads, fresh, reply, link>>
      /\ Relay /\ Functions
  BY DEF Settled, announce_settled, ProgInv
<1>2. Functions'
  BY <1>1, RelayFunctions DEF Functions
<1>3. SUFFICES ASSUME fresh', op' = "upload" PROVE Session' /\ Streaming'
  BY <1>2 DEF ProgInv
<1>4. Session /\ Streaming
  BY <1>1, <1>3 DEF ProgInv
<1>5. current = -1 /\ announces' = 0 /\ Session'
  BY <1>1, <1>4 DEF Session
<1>6. Uploading
  BY <1>1, <1>4, <1>5 DEF Uploading
<1>7. PICK L \in -1..Start(current + 1) :
        OnLine(L) /\ \A q \in Qtrm : \E P \in -1..Left(L) : Follows(q, Left(L), P)
  BY <1>4 DEF Streaming
<1>8. \A q \in Qtrm : reply'[q] \in Seq(PacketType) /\ Acks(q)' \subseteq Acks(q)
  BY <1>1, <1>7 DEF Follows, Acks
<1>9. \/ sent' = <<>> /\ current' \in {current, 0} /\ current' >= current
      \/ /\ sent' = <<Frame("chunk", current')>> /\ current' = current + 1
         /\ line = <<>> /\ (current = -1 \/ L = Start(current + 1))
  BY <1>1, <1>5
<1> QED BY <1>1, <1>5, <1>6, <1>7, <1>8, <1>9, RelayStreams

(* The packets a frame hands on, as slots.                                 *)
Handed(from) == [q \in Qtrm |-> IF q \in from THEN SlotOf(Head(reply[q])) ELSE NoAck]

(* A slot that acknowledges chunk i is the packet of a QTRM that did.      *)
LEMMA SlotAcks ==
  ASSUME NEW from, NEW q \in Qtrm, reply[q] \in Seq(PacketType),
         q \in from => reply[q] # <<>>,
         NEW i, Handed(from)[q].idx = i, Handed(from)[q].ok = TRUE
  PROVE  i \in Acks(q)
<1>1. q \in from
  BY DEF Handed, NoAck
<1>2. 1 \in 1..Len(reply[q]) /\ Head(reply[q]) = reply[q][1] /\ reply[q][1] \in PacketType
  <2>1. Len(reply[q]) \in Nat /\ Len(reply[q]) # 0
    BY <1>1, LenProperties, EmptySeq
  <2>2. 1 \in 1..Len(reply[q])
    BY <2>1
  <2> QED BY <1>1, <2>2, HeadTailProperties, ElementOfSeq
<1>3. reply[q][1].kind = "ack" /\ reply[q][1].arg = i
  <2>1. Handed(from)[q] = SlotOf(reply[q][1])
    BY <1>1, <1>2 DEF Handed
  <2> QED BY <1>2, <2>1 DEF SlotOf, NoAck, PacketType
<1> QED BY <1>2, <1>3 DEF Acks

(* What was handed on is no longer a packet, and passed at most.           *)
LEMMA AnswerAcks ==
  ASSUME NEW from, NEW q \in Qtrm, reply[q] \in Seq(PacketType),
         q \in from => reply[q] # <<>>,
         reply'[q] = IF q \in from THEN Tail(reply[q]) ELSE reply[q],
         ackMatrix' = ackMatrix \/ ackMatrix' = record_acks(Handed(from))
  PROVE  reply'[q] \in Seq(PacketType) /\ Acks(q)' \subseteq Acks(q)
<1>1. ASSUME NEW i \in 0..(MaxChunks - 1), ackMatrix'[q][i] = "pass"
      PROVE  i \in Acks(q)
  <2>1. CASE ackMatrix[q][i] = "pass"
    BY <2>1 DEF Acks
  <2>2. CASE ackMatrix[q][i] # "pass"
    <3>1. ackMatrix' = record_acks(Handed(from)) /\ q \in QTRM
      BY <1>1, <2>2, ProgrammingAssumption
    <3>2. ackMatrix'[q][i] = IF Handed(from)[q].idx = i /\ i < chunkCount /\ ackMatrix[q][i] # "pass"
                             THEN IF Handed(from)[q].ok THEN "pass" ELSE "fail"
                             ELSE ackMatrix[q][i]
      BY <3>1 DEF record_acks
    <3>3. Handed(from)[q].idx = i /\ Handed(from)[q].ok = TRUE
      <4>1. Handed(from)[q].ok \in BOOLEAN
        BY DEF Handed, SlotOf, NoAck
      <4> QED BY <1>1, <2>2, <3>2, <4>1
    <3> QED BY <3>3, SlotAcks
  <2> QED BY <2>1, <2>2
<1>2. /\ reply'[q] \in Seq(PacketType)
      /\ \A k \in 1..Len(reply'[q]) : \E m \in 1..Len(reply[q]) : reply'[q][k] = reply[q][m]
  <2>1. CASE q \notin from
    BY <2>1
  <2>2. CASE q \in from
    <3> DEFINE r == reply[q]
    <3>1. r \in Seq(PacketType) /\ r # <<>> /\ reply'[q] = Tail(r)
      BY <2>2
    <3> HIDE DEF r
    <3>2. /\ Tail(r) \in Seq(PacketType) /\ Len(Tail(r)) = Len(r) - 1 /\ Len(r) \in Nat
          /\ \A k \in 1..Len(Tail(r)) : Tail(r)[k] = r[k + 1]
      BY <3>1, HeadTailProperties, LenProperties
    <3>3. ASSUME NEW k \in 1..Len(Tail(r)) PROVE \E m \in 1..Len(r) : Tail(r)[k] = r[m]
      BY <3>2
    <3> QED BY <3>1, <3>2, <3>3 DEF r
  <2> QED BY <2>1, <2>2
<1>3. ASSUME NEW k \in 1..Len(reply'[q]), reply'[q][k].kind = "ack"
      PROVE  reply'[q][k].arg \in Acks(q)
  BY <1>2, <1>3 DEF Acks
<1> QED BY <1>1, <1>2, <1>3 DEF Acks

(* Nobody acknowledges a chunk that was not sent: a frame moves the stream *)
(* on by one chunk at most, when all that was sent has left the lines.     *)
LEMMA StreamAnswer ==
  ASSUME Session, NEW from,
         NEW L \in -1..Start(current + 1), OnLine(L),
         \A q \in Qtrm : \E P \in -1..Left(L) : Follows(q, Left(L), P),
         \A q \in from : reply[q] # <<>>,
         NEW d \in current..chunkCount, Reaches(Handed(from), current, d), stream_to(d)
  PROVE  \/ sent' = <<>> /\ current' = current
         \/ /\ sent' = <<Frame("chunk", current')>> /\ current' = current + 1
            /\ current # -1 /\ current + 1 < chunkCount
            /\ line = <<>> /\ L = Start(current + 1)
<1>1. PICK c, n, A : c = current /\ n = chunkCount /\ A = Left(L)
  OBVIOUS
<1>2. /\ c \in Int /\ n \in Int /\ -1 <= c /\ c < n /\ d \in Int /\ c <= d /\ d <= n
      /\ link # "off"
  BY <1>1 DEF Session
<1>3. Start(c + 1) \in Int /\ ChunkCells \in Nat \ {0}
  <2>1. c + 1 \in Int
    BY <1>2
  <2> QED BY <2>1, StartInt, BootAssumption
<1>4. L \in Int /\ A \in Int /\ A <= L /\ L <= Start(c + 1)
  BY <1>1, <1>3 DEF OnLine
<1>5. ASSUME NEW i \in c..(d - 1) PROVE i >= 0 /\ i \in Int /\ Start(i + 1) <= A
  <2>1. PICK q \in Qtrm : Handed(from)[q] = [idx |-> i, ok |-> TRUE]
    BY <1>1, <1>5, ProgrammingAssumption DEF Reaches
  <2>2. PICK P \in -1..A : Follows(q, A, P)
    BY <1>1
  <2>3. i \in Acks(q)
    <3>1. Handed(from)[q].idx = i /\ Handed(from)[q].ok = TRUE
      BY <2>1
    <3>2. reply[q] \in Seq(PacketType)
      BY <2>2 DEF Follows
    <3> QED BY <3>1, <3>2, SlotAcks
  <2>4. i \in 0..(n - 1) /\ Start(i + 1) <= P
    BY <1>1, <2>2, <2>3 DEF Follows, Earned
  <2>5. i \in Int /\ i >= 0 /\ Start(i + 1) \in Int
    BY <1>2, <2>4, StartInt
  <2> QED BY <1>4, <2>4, <2>5
<1>6. d = c \/ (d = c + 1 /\ c >= 0 /\ A = L /\ L = Start(c + 1))
  <2>1. ASSUME d > c + 1 PROVE FALSE
    <3>1. c + 1 \in c..(d - 1)
      BY <1>2, <2>1
    <3>2. Start((c + 1) + 1) <= A
      BY <1>5, <3>1
    <3>3. Start((c + 1) + 1) = Start(c + 1) + ChunkCells
      BY <1>2, StartNext
    <3> QED BY <1>3, <1>4, <3>2, <3>3
  <2>2. CASE d = c + 1
    <3>1. c \in c..(d - 1)
      BY <1>2, <2>2
    <3>2. c >= 0 /\ Start(c + 1) <= A
      BY <1>5, <3>1
    <3> QED BY <1>3, <1>4, <2>2, <3>2
  <2> QED BY <1>2, <2>1, <2>2
<1>7. CASE d = c
  <2>1. current' = c /\ sent' = ChunkFrames(c, c)
    BY <1>1, <1>2, <1>7 DEF stream_to
  <2> QED BY <1>1, <1>2, <2>1, NoFrames
<1>8. CASE d = c + 1 /\ c >= 0 /\ A = L /\ L = Start(c + 1)
  <2>1. CASE d = n
    <3>1. current' = c /\ sent' = ChunkFrames(c, c)
      <4>1. n - 1 = c /\ ~(d < n)
        BY <1>2, <1>8, <2>1
      <4> QED BY <1>1, <1>2, <4>1 DEF stream_to
    <3> QED BY <1>1, <1>2, <3>1, NoFrames
  <2>2. CASE d < n
    <3>1. current' = c + 1 /\ sent' = ChunkFrames(c, c + 1)
      BY <1>1, <1>2, <1>8, <2>2 DEF stream_to
    <3>2. line = <<>>
      <4>1. line \in Seq(StreamCells) /\ Len(line) \in Nat
        BY LenProperties DEF OnLine
      <4>2. L - Len(line) = L
        BY <1>1, <1>8 DEF Left
      <4>3. Len(line) = 0
        BY <1>4, <4>1, <4>2
      <4> QED BY <4>1, <4>3, EmptySeq
    <3>3. sent' = <<Frame("chunk", c + 1)>>
      BY <1>2, <3>1, OneFrame
    <3> QED BY <1>1, <1>2, <1>8, <2>2, <3>1, <3>2, <3>3
  <2> QED BY <1>2, <2>1, <2>2
<1> QED BY <1>6, <1>7, <1>8

LEMMA AnswerFollows ==
  ASSUME ProgInv, NEW from \in SUBSET Qtrm, Answer(from)
  PROVE  ProgInv'
<1>1. /\ \A q \in from : reply[q] # <<>>
      /\ reply' = [q \in Qtrm |-> IF q \in from THEN Tail(reply[q]) ELSE reply[q]]
      /\ UNCHANGED <<uploads, fresh>> /\ Relay /\ Functions
      /\ \/ FrameFor({"upload"}) /\ UploadFrame(Handed(from))
         \/ sent' = <<>> /\ UNCHANGED <<sessionVars, uploadVars>>
  BY DEF Answer, Handed, ProgInv
<1>2. Functions'
  <2>1. uploads' \in Nat /\ IsFunction(reply)'
    BY <1>1 DEF Functions, IsFunction
  <2> QED BY <1>1, <2>1, RelayFunctions
<1>3. SUFFICES ASSUME fresh', op' = "upload" PROVE Session' /\ Streaming'
  BY <1>2 DEF ProgInv
<1>4. UNCHANGED <<op, chunkCount, announces, link>>
  BY <1>1 DEF UploadFrame, sessionVars, uploadVars, Answer
<1>5. Session /\ Streaming
  BY <1>1, <1>3, <1>4 DEF ProgInv
<1>6. Seen(Handed(from)) = Handed(from)
  <2>1. Handed(from) = [q \in QTRM |-> Handed(from)[q]]
    BY ProgrammingAssumption DEF Handed
  <2> QED BY <1>5, <2>1, SeenSlots DEF Session
<1>7. /\ UNCHANGED <<op, chunkCount, announces, link>>
      /\ ackMatrix' = ackMatrix \/ ackMatrix' = record_acks(Handed(from))
  BY <1>1, <1>4, <1>6 DEF UploadFrame, sessionVars, uploadVars
<1>8. PICK L \in -1..Start(current + 1) :
        OnLine(L) /\ \A q \in Qtrm : \E P \in -1..Left(L) : Follows(q, Left(L), P)
  BY <1>5 DEF Streaming
<1>9. ASSUME NEW q \in Qtrm
      PROVE  reply'[q] \in Seq(PacketType) /\ Acks(q)' \subseteq Acks(q)
  <2>1. reply[q] \in Seq(PacketType)
    BY <1>8 DEF Follows
  <2>2. reply'[q] = IF q \in from THEN Tail(reply[q]) ELSE reply[q]
    BY <1>1
  <2> QED BY <1>1, <1>7, <2>1, <2>2, AnswerAcks
<1>10. \/ sent' = <<>> /\ current' = current
       \/ /\ sent' = <<Frame("chunk", current')>> /\ current' = current + 1
          /\ current # -1 /\ current + 1 < chunkCount
          /\ line = <<>> /\ L = Start(current + 1)
  <2>1. CASE UploadFrame(Handed(from)) /\ phase = "stream"
    <3>1. PICK d \in current..chunkCount : Reaches(Handed(from), current, d) /\ stream_to(d)
      BY <1>6, <2>1 DEF UploadFrame
    <3> QED BY <1>1, <1>5, <1>8, <3>1, StreamAnswer
  <2>2. CASE ~(UploadFrame(Handed(from)) /\ phase = "stream")
    BY <1>1, <2>2 DEF UploadFrame, sessionVars
  <2> QED BY <2>1, <2>2
<1>11. Session'
  BY <1>5, <1>7, <1>10 DEF Session
<1>12. Uploading
  BY <1>1, <1>5, <1>7, <1>11 DEF Uploading
<1>13. \/ sent' = <<>> /\ current' \in {current, 0} /\ current' >= current
       \/ /\ sent' = <<Frame("chunk", current')>> /\ current' = current + 1
          /\ line = <<>> /\ (current = -1 \/ L = Start(current + 1))
  BY <1>5, <1>10 DEF Session
<1> QED BY <1>1, <1>8, <1>9, <1>11, <1>12, <1>13, RelayStreams

(* A step that neither sends nor moves a cell, and acknowledges nothing.   *)
LEMMA StillStreams ==
  ASSUME Uploading, Streaming, UNCHANGED <<current, line, mode, rx, fifo, lost, flash>>,
         \A q \in Qtrm : reply[q] \in Seq(PacketType)
           => reply'[q] \in Seq(PacketType) /\ Acks(q)' \subseteq Acks(q)
  PROVE  Streaming'
<1>1. PICK L \in -1..Start(current + 1) :
        OnLine(L) /\ \A q \in Qtrm : \E P \in -1..Left(L) : Follows(q, Left(L), P)
  BY DEF Streaming
<1>2. PICK A : A = Left(L)
  OBVIOUS
<1>3. OnLine(L)' /\ Left(L)' = A /\ L \in -1..Start(current + 1)'
  BY <1>1, <1>2, StreamStill DEF OnLine, Left, Place, Start
<1>4. ASSUME NEW q \in Qtrm PROVE \E P \in -1..A : Follows(q, A, P)'
  <2>1. PICK P \in -1..A : Follows(q, A, P)
    BY <1>1, <1>2
  <2>2. reply'[q] \in Seq(PacketType) /\ Acks(q)' \subseteq Acks(q)
    BY <2>1 DEF Follows
  <2>3. /\ mode'[q] = mode[q] /\ rx'[q] = rx[q] /\ fifo'[q] = fifo[q]
        /\ lost'[q] = lost[q] /\ flash'[q] = flash[q]
    OBVIOUS
  <2>4. Follows(q, A, P)'
    BY <2>1, <2>2, <2>3, FollowsStill
  <2> QED BY <2>4
<1> QED BY <1>3, <1>4 DEF Streaming

LEMMA LoseFollows ==
  ASSUME ProgInv, NEW q \in Qtrm, LoseAnswer(q)
  PROVE  ProgInv'
<1>1. /\ reply[q] # <<>> /\ reply' = [reply EXCEPT ![q] = Tail(@)] /\ Functions
      /\ UNCHANGED <<op, current, chunkCount, ackMatrix, announces, uploads, fresh, link>>
      /\ UNCHANGED <<mode, rx, fifo, line, flash, lost, misreads>>
  BY DEF LoseAnswer, ProgInv, vars, sessionVars, uploadVars
<1>2. Functions'
  BY <1>1 DEF Functions, IsFunction
<1>3. SUFFICES ASSUME fresh', op' = "upload" PROVE Session' /\ Streaming'
  BY <1>2 DEF ProgInv
<1>4. Session /\ Session' /\ Streaming /\ Uploading
  BY <1>1, <1>3 DEF ProgInv, Session, Uploading
<1>5. ASSUME NEW r \in Qtrm, reply[r] \in Seq(PacketType)
      PROVE  reply'[r] \in Seq(PacketType) /\ Acks(r)' \subseteq Acks(r)
  <2>1. reply'[r] = IF r \in {q} THEN Tail(reply[r]) ELSE reply[r]
    BY <1>1 DEF Functions, IsFunction
  <2>2. r \in {q} => reply[r] # <<>>
    BY <1>1
  <2> QED BY <1>1, <1>5, <2>1, <2>2, AnswerAcks
<1> QED BY <1>1, <1>4, <1>5, StillStreams

LEMMA StutterFollows ==
  ASSUME ProgInv, UNCHANGED progVars
  PROVE  ProgInv'
<1>1. /\ UNCHANGED <<op, current, chunkCount, ackMatrix, announces, uploads, fresh, link>>
      /\ UNCHANGED <<mode, rx, fifo, line, flash, lost, misreads, reply>> /\ Functions
  BY DEF progVars, bootVars, ProgInv, vars, sessionVars, uploadVars
<1>2. Functions'
  BY <1>1 DEF Functions, IsFunction
<1>3. SUFFICES ASSUME fresh', op' = "upload" PROVE Session' /\ Streaming'
  BY <1>2 DEF ProgInv
<1>4. Session /\ Session' /\ Streaming /\ Uploading
  BY <1>1, <1>3 DEF ProgInv, Session, Uploading
<1>5. \A q \in Qtrm : Acks(q)' = Acks(q)
  BY <1>1 DEF Acks
<1> QED BY <1>1, <1>4, <1>5, StillStreams

----------------------------------------------------------------------------
LEMMA StepProgInv == ProgInv /\ [ProgNext]_progVars => ProgInv'
<1> SUFFICES ASSUME ProgInv, [ProgNext]_progVars PROVE ProgInv'
  OBVIOUS
<1>1. ASSUME NEW n \in 1..MaxChunks, Upload(n) PROVE ProgInv'
  BY <1>1, UploadFollows
<1>2. CASE Cancel
  BY <1>2, EndFollows DEF Cancel, cancel, finish
<1>3. CASE Settled
  BY <1>3, SettledFollows
<1>4. CASE Timeout
  BY <1>4, EndFollows DEF Timeout, close_upload_pass, finish
<1>5. ASSUME NEW from \in SUBSET Qtrm \ {{}}, Answer(from) PROVE ProgInv'
  BY <1>5, AnswerFollows
<1>6. ASSUME NEW q \in Qtrm, LoseAnswer(q) PROVE ProgInv'
  BY <1>6, LoseFollows
<1>7. CASE Bootloader(BootStep)
  BY <1>7, BootFollows
<1>8. CASE UNCHANGED progVars
  BY <1>8, StutterFollows
<1> QED
  BY <1>1, <1>2, <1>3, <1>4, <1>5, <1>6, <1>7, <1>8
  DEF ProgNext, GuiStep, QccStep, QtrmStep

(* The inductive invariant of the composition, for every number of QTRMs,  *)
(* chunks, cells, faults and resets.                                       *)
THEOREM UploadInvariant == ProgSpec => []ProgInv
BY InitProgInv, StepProgInv, PTL DEF ProgSpec

(* A pass of a QTRM that has lost nothing since its announce is a chunk in *)
(* its flash.                                                              *)
LEMMA StoredByInv == ProgInv => AckMeansStored
<1> SUFFICES ASSUME ProgInv, op = "upload", fresh, NEW q \in Qtrm,
                    NEW i \in 0..(MaxChunks - 1), ackMatrix[q][i] = "pass", ~lost[q]
             PROVE  Holds(q, i)
  BY DEF AckMeansStored
<1>1. PICK A, P : Follows(q, A, P)
  BY DEF ProgInv, Streaming
<1>2. i \in Acks(q)
  BY DEF Acks
<1> QED BY <1>1, <1>2 DEF Follows, Earned

(* While an upload runs that started with nothing left over, whatever a    *)
(* QTRM acked without having missed a cell is at its place in its flash.   *)
THEOREM AcksAreStored == ProgSpec => []AckMeansStored
BY UploadInvariant, StoredByInv, PTL

(* The ack of the last chunk vouches for all of them: every cell was taken *)
(* by then, none of them before its turn.                                  *)
LEMMA ImageByInv ==
  ASSUME ProgInv, close_upload_pass, op = "upload", outcome' = "ok", fresh,
         NEW q \in Qtrm, NEW i \in 0..(chunkCount - 1)
  PROVE  Holds(q, i)
<1>1. Session /\ Streaming
  BY DEF ProgInv
<1>2. chunkCount - 1 \in 0..(MaxChunks - 1) /\ chunkCount - 1 \in 0..(chunkCount - 1)
  BY <1>1, ConstantsAssumption DEF Session
<1>3. missing_chunk_indices = {}
  BY DEF close_upload_pass, finish, Result
<1>4. ackMatrix[q][chunkCount - 1] = "pass"
  <2>1. q \in QTRM
    BY ProgrammingAssumption
  <2> QED BY <1>2, <1>3, <2>1 DEF missing_chunk_indices
<1>5. chunkCount - 1 \in Acks(q)
  BY <1>2, <1>4 DEF Acks
<1>6. PICK A, P : Follows(q, A, P)
  BY <1>1 DEF Streaming
<1>7. Earned(q, P, chunkCount - 1)
  BY <1>5, <1>6 DEF Follows
<1> QED BY <1>7 DEF Earned

(* An upload that started with nothing left over and ends complete has put *)
(* every chunk of the image at its place in the flash of every QTRM, when  *)
(* frames, cells and answers may be lost and a bootloader may be reset.    *)
THEOREM CompleteMeansImage == ProgSpec => OkMeansImage
<1>1. ProgInv =>
        [close_upload_pass /\ op = "upload" /\ outcome' = "ok" /\ fresh =>
           \A q \in Qtrm : \A i \in 0..(chunkCount - 1) : Holds(q, i)]_progVars
  BY ImageByInv
<1> QED BY <1>1, UploadInvariant, PTL DEF OkMeansImage

=============================================================================
